--------------------------- MODULE MCManualLanding ---------------------------
(* FlightControl with ManualLanding for TLC: three pilots.  Each behaviour   *)
(* has one of them; the other pilots' sticks would only multiply its states.  *)
EXTENDS ManualLanding, MCFlightControl

VARIABLE pilot  \* who flies this behaviour

\* Arm, fly by hand, take off, hold altitude, cut the throttle and disarm.
FlightRequests ==
    {Stick(TRUE, TRUE, FALSE, 1000), Stick(FALSE, TRUE, FALSE, 1000),
     Stick(TRUE, FALSE, TRUE, 1000), Stick(TRUE, FALSE, FALSE, 1500),
     Stick(TRUE, FALSE, FALSE, 2000)}

\* Arm, lift off by hand, land with the manual switch released, take off again,
\* hover and disarm.
LandRequests ==
    {Stick(TRUE, TRUE, FALSE, 1000), Stick(FALSE, TRUE, FALSE, 1000),
     Stick(TRUE, FALSE, FALSE, 1000), Stick(TRUE, FALSE, TRUE, 1000),
     Stick(TRUE, FALSE, FALSE, 1500)}

\* Arm, hold altitude, and work the tracker switches.
TrackRequests ==
    {Stick(TRUE, TRUE, FALSE, 1000), Tracking("low"), Tracking("mid"), Tracking("high"),
     [Tracking("high") EXCEPT !.centered = FALSE],
     [Tracking("high") EXCEPT !.tracker = FALSE]}

MCRequests == FlightRequests \cup LandRequests \cup TrackRequests

Sends ==
    [flies |-> FlightRequests, lands |-> LandRequests, tracks |-> TrackRequests]

\* Only the one who flies meets a stop request or a fatal error; only the one
\* who lands changes the confirmation time; the one who tracks flies level.
MCInit ==
    /\ LandInit /\ pilot \in DOMAIN Sends
    /\ pilot # "lands" => confirm_s = 1
    /\ pilot = "tracks" => drone_alt = 1

MCNext ==
    /\ LandNext /\ UNCHANGED pilot
    /\ request_rc' \in Sends[pilot] \cup {DefaultRequest, Invalid}
    /\ pilot # "flies" => UNCHANGED <<stop, fatal>>
    /\ pilot # "lands" => UNCHANGED confirm_s
    /\ pilot = "tracks" => UNCHANGED drone_alt

MCSpec == MCInit /\ [][MCNext]_<<allVars, pilot>>
=============================================================================
