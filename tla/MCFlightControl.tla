--------------------------- MODULE MCFlightControl ---------------------------
(* Instances of FlightControl for TLC: what the pilot can send.             *)
EXTENDS FlightControl

Stick(arm, manual, takeoff, throttle) ==
    [DefaultRequest EXCEPT !.arm = arm, !.manual = manual,
                           !.auto_takeoff = takeoff, !.throttle = throttle]

Tracking(enable) ==
    [Stick(TRUE, FALSE, FALSE, 1500) EXCEPT !.tracker = TRUE, !.tracker_enable = enable]

MCThrottleCenter == 1490..1510

\* A pilot whose SF switch stays high from power-on.
HeldRequests ==
    {[Stick(TRUE, TRUE, FALSE, 1000) EXCEPT !.tracker_enable = "high"], Tracking("high")}

LinkLossRequests ==
    {Stick(TRUE, TRUE, FALSE, 1000), Stick(TRUE, FALSE, TRUE, 1000),
     Stick(TRUE, FALSE, FALSE, 1500)}
=============================================================================
