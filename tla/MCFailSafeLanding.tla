-------------------------- MODULE MCFailSafeLanding --------------------------
(* Instances of FailSafeLanding: the limits of parameters.yaml, scaled.     *)
EXTENDS FailSafeLanding

Limit(hold, rate, min, land, confirm) ==
    [n \in {"hold_time_s", "descent_rate", "min_altitude", "land_altitude",
            "land_confirm_s"} |->
        CASE n = "hold_time_s" -> hold [] n = "descent_rate" -> rate
          [] n = "min_altitude" -> min [] n = "land_altitude" -> land
          [] OTHER -> confirm]

\* Every parameter at its lower limit of zero and above.
AllLimits == Limit({0, 2}, {0, 1}, {0, 1}, {0}, {0, 1})
=============================================================================
