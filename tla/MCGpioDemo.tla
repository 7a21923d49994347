----------------------------- MODULE MCGpioDemo -----------------------------
(* Two instances on a chip of three pins, one more than an int has bits;   *)
(* 6 has a sign to go on with above the int, 2 and 1 differ everywhere.    *)
EXTENDS GpioDemo, TLC

CONSTANTS p1, p2
MCSignals  == <<"SIGTERM", "SIGINT">>
MCPatterns == "CYLON" :> <<2, 1>>   \* kit runs the same loop
=============================================================================
