---------------------------- MODULE MCHourlyTick ----------------------------
\* Two web instances, each with its own timer.
EXTENDS HourlyTick, TLC
CONSTANTS i1, i2, t1, t2, o1
MCHost == (t1 :> i1 @@ t2 :> i2)
=============================================================================
