------------------------------ MODULE MCTimers ------------------------------
(* Three timers: one that repeats, one of the same time, an earlier one. *)
EXTENDS Timers, TLC

CONSTANTS a, b, c, p, q

SmallWhen  == (a :> 1) @@ (b :> 1) @@ (c :> 0)
SmallTimes == (a :> 2) @@ (b :> 1) @@ (c :> 1)
=============================================================================
