-------------------------- MODULE MCServerLifecycle --------------------------
(* Two requests and two workers, which are alike. *)
EXTENDS ServerLifecycle, TLC

CONSTANTS r1, r2, k1, k2
=============================================================================
