----------------------------- MODULE MCHeaderMap -----------------------------
(* Four objects: b is a with another owner (same name and generation), c is *)
(* described by the text that describes a, and d is like none of them.      *)
EXTENDS HeaderMap, TLC

CONSTANTS a, b, c, d, slotA, slotC, slotD, descA, descB, descD, t

SmallSlot == (a :> slotA) @@ (b :> slotA) @@ (c :> slotC) @@ (d :> slotD)
SmallUni  == (a :> descA) @@ (b :> descB) @@ (c :> descA) @@ (d :> descD)
=============================================================================
