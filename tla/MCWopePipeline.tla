--------------------------- MODULE MCWopePipeline ---------------------------
(* Small histories for WopePipeline. *)
EXTENDS WopePipeline, TLC

CONSTANTS w1, w2, w3, w4, r1, r2, v0, v1, v2, v3, v4, k1, k2

\* Workers are interchangeable.
Symmetry == Permutations({k1, k2})

Ins(n)  == [type |-> "Insert", num |-> n]
Del(n)  == [type |-> "Delete", num |-> n]
Over(n) == [type |-> "OverWrite", num |-> n]

\* A fork: w2 and w3 are concurrent writes of the same base, w4 extends w2's.
ForkBase   == (w1 :> v0) @@ (w2 :> v1) @@ (w3 :> v1) @@ (w4 :> v2)
ForkTarget == (w1 :> v1) @@ (w2 :> v2) @@ (w3 :> v3) @@ (w4 :> v4)
ForkEdits  == (w1 :> <<Ins(0), Ins(1)>>) @@ (w2 :> <<Over(0)>>)
              @@ (w3 :> <<Del(0), Ins(1)>>) @@ (w4 :> <<Ins(1), Del(0)>>)
ForkReadOf == (r1 :> [obj |-> v3, blocks |-> <<1, 0>>])
              @@ (r2 :> [obj |-> v4, blocks |-> <<1>>])
ForkSize    == (v0 :> 0) @@ (v1 :> 2) @@ (v2 :> 2) @@ (v3 :> 2) @@ (v4 :> 2)
ForkLengths == (w1 :> (0 :> 0 @@ 1 :> 1 @@ 2 :> 2)) @@ (w2 :> (0 :> 2 @@ 1 :> 2))
               @@ (w3 :> (0 :> 2 @@ 1 :> 1 @@ 2 :> 2)) @@ (w4 :> (0 :> 2 @@ 1 :> 3 @@ 2 :> 2))

\* A chain: each write starts from the version before.
ChainBase   == (w1 :> v0) @@ (w2 :> v1) @@ (w3 :> v2)
ChainTarget == (w1 :> v1) @@ (w2 :> v2) @@ (w3 :> v3)
ChainEdits  == (w1 :> <<Ins(0)>>) @@ (w2 :> <<Ins(1)>>) @@ (w3 :> <<Over(1)>>)
ChainReadOf == (r1 :> [obj |-> v1, blocks |-> <<0>>])
ChainSize    == (v0 :> 0) @@ (v1 :> 1) @@ (v2 :> 2) @@ (v3 :> 2)
ChainLengths == (w1 :> (0 :> 0 @@ 1 :> 1)) @@ (w2 :> (0 :> 1 @@ 1 :> 2)) @@ (w3 :> (0 :> 2 @@ 1 :> 2))

\* A pair: the second write starts from what the first makes.  Reads change
\* nothing the properties of its run see; its read is of a fresh object.
PairBase   == (w1 :> v0) @@ (w2 :> v1)
PairTarget == (w1 :> v1) @@ (w2 :> v2)
PairEdits  == (w1 :> <<Ins(0), Ins(1)>>) @@ (w2 :> <<Over(0)>>)
PairReadOf == (r1 :> [obj |-> v0, blocks |-> <<>>])
PairSize    == (v0 :> 0) @@ (v1 :> 2) @@ (v2 :> 2)
PairLengths == (w1 :> (0 :> 0 @@ 1 :> 1 @@ 2 :> 2)) @@ (w2 :> (0 :> 2 @@ 1 :> 2))

\* All histories address blocks that are there.
ASSUME HistoriesFit ==
    CASE Base = ForkBase  -> AddressesFit(ForkSize, ForkLengths)
      [] Base = ChainBase -> AddressesFit(ChainSize, ChainLengths)
      [] Base = PairBase  -> AddressesFit(PairSize, PairLengths)
=============================================================================
