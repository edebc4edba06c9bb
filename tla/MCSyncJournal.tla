--------------------------- MODULE MCSyncJournal ---------------------------
(* Object x has a text of three characters; its operations insert before   *)
(* each of them and at the end, and delete spans.  y is empty: what is     *)
(* inserted before its end is outside the contract.                        *)
EXTENDS SyncJournal, TLC

CONSTANTS r1, r2, r3, x, y

\* Requests are interchangeable.
Symmetry == Permutations({r1, r2, r3})

SmallText == [o \in Objects |-> IF o = x THEN <<"a", "b", "c">> ELSE <<>>]

On(o, opes) == {[obj |-> o, ope |-> ope] : ope \in opes}

FromEnd(text, offset) == [AppendWrapper(text) EXCEPT !.offset = offset]

SmallInputs ==
    On(x, {Insert(<<"i", "j">>, pos) : pos \in 0..2}
          \cup {AppendWrapper(<<"k">>)}
          \cup {Delete(first, last - first) : first \in 0..1, last \in 2..3})
    \cup On(y, {FromEnd(<<"l">>, offset) : offset \in {0, -1}})
=============================================================================
