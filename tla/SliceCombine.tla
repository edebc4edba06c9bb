---------------------------- MODULE SliceCombine ----------------------------
(***************************************************************************)
(* Operation::CombineOperationsForOneSameObject: the operations on one     *)
(* object are folded into a list of slices, whose concatenation is the     *)
(* object's new text.  A slice is the part of a buffer it stands for; a    *)
(* text is a sequence of characters.                                       *)
(*                                                                         *)
(* FoldOperation translates the code's loop body, Edit says what it is to  *)
(* compute.                                                                *)
(***************************************************************************)
EXTENDS Integers, Sequences, SequencesExt

\* text matters to an Insert, whose Slice is all of it; start and size, the
\* Slice's, to a Delete.  An offset may be negative.
Operation(Char) ==
    {op \in [type : {"Insert", "Delete"}, anchor : {"begin", "end"}, offset : Int,
             text : Seq(Char), start : Nat, size : Nat] :
         op.type = "Insert" => op.size = Len(op.text)}

\* OperationWrapper's constructors.
Insert(text, pos) == [type |-> "Insert", anchor |-> "begin", offset |-> pos,
                      text |-> text, start |-> 0, size |-> Len(text)]
WriteWrapper(text)  == Insert(text, 0)
AppendWrapper(text) == [Insert(text, 0) EXCEPT !.anchor = "end"]
\* What its constructor makes of a Delete and a Slice of size characters.
Delete(pos, size) ==
    [type |-> "Delete", anchor |-> "begin", offset |-> pos, text |-> <<>>,
     start |-> 0, size |-> size]

GetFilePos(op, length) == op.offset + IF op.anchor = "end" THEN length ELSE 0

SubSlice(s, from, size) ==
    SubSeq(s, from + 1, IF from + size < Len(s) THEN from + size ELSE Len(s))

\* The length of the first i slices.
Length(list, i) == Len(FlattenSeq(SubSeq(list, 1, i)))

\* The slice at which the loops over the list stop for a position: the first
\* whose end lies beyond it, or none.
Locate(list, pos) ==
    CHOOSE i \in 1..Len(list) + 1 :
        /\ i <= Len(list) => pos < Length(list, i)
        /\ \A j \in 1..i - 1 : pos >= Length(list, j)

\* slices in place of list[i..j].
Splice(list, i, j, slices) == SubSeq(list, 1, i - 1) \o slices \o SubSeq(list, j + 1, Len(list))

InsertSlice(list, pos, text) ==
    LET i   == Locate(list, pos)
        cut == pos - Length(list, i - 1)
    IN  IF cut = 0 THEN InsertAt(list, i, text)
        ELSE Splice(list, i, i, <<SubSlice(list[i], 0, cut), text,
                                  SubSlice(list[i], cut, Len(list[i]) - cut)>>)

\* Mutant: what is left of the last slice keeps one character too many.
DeleteSpan_KeepsOne(list, first, size) ==
    LET i   == Locate(list, first)
        j   == Locate(list, first + size)
        cut == first - Length(list, i - 1)
        end == first + size - Length(list, j - 1)
    IN  IF cut + size <= Len(list[i])
        THEN Splice(list, i, i, <<SubSlice(list[i], 0, cut),
                 SubSlice(list[i], cut + size, Len(list[i]) - cut - size)>>)
        ELSE Splice(list, i, j, <<SubSlice(list[i], 0, cut),
                 IF end = 0 THEN list[j] ELSE SubSlice(list[j], end - 1, Len(list[j]))>>)

DeleteSpan(list, first, size) ==
    LET i   == Locate(list, first)
        j   == Locate(list, first + size)
        cut == first - Length(list, i - 1)
        end == first + size - Length(list, j - 1)
    IN  IF cut + size <= Len(list[i])
        THEN Splice(list, i, i, <<SubSlice(list[i], 0, cut),
                 SubSlice(list[i], cut + size, Len(list[i]) - cut - size)>>)
        ELSE Splice(list, i, j, <<SubSlice(list[i], 0, cut),
                                  SubSlice(list[j], end, Len(list[j]) - end)>>)

\* Mutant: an insertion at the end is not told apart.
Indexed_NoEndCase(list, total, op) ==
    {Locate(list, GetFilePos(op, total) + op.start)}

\* The slices at which the code indexes the list.
Indexed(list, total, op) ==
    LET pos   == GetFilePos(op, total)
        first == pos + op.start
        i     == Locate(list, first)
    IN  CASE op.type = "Insert" -> IF pos = total THEN {} ELSE {Locate(list, pos)}
          [] op.type = "Delete" ->
               IF i <= Len(list) /\ first + op.size <= Length(list, i) THEN {i}
               ELSE {i, Locate(list, first + op.size)}

\* The fold's accumulator: the list, totalLength, and whether the list has been
\* left: indexed past its end, or, by a position before its start, cut into a
\* slice of negative size.  After that nothing is said.
Nothing == [list |-> <<>>, total |-> 0, past |-> FALSE]

FoldOperation(acc, op) ==
    LET list == acc.list
        pos  == GetFilePos(op, acc.total)
    IN  IF acc.past \/ pos < 0 \/ ~(Indexed(list, acc.total, op) \subseteq DOMAIN list)
        THEN [acc EXCEPT !.past = TRUE]
        ELSE CASE op.type = "Insert" ->
                    [acc EXCEPT !.list = IF pos = acc.total THEN Append(list, op.text)
                                         ELSE InsertSlice(list, pos, op.text),
                                !.total = @ + op.size]
               [] op.type = "Delete" ->
                    [acc EXCEPT !.list = DeleteSpan(list, pos + op.start, op.size),
                                !.total = @ - op.size]

Combine(operations) == FoldLeft(FoldOperation, Nothing, operations)

GetBufferFromSlices(list) == FlattenSeq(list)

----------------------------------------------------------------------------
(* What an operation means. *)

\* The contract: the position is in the object, a Delete's Slice starts at 0
\* (@contract_1), and the deleted span is in the object (@contract_2).
Admissible(text, op) ==
    /\ GetFilePos(op, Len(text)) \in 0..Len(text)
    /\ op.type = "Delete" => op.start = 0 /\ GetFilePos(op, Len(text)) + op.size <= Len(text)

Edit(text, op) ==
    LET pos == GetFilePos(op, Len(text))
    IN  IF op.type = "Insert"
        THEN SubSeq(text, 1, pos) \o op.text \o SubSeq(text, pos + 1, Len(text))
        ELSE SubSeq(text, 1, pos + op.start)
             \o SubSeq(text, pos + op.start + op.size + 1, Len(text))

EditAll(text, operations) == FoldLeft(Edit, text, operations)
=============================================================================
