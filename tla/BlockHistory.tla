---------------------------- MODULE BlockHistory ----------------------------
(***************************************************************************)
(* The write operations (WOPE) clients issue, and what their edits mean.   *)
(*                                                                         *)
(* A version of an object (a GHObject_t) is a list of blocks.  A write     *)
(* derives version Target[w] from version Base[w] by the edits Edits[w].   *)
(* A block's data is identified by its origin <<w, i>>: edit i of write w. *)
(***************************************************************************)
EXTENDS Naturals, Sequences, SequencesExt

CONSTANTS
    Writes,     \* the operations, one opeId each
    Versions,   \* the object names
    Base,       \* WOPE.ghobj
    Target,     \* WOPE.new_ghobj
    Edits       \* WOPE.types[i] and WOPE.block_nums[i], in order

EditType  == {"Delete", "Insert", "OverWrite"}
Edit      == [type : EditType, num : Nat]
Milestone == {"onJournal", "onDisk"}
Block     == Writes \X Nat

ASSUME HistoryAssumption ==
    /\ Base   \in [Writes -> Versions]
    /\ Target \in [Writes -> Versions]
    /\ Edits  \in [Writes -> Seq(Edit)]

\* A map with one more, or one replaced, entry: a key-value put, a file write.
Put(map, key, value) ==
    [x \in DOMAIN map \cup {key} |-> IF x = key THEN value ELSE map[x]]

\* The list of blocks a map of versions holds for v: an absent key reads as
\* the empty list.
ListAt(map, v) == IF v \in DOMAIN map THEN map[v] ELSE <<>>

\* The iterator of an edit must not pass the end, and must point at an element
\* for Delete and OverWrite.
InRange(edit, length) ==
    IF edit.type = "Insert" THEN edit.num <= length ELSE edit.num < length

\* The length of a list after an edit.
LengthAfter(edit, length) ==
    CASE edit.type = "Delete"    -> length - 1
      [] edit.type = "Insert"    -> length + 1
      [] edit.type = "OverWrite" -> length

\* One edit, by cutting the list at position num: the reference definition.
EditOf(blocks, edit, block) ==
    LET before == SubSeq(blocks, 1, edit.num)
        rest   == SubSeq(blocks, edit.num + 1, Len(blocks))
    IN  CASE edit.type = "Delete"    -> before \o Tail(rest)
          [] edit.type = "Insert"    -> before \o <<block>> \o rest
          [] edit.type = "OverWrite" -> before \o <<block>> \o Tail(rest)

\* The lists an object goes through: upTo[i] is what i edits of w make of blocks.
EditedUpTo(blocks, w) ==
    LET upTo[i \in 0..Len(Edits[w])] ==
            IF i = 0 THEN blocks ELSE EditOf(upTo[i - 1], Edits[w][i], <<w, i>>)
    IN  upTo
Edited(blocks, w) == EditedUpTo(blocks, w)[Len(Edits[w])]
=============================================================================
