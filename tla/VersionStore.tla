---------------------------- MODULE VersionStore ----------------------------
(***************************************************************************)
(* What the asynchronous write path of GDFileStore promises its clients.   *)
(*                                                                         *)
(* The store keeps versions of objects.  The target of a write appears at  *)
(* once, whole, and is never touched again; some time later it becomes     *)
(* durable; the client is told of each milestone only after it is reached. *)
(***************************************************************************)
EXTENDS BlockHistory

VARIABLES
    submitted,  \* the writes clients have asked for
    content,    \* version |-> the blocks it consists of
    durable,    \* the versions that are safe on disk
    told        \* write |-> the milestones its client has been told of

vars == <<submitted, content, durable, told>>

Init ==
    /\ submitted = {}
    /\ content = <<>>
    /\ durable = {}
    /\ told = [w \in Writes |-> {}]

Submit(w) ==
    /\ w \notin submitted
    /\ submitted' = submitted \cup {w}
    /\ UNCHANGED <<content, durable, told>>

\* The target appears, whole.  It is durable at once when it shares all its
\* blocks with durable versions.
Commit(w) ==
    /\ w \in submitted
    /\ Target[w] \notin DOMAIN content
    /\ content' = Put(content, Target[w], Edited(ListAt(content, Base[w]), w))
    /\ durable' \in {durable, durable \cup {Target[w]}}
    /\ UNCHANGED <<submitted, told>>

Persist(v) ==
    /\ v \in DOMAIN content \ durable
    /\ durable' = durable \cup {v}
    /\ UNCHANGED <<submitted, content, told>>

Tell(w, m) ==
    /\ m = "onJournal" => Target[w] \in DOMAIN content
    /\ m = "onDisk"    => Target[w] \in durable
    /\ told' = [told EXCEPT ![w] = @ \cup {m}]
    /\ UNCHANGED <<submitted, content, durable>>

Next ==
    \/ \E w \in Writes : Submit(w) \/ Commit(w)
    \/ \E v \in Versions : Persist(v)
    \/ \E w \in Writes, m \in Milestone : Tell(w, m)

Spec == Init /\ [][Next]_vars
=============================================================================
