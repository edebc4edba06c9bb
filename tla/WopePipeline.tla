---------------------------- MODULE WopePipeline ----------------------------
(***************************************************************************)
(* The asynchronous write and read path of one GDFileStore server.         *)
(*                                                                         *)
(* /reqWrite appends a WOpeLog to wope_logs; the dispatcher thread         *)
(* (handle_ope_threadMain) moves it to the write pool; a pool worker runs  *)
(* do_wope for its state (init, onJournal, onDisk), sends /repWrite and    *)
(* queues the log again with the next state.  Stage init is                *)
(* Journal::do_WOPE: edit a copy of the base's block list, give each new   *)
(* block a file under the journal root and a ReferedBlock record, add one  *)
(* to the refer_count of every block of the list, bind the target to it.   *)
(* Stage onJournal copies the target's blocks whose refer_count is 1 to    *)
(* the disk root.  /reqRead reads the block files under the disk root.     *)
(*                                                                         *)
(* RocksDB and the block files outlive a crash; queues and workers do not, *)
(* and nothing is read back into the queues at Mount.                      *)
(***************************************************************************)
EXTENDS BlockHistory, FiniteSets

CONSTANTS
    NoWrite,      \* the operation of an idle worker
    Workers,      \* the threads of write_tp
    Reads,        \* the read operations (ROPE)
    ReadOf,       \* read |-> [obj, blocks] (ROPE.ghobj, ROPE.blocks)
    Wait,         \* what clients wait to be told of a version before using it
    TickPerBlock, \* does the clock advance between two new blocks?
    WriteMayFail, \* may WriteFile of a new block return false?
    CopyMayFail,  \* may filesystem::copy throw?
    LossyReplies, \* may http_send of a reply fail?
    MaxCrashes    \* bound on the crashes of the server

ASSUME PipelineAssumption ==
    /\ NoWrite \notin Writes
    /\ ReadOf \in [Reads -> [obj : Versions, blocks : Seq(Nat)]]
    /\ Wait \in Milestone \cup {"none"}
    /\ {TickPerBlock, WriteMayFail, CopyMayFail, LossyReplies} \subseteq BOOLEAN
    /\ MaxCrashes \in Nat

Stage   == {"init", "onJournal", "onDisk"}
WopeLog == [id : Writes, state : Stage]
Label   == {"idle", "base", "edit", "attr", "count", "bump", "tellJournal",
            "requeue", "target", "copy", "tellDisk"}
Missing == <<>>          \* what ReadFile returns for a file that is not there
Torn    == <<"torn">>    \* what is left of a file when writing it failed
Data    == Block \cup {Torn}

VARIABLES
    gh_attr,      \* RocksDB: version |-> serials_list (ObjectWithRB)
    rb_attr,      \* RocksDB: serial |-> refer_count (ReferedBlock)
    journal_rb,   \* files under GetJournalRBRoot(): serial |-> data
    disk_rb,      \* files under GetRBRoot(): serial |-> data
    drawn,        \* history: serial |-> the blocks it was given to, with Torn
                  \* if the file of one of them could not be written
    clock,        \* system_clock, the source of serials
    wope_logs,    \* the queue the handlers and the workers append to
    jobs,         \* write_tp's jobs, each a call of do_wope
    pc, cur,      \* per worker: where in do_wope, for which operation
    orb, idx,     \* per worker: its block list and its loop index
    held,         \* per worker: the serial or the refer_count in its hand
    submitted,    \* the writes requested so far
    told,         \* write |-> the milestones its client was told of
    rpc, serials, \* per read: progress of do_rope, the list it has read
    answer,       \* per read: block_datas, as far as they are read
    crashes,      \* crashes so far
    undefined     \* an iterator or index passed the end of its container

kv       == <<gh_attr, rb_attr>>
files    == <<journal_rb, disk_rb, drawn>>
queues   == <<wope_logs, jobs>>
locals   == <<pc, cur, orb, idx, held>>
reading  == <<rpc, serials, answer>>
client   == <<submitted, told>>
env      == <<crashes, undefined>>
vars     == <<kv, files, clock, queues, locals, client, reading, env>>

----------------------------------------------------------------------------
\* A version clients may use: they wait for the milestone of some write of it,
\* or it is no write's target (a fresh object).
Settled(v) ==
    \/ Wait = "none"
    \/ \A w \in Writes : Target[w] # v
    \/ \E w \in Writes : Target[w] = v /\ Wait \in told[w]

\* An absent record reads as refer_count 0.
ReferCount(s) == IF s \in DOMAIN rb_attr THEN rb_attr[s] ELSE 0

\* The worker's locals after a step that keeps its operation.
Goto(k, label, list, i, n) ==
    /\ pc'   = [pc   EXCEPT ![k] = label]
    /\ orb'  = [orb  EXCEPT ![k] = list]
    /\ idx'  = [idx  EXCEPT ![k] = i]
    /\ held' = [held EXCEPT ![k] = n]

Finish(k) ==
    /\ Goto(k, "idle", <<>>, 1, 0)
    /\ cur' = [cur EXCEPT ![k] = NoWrite]

Requeue(k, state) ==
    wope_logs' = Append(wope_logs, [id |-> cur[k], state |-> state])

\* http_send of a reply; its result is ignored.
Tell(w, m) ==
    \/ told' = [told EXCEPT ![w] = @ \cup {m}]
    \/ LossyReplies /\ told' = told

Init ==
    /\ gh_attr = <<>> /\ rb_attr = <<>>
    /\ journal_rb = <<>> /\ disk_rb = <<>> /\ drawn = <<>>
    /\ clock = 1
    /\ wope_logs = <<>> /\ jobs = <<>>
    /\ pc   = [k \in Workers |-> "idle"]
    /\ cur  = [k \in Workers |-> NoWrite]
    /\ orb  = [k \in Workers |-> <<>>]
    /\ idx  = [k \in Workers |-> 1]
    /\ held = [k \in Workers |-> 0]
    /\ submitted = {} /\ told = [w \in Writes |-> {}]
    /\ rpc = [r \in Reads |-> "new"]
    /\ serials = [r \in Reads |-> <<>>]
    /\ answer  = [r \in Reads |-> <<>>]
    /\ crashes = 0 /\ undefined = FALSE

----------------------------------------------------------------------------
(* The handler of /reqWrite and the dispatcher. *)

Submit(w) ==
    /\ w \notin submitted /\ Settled(Base[w])
    /\ submitted' = submitted \cup {w}
    /\ wope_logs' = Append(wope_logs, [id |-> w, state |-> "init"])
    /\ UNCHANGED <<kv, files, clock, jobs, locals, told, reading, env>>

\* The swapped-out list is local and the dispatcher is the only one to
\* enqueue, so enqueuing its members one by one looks like this to a worker.
Dispatch ==
    /\ wope_logs # <<>>
    /\ jobs' = jobs \o wope_logs
    /\ wope_logs' = <<>>
    /\ UNCHANGED <<kv, files, clock, locals, client, reading, env>>

Take(k) ==
    /\ pc[k] = "idle" /\ jobs # <<>>
    /\ jobs' = Tail(jobs)
    /\ cur' = [cur EXCEPT ![k] = Head(jobs).id]
    /\ Goto(k, CASE Head(jobs).state = "init"      -> "base"
                 [] Head(jobs).state = "onJournal" -> "target"
                 [] Head(jobs).state = "onDisk"    -> "tellDisk",
            <<>>, 1, 0)
    /\ UNCHANGED <<kv, files, clock, wope_logs, client, reading, env>>

----------------------------------------------------------------------------
(* Stage init: Journal::do_WOPE, then the reply. *)

\* Mutant: the list is read from the target's key.
ReadBase_OfTarget(k) ==
    /\ pc[k] = "base"
    /\ Goto(k, "edit", ListAt(gh_attr, Target[cur[k]]), 1, 0)
    /\ UNCHANGED <<kv, files, clock, queues, cur, client, reading, env>>

ReadBase(k) ==
    /\ pc[k] = "base"
    /\ Goto(k, "edit", ListAt(gh_attr, Base[cur[k]]), 1, 0)
    /\ UNCHANGED <<kv, files, clock, queues, cur, client, reading, env>>

\* The edit worker k has to apply next, while there is one.
Editing(k) == pc[k] = "edit" /\ idx[k] <= Len(Edits[cur[k]])
EditAt(k)  == Edits[cur[k]][idx[k]]

DeleteBlock(k) ==
    /\ Editing(k) /\ EditAt(k).type = "Delete"
    /\ InRange(EditAt(k), Len(orb[k]))
    /\ Goto(k, "edit", RemoveAt(orb[k], EditAt(k).num + 1), idx[k] + 1, 0)
    /\ UNCHANGED <<kv, files, clock, queues, cur, client, reading, env>>

\* WriteFile under the journal root for a block given serial s.  When it fails
\* it returns false, which the code drops: the file is then as it was, if it
\* could not be opened, or torn.
Draw(s, outcome) == drawn' = Put(drawn, s, outcome \cup IF s \in DOMAIN drawn THEN drawn[s] ELSE {})
WriteBlock(s, block) ==
    \/ journal_rb' = Put(journal_rb, s, block) /\ Draw(s, {block})
    \/ /\ WriteMayFail
       /\ journal_rb' \in {journal_rb, Put(journal_rb, s, Torn)}
       /\ Draw(s, {block, Torn})

\* Mutant: OverWrite inserts.
NewBlock_OverWriteInserts(k) ==
    /\ Editing(k) /\ EditAt(k).type # "Delete"
    /\ InRange(EditAt(k), Len(orb[k]))
    /\ WriteBlock(clock, <<cur[k], idx[k]>>)
    /\ clock' = clock + 1
    /\ Goto(k, "attr", InsertAt(orb[k], EditAt(k).num + 1, clock), idx[k], clock)
    /\ UNCHANGED <<kv, disk_rb, queues, cur, client, reading, env>>

\* Mutant: OverWrite rewrites the file of the block it replaces.
NewBlock_InPlace(k) ==
    LET at == EditAt(k).num + 1
        s  == IF EditAt(k).type = "Insert" THEN clock ELSE orb[k][at]
    IN  /\ Editing(k) /\ EditAt(k).type # "Delete"
        /\ InRange(EditAt(k), Len(orb[k]))
        /\ journal_rb' = Put(journal_rb, s, <<cur[k], idx[k]>>)
        /\ IF s = clock THEN Draw(s, {<<cur[k], idx[k]>>}) ELSE drawn' = drawn
        /\ clock' = clock + 1
        /\ Goto(k, "attr", IF EditAt(k).type = "Insert" THEN InsertAt(orb[k], at, s)
                                                        ELSE orb[k], idx[k], s)
        /\ UNCHANGED <<kv, disk_rb, queues, cur, client, reading, env>>

\* addNewReferedBlock: a serial from the clock and a journal file; the serial
\* enters the local list.  The clock may be too coarse to advance, or be set
\* back.
NewBlock(k) ==
    LET at == EditAt(k).num + 1
    IN  /\ Editing(k) /\ EditAt(k).type # "Delete"
        /\ InRange(EditAt(k), Len(orb[k]))
        /\ WriteBlock(clock, <<cur[k], idx[k]>>)
        /\ clock' \in IF TickPerBlock THEN {clock + 1} ELSE 1..clock + 1
        /\ Goto(k, "attr",
                IF EditAt(k).type = "Insert" THEN InsertAt(orb[k], at, clock)
                                             ELSE ReplaceAt(orb[k], at, clock),
                idx[k], clock)
        /\ UNCHANGED <<kv, disk_rb, queues, cur, client, reading, env>>

PutBlockAttr(k) ==
    /\ pc[k] = "attr"
    /\ rb_attr' = Put(rb_attr, held[k], 0)
    /\ Goto(k, "edit", orb[k], idx[k] + 1, 0)
    /\ UNCHANGED <<gh_attr, files, clock, queues, cur, client, reading, env>>

\* p is advanced past end(), or end() is erased or written to.
EditPastEnd(k) ==
    /\ Editing(k) /\ ~InRange(EditAt(k), Len(orb[k]))
    /\ undefined' = TRUE
    /\ UNCHANGED <<kv, files, clock, queues, locals, client, reading, crashes>>

\* Mutant: the reply goes out before the counts and the binding are done.
EndEdits_ReplyEarly(k) ==
    /\ pc[k] = "edit" /\ ~Editing(k)
    /\ Goto(k, "tellJournal", orb[k], 1, 0)
    /\ UNCHANGED <<kv, files, clock, queues, cur, client, reading, env>>

EndEdits(k) ==
    /\ pc[k] = "edit" /\ ~Editing(k)
    /\ Goto(k, "count", orb[k], 1, 0)
    /\ UNCHANGED <<kv, files, clock, queues, cur, client, reading, env>>

\* refer_count++ is a GetAttr and a SetAttr with nothing held in between.
ReadCount(k) ==
    /\ pc[k] = "count" /\ idx[k] <= Len(orb[k])
    /\ Goto(k, "bump", orb[k], idx[k], ReferCount(orb[k][idx[k]]))
    /\ UNCHANGED <<kv, files, clock, queues, cur, client, reading, env>>

\* Mutant: the count goes down.
WriteCount_Decrement(k) ==
    /\ pc[k] = "bump"
    /\ rb_attr' = Put(rb_attr, orb[k][idx[k]], held[k] - 1)
    /\ Goto(k, "count", orb[k], idx[k] + 1, 0)
    /\ UNCHANGED <<gh_attr, files, clock, queues, cur, client, reading, env>>

\* Mutant: only new blocks are counted, not the ones shared with the base.
WriteCount_NewOnly(k) ==
    /\ pc[k] = "bump"
    /\ rb_attr' = Put(rb_attr, orb[k][idx[k]], 1)
    /\ Goto(k, "count", orb[k], idx[k] + 1, 0)
    /\ UNCHANGED <<gh_attr, files, clock, queues, cur, client, reading, env>>

WriteCount(k) ==
    /\ pc[k] = "bump"
    /\ rb_attr' = Put(rb_attr, orb[k][idx[k]], held[k] + 1)
    /\ Goto(k, "count", orb[k], idx[k] + 1, 0)
    /\ UNCHANGED <<gh_attr, files, clock, queues, cur, client, reading, env>>

Bind(k) ==
    /\ pc[k] = "count" /\ idx[k] > Len(orb[k])
    /\ gh_attr' = Put(gh_attr, Target[cur[k]], orb[k])
    /\ Goto(k, "tellJournal", <<>>, 1, 0)
    /\ UNCHANGED <<rb_attr, files, clock, queues, cur, client, reading, env>>

TellJournal(k) ==
    /\ pc[k] = "tellJournal"
    /\ Tell(cur[k], "onJournal")
    /\ Goto(k, "requeue", <<>>, 1, 0)
    /\ UNCHANGED <<kv, files, clock, queues, cur, submitted, reading, env>>

RequeueOnJournal(k) ==
    /\ pc[k] = "requeue"
    /\ Requeue(k, "onJournal")
    /\ Finish(k)
    /\ UNCHANGED <<kv, files, clock, jobs, client, reading, env>>

----------------------------------------------------------------------------
(* Stages onJournal and onDisk of do_wope. *)

ReadTarget(k) ==
    /\ pc[k] = "target"
    /\ Goto(k, "copy", ListAt(gh_attr, Target[cur[k]]), 1, 0)
    /\ UNCHANGED <<kv, files, clock, queues, cur, client, reading, env>>

Copying(k) == pc[k] = "copy" /\ idx[k] <= Len(orb[k])
IsNew(s)   == ReferCount(s) = 1

\* Mutant: a new block is taken to be one that nobody refers to yet.
CopyBlock_CountZero(k) ==
    LET s == orb[k][idx[k]]
    IN  /\ Copying(k)
        /\ disk_rb' = IF ReferCount(s) = 0 /\ s \in DOMAIN journal_rb
                      THEN Put(disk_rb, s, journal_rb[s]) ELSE disk_rb
        /\ Goto(k, "copy", orb[k], idx[k] + 1, 0)
        /\ UNCHANGED <<kv, journal_rb, drawn, clock, queues, cur, client, reading, env>>

\* filesystem::copy throws when the journal file is absent, or when it fails;
\* the exception is swallowed.
CopyBlock(k) ==
    LET s == orb[k][idx[k]]
    IN  /\ Copying(k)
        /\ disk_rb' = IF IsNew(s) /\ s \in DOMAIN journal_rb
                      THEN Put(disk_rb, s, journal_rb[s]) ELSE disk_rb
        /\ Goto(k, "copy", orb[k], idx[k] + 1, 0)
        /\ UNCHANGED <<kv, journal_rb, drawn, clock, queues, cur, client, reading, env>>

CopyFails(k) ==
    /\ CopyMayFail /\ Copying(k) /\ IsNew(orb[k][idx[k]])
    /\ Goto(k, "copy", orb[k], idx[k] + 1, 0)
    /\ UNCHANGED <<kv, files, clock, queues, cur, client, reading, env>>

\* Mutant: the log is not queued again for the reply.
RequeueOnDisk_Forgotten(k) ==
    /\ pc[k] = "copy" /\ ~Copying(k)
    /\ Finish(k)
    /\ UNCHANGED <<kv, files, clock, queues, client, reading, env>>

RequeueOnDisk(k) ==
    /\ pc[k] = "copy" /\ ~Copying(k)
    /\ Requeue(k, "onDisk")
    /\ Finish(k)
    /\ UNCHANGED <<kv, files, clock, jobs, client, reading, env>>

TellDisk(k) ==
    /\ pc[k] = "tellDisk"
    /\ Tell(cur[k], "onDisk")
    /\ Finish(k)
    /\ UNCHANGED <<kv, files, clock, queues, submitted, reading, env>>

----------------------------------------------------------------------------
(* Reads.  A read changes nothing another operation sees, so the order of   *)
(* rope_logs and the number of read_tp's threads are left out: a read that  *)
(* was asked for is picked up at any later time.                            *)

Ask(r) ==
    /\ rpc[r] = "new" /\ Settled(ReadOf[r].obj)
    /\ rpc' = [rpc EXCEPT ![r] = "asked"]
    /\ UNCHANGED <<kv, files, clock, queues, locals, client, serials, answer, env>>

ReadSerials(r) ==
    /\ rpc[r] = "asked"
    /\ rpc' = [rpc EXCEPT ![r] = "reading"]
    /\ serials' = [serials EXCEPT ![r] = ListAt(gh_attr, ReadOf[r].obj)]
    /\ UNCHANGED <<kv, files, clock, queues, locals, client, answer, env>>

\* Mutant: the blocks are read from the first on, whatever was asked for.
Position_FromFirst(r) == Len(answer[r]) + 1

Reading(r) == rpc[r] = "reading" /\ Len(answer[r]) < Len(ReadOf[r].blocks)
Position(r) == ReadOf[r].blocks[Len(answer[r]) + 1] + 1

ReadBlock(r) ==
    /\ Reading(r) /\ Position(r) <= Len(serials[r])
    /\ LET s == serials[r][Position(r)]
       IN  answer' = [answer EXCEPT ![r] =
                Append(@, IF s \in DOMAIN disk_rb THEN disk_rb[s] ELSE Missing)]
    /\ UNCHANGED <<kv, files, clock, queues, locals, client, rpc, serials, env>>

\* serials[rope.blocks[i]] is not checked.
ReadPastEnd(r) ==
    /\ Reading(r) /\ Position(r) > Len(serials[r])
    /\ undefined' = TRUE
    /\ UNCHANGED <<kv, files, clock, queues, locals, client, reading, crashes>>

\* http_send of /repRead; its result is ignored.
Answer(r) ==
    /\ rpc[r] = "reading" /\ ~Reading(r)
    /\ \/ rpc' = [rpc EXCEPT ![r] = "answered"]
       \/ LossyReplies /\ rpc' = [rpc EXCEPT ![r] = "lost"]
    /\ UNCHANGED <<kv, files, clock, queues, locals, client, serials, answer, env>>

----------------------------------------------------------------------------
\* The process dies and is started again: Mount loads RocksDB, and the queues
\* and pools start empty.
CrashRestart ==
    /\ crashes < MaxCrashes
    /\ crashes' = crashes + 1
    /\ wope_logs' = <<>> /\ jobs' = <<>>
    /\ pc'   = [k \in Workers |-> "idle"]
    /\ cur'  = [k \in Workers |-> NoWrite]
    /\ orb'  = [k \in Workers |-> <<>>]
    /\ idx'  = [k \in Workers |-> 1]
    /\ held' = [k \in Workers |-> 0]
    /\ rpc'  = [r \in Reads |-> IF rpc[r] \in {"asked", "reading"} THEN "lost"
                                                                  ELSE rpc[r]]
    /\ UNCHANGED <<kv, files, clock, client, serials, answer, undefined>>

DoWope(k) ==
    \/ Take(k)
    \/ ReadBase(k) \/ DeleteBlock(k) \/ NewBlock(k) \/ PutBlockAttr(k)
    \/ EditPastEnd(k) \/ EndEdits(k) \/ ReadCount(k) \/ WriteCount(k) \/ Bind(k)
    \/ TellJournal(k) \/ RequeueOnJournal(k)
    \/ ReadTarget(k) \/ CopyBlock(k) \/ CopyFails(k) \/ RequeueOnDisk(k)
    \/ TellDisk(k)

DoRope(r) == ReadSerials(r) \/ ReadBlock(r) \/ ReadPastEnd(r) \/ Answer(r)

\* Nothing is said of a server after undefined behaviour.
Next ==
    /\ ~undefined
    /\ \/ \E w \in Writes : Submit(w)
       \/ Dispatch
       \/ \E k \in Workers : DoWope(k)
       \/ \E r \in Reads : Ask(r) \/ DoRope(r)
       \/ CrashRestart

Spec == Init /\ [][Next]_vars

\* The dispatcher loops for ever and every pool thread keeps being scheduled.
Fairness ==
    /\ WF_vars(~undefined /\ Dispatch)
    /\ \A k \in Workers : WF_vars(~undefined /\ DoWope(k))
    /\ \A r \in Reads : WF_vars(~undefined /\ DoRope(r))

FairSpec == Spec /\ Fairness

----------------------------------------------------------------------------
(* Correctness. *)

\* Type invariant of the server's stored state, queues and threads.
StoreType ==
    /\ gh_attr \in [DOMAIN gh_attr -> Seq(Nat)] /\ DOMAIN gh_attr \subseteq Versions
    /\ rb_attr \in [DOMAIN rb_attr -> Nat]      /\ DOMAIN rb_attr \subseteq Nat
    /\ journal_rb \in [DOMAIN journal_rb -> Data] /\ DOMAIN journal_rb \subseteq Nat
    /\ disk_rb \in [DOMAIN disk_rb -> Data]    /\ DOMAIN disk_rb \subseteq Nat
    /\ drawn \in [DOMAIN drawn -> SUBSET Data] /\ DOMAIN drawn \subseteq Nat
    /\ clock \in Nat
QueueType == wope_logs \in Seq(WopeLog) /\ jobs \in Seq(WopeLog)
WorkerType ==
    /\ pc   \in [Workers -> Label]
    /\ cur  \in [Workers -> Writes \cup {NoWrite}]
    /\ \A k \in Workers : pc[k] # "idle" => cur[k] \in Writes
    /\ orb  \in [Workers -> Seq(Nat)]
    /\ idx  \in [Workers -> Nat \ {0}]
    /\ held \in [Workers -> Nat]
    /\ \A k \in Workers : pc[k] = "bump" => idx[k] \in 1..Len(orb[k])
ClientType == submitted \subseteq Writes /\ told \in [Writes -> SUBSET Milestone]
ReadType ==
    /\ rpc \in [Reads -> {"new", "asked", "reading", "answered", "lost"}]
    /\ serials \in [Reads -> Seq(Nat)]
    /\ answer  \in [Reads -> Seq(Data \cup {Missing})]
EnvType == crashes \in 0..MaxCrashes /\ undefined \in BOOLEAN
TypeOK ==
    StoreType /\ QueueType /\ WorkerType /\ ClientType /\ ReadType /\ EnvType

\* A block that can be found again: it has a record, a journal file unless
\* writing one failed, and, when nothing else was given its serial, its own data
\* under either root.
Stored(s) ==
    /\ s \in DOMAIN rb_attr /\ s \in DOMAIN drawn
    /\ Torn \notin drawn[s] => s \in DOMAIN journal_rb
    /\ \A block \in drawn[s] : drawn[s] = {block} =>
          journal_rb[s] = block /\ (s \in DOMAIN disk_rb => disk_rb[s] = block)

\* Every block of a bound version is stored, whatever crashed in between: the
\* file and the record of a block are written before a version that lists it is
\* bound, and no other version's edits touch its file.  What is excepted, the
\* code permits: it drops the result of WriteFile, and a clock that stands still
\* or is set back gives two blocks one file.
BoundBlocksStored ==
    \A v \in DOMAIN gh_attr : \A i \in DOMAIN gh_attr[v] : Stored(gh_attr[v][i])

\* A client that was told onJournal can count on its version, with the same two
\* exceptions: it is bound and stored, also after the server has crashed and has
\* forgotten the operation.
JournalAckSurvives ==
    \A w \in Writes : "onJournal" \in told[w] =>
        /\ Target[w] \in DOMAIN gh_attr
        /\ \A i \in DOMAIN gh_attr[Target[w]] : Stored(gh_attr[Target[w]][i])

\* refer_count 1 means that one version lists the block, which is what stage
\* onJournal takes it to mean (IsNew): a block that two versions list has at
\* least 2, also when their writes overlapped, each read the old count, and one
\* increment was lost.  It takes serials that differ.
SharedBlocksCounted ==
    \A u, v \in DOMAIN gh_attr : \A s \in Range(gh_attr[u]) \cap Range(gh_attr[v]) :
        ReferCount(s) >= IF u = v THEN 1 ELSE 2

OnDisk(v) == \A i \in DOMAIN gh_attr[v] : gh_attr[v][i] \in DOMAIN disk_rb
Contents(v) == [i \in DOMAIN gh_attr[v] |-> journal_rb[gh_attr[v][i]]]

\* A client that was told onDisk finds every block of its version under the
\* disk root.
AckedOnDiskIsReadable ==
    \A w \in Writes : "onDisk" \in told[w] =>
        Target[w] \in DOMAIN gh_attr /\ OnDisk(Target[w])

\* A read a client asks for after it was told onDisk returns what the version
\* consists of, block by block.
ReadsReturnWritten ==
    \A r \in Reads : rpc[r] = "answered" =>
        answer[r] = [i \in DOMAIN ReadOf[r].blocks |->
                        Contents(ReadOf[r].obj)[ReadOf[r].blocks[i] + 1]]

\* What the clients have to provide, when size[v] is the number of blocks of v,
\* none if no write makes v, and lengths[w][i] is that of the list after i
\* edits of w: each edit and each read addresses a position the list has.
AddressesFit(size, lengths) ==
    /\ size \in [Versions -> Nat]
    /\ \A v \in Versions : (\A w \in Writes : Target[w] # v) => size[v] = 0
    /\ \A w \in Writes :
          /\ lengths[w] \in [0..Len(Edits[w]) -> Nat]
          /\ lengths[w][0] = size[Base[w]]
          /\ lengths[w][Len(Edits[w])] = size[Target[w]]
          /\ \A i \in 1..Len(Edits[w]) :
                /\ InRange(Edits[w][i], lengths[w][i - 1])
                /\ lengths[w][i] = LengthAfter(Edits[w][i], lengths[w][i - 1])
    /\ \A r \in Reads : \A i \in DOMAIN ReadOf[r].blocks :
          ReadOf[r].blocks[i] < size[ReadOf[r].obj]

\* No iterator and no index passes the end of a block list, when clients wait
\* for a version before they use it and address blocks it has.
NothingUndefined == ~undefined

\* The pipeline implements the abstract store: versions appear whole, with the
\* contents the edits say, never change, and are acknowledged in time.
Store == INSTANCE VersionStore WITH
    content <- [v \in DOMAIN gh_attr |-> Contents(v)],
    durable <- {v \in DOMAIN gh_attr : OnDisk(v)}
ImplementsVersionStore == Store!Spec

\* When the server stays up and replies arrive, every write that was requested
\* is acknowledged on disk in the end, and every read is answered.
EveryRequestAnswered ==
    /\ \A w \in Writes : w \in submitted ~> "onDisk" \in told[w]
    /\ \A r \in Reads : rpc[r] = "asked" ~> rpc[r] = "answered"
=============================================================================
