------------------------- MODULE WopePipelineProofs -------------------------
(***************************************************************************)
(* Theorems about WopePipeline, for every value of its constants: any set  *)
(* of writes, edits, workers and reads, any waiting discipline of the      *)
(* clients, a clock that may stand still or be set back, files that cannot *)
(* be written or copied, lost replies and any number of crashes.  What the *)
(* versions, the refer_counts and what clients rely on need besides is     *)
(* stated with them: OneTarget, TickPerBlock, DiskAssumption and           *)
(* AddressesFit.                                                           *)
(***************************************************************************)
EXTENDS WopePipeline, ListLemmas, FiniteSetTheorems

----------------------------------------------------------------------------
(* Type correctness. *)

\* Put yields a map with one more key in its domain and the value at it.
LEMMA PutType ==
    ASSUME NEW K, NEW V, NEW map, map \in [DOMAIN map -> V], DOMAIN map \subseteq K,
           NEW key \in K, NEW value \in V
    PROVE  /\ Put(map, key, value) \in [DOMAIN Put(map, key, value) -> V]
           /\ DOMAIN Put(map, key, value) = DOMAIN map \cup {key}
           /\ DOMAIN Put(map, key, value) \subseteq K
           /\ Put(map, key, value)[key] = value
           /\ \A x \in DOMAIN map : x # key => Put(map, key, value)[x] = map[x]
BY DEF Put

\* What do_WOPE reads of a write, types[i] and block_nums[i], is an edit.
LEMMA EditsType ==
    ASSUME NEW w \in Writes, NEW i \in 1..Len(Edits[w])
    PROVE  /\ Edits[w][i] \in Edit
           /\ Edits[w][i].type \in EditType /\ Edits[w][i].num \in Nat
<1>1. Edits[w] \in Seq(Edit)
    BY HistoryAssumption
<1>2. Edits[w][i] \in Edit
    BY <1>1, ElementOfSeq
<1> QED
    BY <1>2 DEF Edit

\* An absent version's list, the empty one, is a list of serials.
LEMMA EmptyList == <<>> \in Seq(Nat)
BY EmptySeq

\* A worker that keeps its operation stays well-typed.
LEMMA GotoType ==
    ASSUME WorkerType, NEW k \in Workers, NEW label \in Label \ {"idle"},
           NEW list \in Seq(Nat), NEW i \in Nat \ {0}, NEW n \in Nat,
           label = "bump" => i \in 1..Len(list),
           Goto(k, label, list, i, n), pc[k] # "idle", UNCHANGED cur
    PROVE  WorkerType'
BY DEF WorkerType, Goto, Label

\* A worker that has finished is well-typed.
LEMMA FinishType ==
    ASSUME WorkerType, NEW k \in Workers, Finish(k)
    PROVE  WorkerType'
BY EmptySeq DEF WorkerType, Finish, Goto, Label

\* Queuing a log again keeps wope_logs well-typed.
LEMMA RequeueType ==
    ASSUME QueueType, WorkerType, NEW k \in Workers, NEW st \in Stage,
           pc[k] # "idle", Requeue(k, st)
    PROVE  wope_logs' \in Seq(WopeLog)
<1>1. [id |-> cur[k], state |-> st] \in WopeLog
    BY DEF WorkerType, WopeLog
<1> QED
    BY <1>1, AppendProperties DEF QueueType, Requeue

\* A reply leaves the client's knowledge well-typed.
LEMMA TellType ==
    ASSUME ClientType, NEW w \in Writes, NEW m \in Milestone, Tell(w, m),
           UNCHANGED submitted
    PROVE  ClientType'
BY DEF ClientType, Tell

\* Writing a block's file, done or failed, leaves the journal files typed.
LEMMA WriteBlockType ==
    ASSUME StoreType, NEW s \in Nat, NEW block \in Block, WriteBlock(s, block)
    PROVE  /\ journal_rb' \in [DOMAIN journal_rb' -> Data] /\ DOMAIN journal_rb' \subseteq Nat
           /\ drawn' \in [DOMAIN drawn' -> SUBSET Data] /\ DOMAIN drawn' \subseteq Nat
<1>1. block \in Data /\ Torn \in Data
    BY DEF Data
<1>2. \/ journal_rb' = journal_rb
      \/ \E data \in Data : journal_rb' = Put(journal_rb, s, data)
    BY <1>1 DEF WriteBlock
<1>3. \E outcome \in SUBSET Data : Draw(s, outcome)
    BY <1>1 DEF WriteBlock
<1>4. \E value \in SUBSET Data : drawn' = Put(drawn, s, value)
  <2>1. PICK outcome \in SUBSET Data : Draw(s, outcome)
      BY <1>3
  <2> QED
      BY <2>1 DEF Draw, StoreType
<1>5. journal_rb' \in [DOMAIN journal_rb' -> Data] /\ DOMAIN journal_rb' \subseteq Nat
  <2>1. CASE journal_rb' = journal_rb
      BY <2>1 DEF StoreType
  <2>2. ASSUME NEW data \in Data, journal_rb' = Put(journal_rb, s, data)
        PROVE  journal_rb' \in [DOMAIN journal_rb' -> Data] /\ DOMAIN journal_rb' \subseteq Nat
      BY <2>2, PutType DEF StoreType
  <2> QED
      BY <1>2, <2>1, <2>2
<1>6. drawn' \in [DOMAIN drawn' -> SUBSET Data] /\ DOMAIN drawn' \subseteq Nat
  <2>1. PICK value \in SUBSET Data : drawn' = Put(drawn, s, value)
      BY <1>4
  <2>2. PICK V : V = SUBSET Data
      OBVIOUS
  <2>3. value \in V /\ drawn \in [DOMAIN drawn -> V] /\ DOMAIN drawn \subseteq Nat
      BY <2>1, <2>2 DEF StoreType
  <2>4. drawn' \in [DOMAIN drawn' -> V] /\ DOMAIN drawn' \subseteq Nat
      BY <2>1, <2>3, PutType
  <2> QED
      BY <2>2, <2>4
<1> QED
    BY <1>5, <1>6

\* The stored list of a version is a list.
LEMMA StoredListType ==
    ASSUME StoreType, NEW v
    PROVE  ListAt(gh_attr, v) \in Seq(Nat)
BY DEF StoreType, ListAt

\* Every step keeps the state well-typed.
LEMMA TypeStep ==
    ASSUME TypeOK, [Next]_vars
    PROVE  TypeOK'
<1> USE DEF TypeOK
<1>1. ASSUME NEW w \in Writes, Submit(w) PROVE TypeOK'
  <2>1. wope_logs' \in Seq(WopeLog)
    <3>1. [id |-> w, state |-> "init"] \in WopeLog
        BY DEF WopeLog, Stage
    <3> QED
        BY <1>1, <3>1, AppendProperties DEF Submit, QueueType
  <2> QED
      BY <1>1, <2>1 DEF Submit, QueueType, StoreType, WorkerType, ClientType,
         ReadType, EnvType, kv, files, locals, reading, env
<1>2. ASSUME Dispatch PROVE TypeOK'
  <2>1. QueueType'
      BY <1>2, ConcatProperties, EmptySeq DEF Dispatch, QueueType
  <2> QED
      BY <1>2, <2>1 DEF Dispatch, StoreType, WorkerType, ClientType,
         ReadType, EnvType, kv, files, locals, client, reading, env
<1>3. ASSUME NEW k \in Workers, Take(k) PROVE TypeOK'
  <2>1. Head(jobs) \in WopeLog /\ Tail(jobs) \in Seq(WopeLog)
      BY <1>3, HeadTailProperties DEF Take, QueueType
  <2>2. QueueType'
      BY <1>3, <2>1 DEF Take, QueueType
  <2>3. WorkerType'
      BY <1>3, <2>1, EmptySeq DEF Take, WorkerType, Goto, WopeLog, Stage, Label
  <2> QED
      BY <1>3, <2>2, <2>3 DEF Take, StoreType, ClientType,
         ReadType, EnvType, kv, files, client, reading, env
<1>4. ASSUME NEW k \in Workers, ReadBase(k) PROVE TypeOK'
  <2>0. PICK list \in Seq(Nat) : list = ListAt(gh_attr, Base[cur[k]])
      BY StoredListType
  <2>1. WorkerType'
    <3>1. Goto(k, "edit", list, 1, 0) /\ pc[k] # "idle" /\ UNCHANGED cur
        BY <1>4, <2>0 DEF ReadBase
    <3> QED
        BY <3>1, GotoType DEF Label
  <2> QED
      BY <1>4, <2>1 DEF ReadBase, StoreType, QueueType, ClientType,
         ReadType, EnvType, kv, files, queues, client, reading, env
<1>5. ASSUME NEW k \in Workers, DeleteBlock(k) PROVE TypeOK'
  <2>1. /\ EditAt(k).num + 1 \in 1..Len(orb[k]) /\ orb[k] \in Seq(Nat)
        /\ idx[k] + 1 \in Nat \ {0}
      BY <1>5, EditsType, LenProperties, HistoryAssumption
      DEF DeleteBlock, Editing, EditAt, InRange, WorkerType
  <2>2. RemoveAt(orb[k], EditAt(k).num + 1) \in Seq(Nat)
      BY <2>1, RemoveAtElements
  <2>3. WorkerType'
      BY <1>5, <2>1, <2>2, GotoType DEF DeleteBlock, Editing, Label
  <2> QED
      BY <1>5, <2>3 DEF DeleteBlock, StoreType, QueueType, ClientType,
         ReadType, EnvType, kv, files, queues, client, reading, env
<1>6. ASSUME NEW k \in Workers, NewBlock(k) PROVE TypeOK'
  <2> DEFINE at == EditAt(k).num + 1
             new == IF EditAt(k).type = "Insert" THEN InsertAt(orb[k], at, clock)
                                                 ELSE ReplaceAt(orb[k], at, clock)
  <2>1. /\ cur[k] \in Writes /\ orb[k] \in Seq(Nat) /\ idx[k] \in Nat \ {0}
        /\ pc[k] = "edit" /\ clock \in Nat /\ Len(orb[k]) \in Nat
      BY <1>6, LenProperties DEF NewBlock, Editing, WorkerType, StoreType
  <2>2. /\ EditAt(k).num \in Nat /\ EditAt(k).type \in {"Insert", "OverWrite"}
        /\ InRange(EditAt(k), Len(orb[k]))
    <3>1. Edits[cur[k]] \in Seq(Edit) /\ idx[k] \in 1..Len(Edits[cur[k]])
        BY <1>6, <2>1, HistoryAssumption, LenProperties DEF NewBlock, Editing
    <3> QED
        BY <1>6, <2>1, <3>1, EditsType DEF NewBlock, EditAt, EditType
  <2>3. new \in Seq(Nat)
    <3>1. CASE EditAt(k).type = "Insert"
      <4>1. at \in 1..(Len(orb[k]) + 1)
          BY <2>1, <2>2, <3>1 DEF InRange
      <4> QED
          BY <2>1, <3>1, <4>1, InsertAtElements
    <3>2. CASE EditAt(k).type = "OverWrite"
      <4>1. at \in 1..Len(orb[k])
          BY <2>1, <2>2, <3>2 DEF InRange
      <4> QED
          BY <2>1, <3>2, <4>1, ReplaceAtElements
    <3> QED
        BY <2>2, <3>1, <3>2
  <2>4. Goto(k, "attr", new, idx[k], clock) /\ cur' = cur
      BY <1>6 DEF NewBlock
  <2> HIDE DEF new
  <2>5. WorkerType'
      BY <2>1, <2>3, <2>4, GotoType DEF Label
  <2>6. PICK block \in Block : block = <<cur[k], idx[k]>>
      BY <2>1 DEF Block
  <2>7. StoreType'
    <3>1. WriteBlock(clock, block)
        BY <1>6, <2>6 DEF NewBlock
    <3>2. clock' \in Nat
        BY <1>6, <2>1 DEF NewBlock
    <3> QED
        BY <1>6, <2>1, <3>1, <3>2, WriteBlockType DEF NewBlock, StoreType, kv
  <2> QED
      BY <1>6, <2>5, <2>7 DEF NewBlock, QueueType, ClientType,
         ReadType, EnvType, queues, client, reading, env
<1>7. ASSUME NEW k \in Workers, PutBlockAttr(k) PROVE TypeOK'
  <2>1. held[k] \in Nat /\ orb[k] \in Seq(Nat) /\ idx[k] + 1 \in Nat \ {0}
      BY DEF WorkerType
  <2>2. WorkerType'
      BY <1>7, <2>1, GotoType DEF PutBlockAttr, Label
  <2>3. rb_attr' \in [DOMAIN rb_attr' -> Nat] /\ DOMAIN rb_attr' \subseteq Nat
    <3>1. rb_attr' = Put(rb_attr, held[k], 0)
        BY <1>7 DEF PutBlockAttr
    <3>2. rb_attr \in [DOMAIN rb_attr -> Nat] /\ DOMAIN rb_attr \subseteq Nat
        BY DEF StoreType
    <3>3. PICK key \in Nat, value \in Nat : key = held[k] /\ value = 0
        BY <2>1
    <3>4. /\ Put(rb_attr, key, value) \in [DOMAIN Put(rb_attr, key, value) -> Nat]
          /\ DOMAIN Put(rb_attr, key, value) \subseteq Nat
        BY <3>2, PutType
    <3> QED
        BY <3>1, <3>3, <3>4
  <2> QED
      BY <1>7, <2>2, <2>3 DEF PutBlockAttr, StoreType, QueueType, ClientType,
         ReadType, EnvType, files, queues, client, reading, env
<1>8. ASSUME NEW k \in Workers, EditPastEnd(k) \/ EndEdits(k) PROVE TypeOK'
  <2>1. orb[k] \in Seq(Nat)
      BY DEF WorkerType
  <2>2. WorkerType'
    <3>1. CASE EditPastEnd(k)
        BY <3>1 DEF EditPastEnd, locals, WorkerType
    <3>2. CASE EndEdits(k)
      <4>1. /\ Goto(k, "count", orb[k], 1, 0) /\ pc[k] # "idle" /\ UNCHANGED cur
            /\ "count" \in Label \ {"idle"} /\ 1 \in Nat \ {0} /\ 0 \in Nat
          BY <3>2 DEF EndEdits, Label
      <4> QED
          BY <2>1, <4>1, GotoType
    <3> QED
        BY <1>8, <3>1, <3>2
  <2> QED
      BY <1>8, <2>2 DEF EditPastEnd, EndEdits, StoreType, QueueType, ClientType,
         ReadType, EnvType, kv, files, queues, client, reading, env
<1>9. ASSUME NEW k \in Workers, ReadCount(k) PROVE TypeOK'
  <2>1. orb[k] \in Seq(Nat) /\ idx[k] \in Nat \ {0}
        /\ ReferCount(orb[k][idx[k]]) \in Nat
      BY DEF WorkerType, StoreType, ReferCount
  <2>2. idx[k] \in 1..Len(orb[k]) /\ pc[k] # "idle" /\ cur' = cur
      BY <1>9, <2>1, LenProperties DEF ReadCount
  <2>3. WorkerType'
      BY <1>9, <2>1, <2>2, GotoType DEF ReadCount, Label
  <2> QED
      BY <1>9, <2>3 DEF ReadCount, StoreType, QueueType, ClientType,
         ReadType, EnvType, kv, files, queues, client, reading, env
<1>10. ASSUME NEW k \in Workers, WriteCount(k) PROVE TypeOK'
  <2>1. /\ orb[k] \in Seq(Nat) /\ idx[k] + 1 \in Nat \ {0} /\ held[k] + 1 \in Nat
        /\ idx[k] \in 1..Len(orb[k])
      BY <1>10 DEF WriteCount, WorkerType
  <2>2. orb[k][idx[k]] \in Nat
      BY <2>1, ElementOfSeq
  <2>3. WorkerType'
      BY <1>10, <2>1, GotoType DEF WriteCount, Label
  <2>5. rb_attr \in [DOMAIN rb_attr -> Nat] /\ DOMAIN rb_attr \subseteq Nat
      BY DEF StoreType
  <2>6. rb_attr' = Put(rb_attr, orb[k][idx[k]], held[k] + 1)
      BY <1>10 DEF WriteCount
  <2>4. rb_attr' \in [DOMAIN rb_attr' -> Nat] /\ DOMAIN rb_attr' \subseteq Nat
      BY <2>1, <2>2, <2>5, <2>6 DEF Put
  <2> QED
      BY <1>10, <2>3, <2>4 DEF WriteCount, StoreType, QueueType, ClientType,
         ReadType, EnvType, files, queues, client, reading, env
<1>11. ASSUME NEW k \in Workers, Bind(k) PROVE TypeOK'
  <2>1. orb[k] \in Seq(Nat) /\ cur[k] \in Writes
      BY <1>11 DEF Bind, WorkerType
  <2>2. Target[cur[k]] \in Versions
      BY <2>1, HistoryAssumption
  <2>3. WorkerType'
    <3> DEFINE list == <<>>
    <3>1. list \in Seq(Nat) /\ Goto(k, "tellJournal", list, 1, 0) /\ cur' = cur /\ pc[k] # "idle"
        BY <1>11, EmptyList DEF Bind
    <3> HIDE DEF list
    <3> QED
        BY <3>1, GotoType DEF Label
  <2>5. gh_attr \in [DOMAIN gh_attr -> Seq(Nat)] /\ DOMAIN gh_attr \subseteq Versions
      BY DEF StoreType
  <2>6. gh_attr' = Put(gh_attr, Target[cur[k]], orb[k])
      BY <1>11 DEF Bind
  <2>4. gh_attr' \in [DOMAIN gh_attr' -> Seq(Nat)] /\ DOMAIN gh_attr' \subseteq Versions
      BY <2>1, <2>2, <2>5, <2>6 DEF Put
  <2> QED
      BY <1>11, <2>3, <2>4 DEF Bind, StoreType, QueueType, ClientType,
         ReadType, EnvType, files, queues, client, reading, env
<1>12. ASSUME NEW k \in Workers, TellJournal(k) PROVE TypeOK'
  <2>1. WorkerType'
    <3> DEFINE list == <<>>
    <3>1. list \in Seq(Nat) /\ Goto(k, "requeue", list, 1, 0) /\ cur' = cur /\ pc[k] # "idle"
        BY <1>12, EmptyList DEF TellJournal
    <3> HIDE DEF list
    <3> QED
        BY <3>1, GotoType DEF Label
  <2>2. ClientType'
      BY <1>12, TellType DEF TellJournal, WorkerType, Milestone
  <2> QED
      BY <1>12, <2>1, <2>2 DEF TellJournal, StoreType, QueueType,
         ReadType, EnvType, kv, files, queues, reading, env
<1>13. ASSUME NEW k \in Workers, RequeueOnJournal(k) \/ RequeueOnDisk(k) PROVE TypeOK'
  <2>1. WorkerType'
      BY <1>13, FinishType DEF RequeueOnJournal, RequeueOnDisk
  <2>2. wope_logs' \in Seq(WopeLog)
      BY <1>13, RequeueType DEF RequeueOnJournal, RequeueOnDisk, Stage
  <2> QED
      BY <1>13, <2>1, <2>2 DEF RequeueOnJournal, RequeueOnDisk, StoreType, QueueType,
         ClientType, ReadType, EnvType, kv, files, client, reading, env
<1>14. ASSUME NEW k \in Workers, ReadTarget(k) PROVE TypeOK'
  <2>0. PICK list \in Seq(Nat) : list = ListAt(gh_attr, Target[cur[k]])
      BY StoredListType
  <2>1. WorkerType'
    <3>1. Goto(k, "copy", list, 1, 0) /\ pc[k] # "idle" /\ UNCHANGED cur
        BY <1>14, <2>0 DEF ReadTarget
    <3> QED
        BY <3>1, GotoType DEF Label
  <2> QED
      BY <1>14, <2>1 DEF ReadTarget, StoreType, QueueType, ClientType,
         ReadType, EnvType, kv, files, queues, client, reading, env
<1>15. ASSUME NEW k \in Workers, CopyBlock(k) \/ CopyFails(k) PROVE TypeOK'
  <2>1. /\ orb[k] \in Seq(Nat) /\ idx[k] + 1 \in Nat \ {0}
        /\ idx[k] \in 1..Len(orb[k])
      BY <1>15, LenProperties DEF CopyBlock, CopyFails, Copying, WorkerType
  <2>2. orb[k][idx[k]] \in Nat
      BY <2>1, ElementOfSeq
  <2>3. WorkerType'
      BY <1>15, <2>1, GotoType DEF CopyBlock, CopyFails, Copying, Label
  <2>4. disk_rb' \in [DOMAIN disk_rb' -> Data] /\ DOMAIN disk_rb' \subseteq Nat
    <3>1. CASE disk_rb' = disk_rb
        BY <3>1 DEF StoreType
    <3>2. CASE /\ orb[k][idx[k]] \in DOMAIN journal_rb
               /\ disk_rb' = Put(disk_rb, orb[k][idx[k]], journal_rb[orb[k][idx[k]]])
      <4> DEFINE block == journal_rb[orb[k][idx[k]]]
      <4>1. block \in Data /\ disk_rb' = Put(disk_rb, orb[k][idx[k]], block)
          BY <3>2 DEF StoreType
      <4>2. disk_rb \in [DOMAIN disk_rb -> Data] /\ DOMAIN disk_rb \subseteq Nat
          BY DEF StoreType
      <4> HIDE DEF block
      <4> QED
          BY <2>2, <4>1, <4>2 DEF Put
    <3> QED
        BY <1>15, <3>1, <3>2 DEF CopyBlock, CopyFails, files
  <2> QED
      BY <1>15, <2>3, <2>4 DEF CopyBlock, CopyFails, StoreType, QueueType, ClientType,
         ReadType, EnvType, kv, files, queues, client, reading, env
<1>16. ASSUME NEW k \in Workers, TellDisk(k) PROVE TypeOK'
  <2>1. WorkerType'
      BY <1>16, FinishType DEF TellDisk
  <2>2. ClientType'
      BY <1>16, TellType DEF TellDisk, WorkerType, Milestone
  <2> QED
      BY <1>16, <2>1, <2>2 DEF TellDisk, StoreType, QueueType,
         ReadType, EnvType, kv, files, queues, reading, env
<1>17. ASSUME NEW r \in Reads, Ask(r) \/ DoRope(r) PROVE TypeOK'
  <2>1. ReadType'
    <3>1. CASE Ask(r)
        BY <3>1 DEF Ask, ReadType
    <3>2. CASE ReadSerials(r)
        BY <3>2, StoredListType DEF ReadSerials, ReadType
    <3>3. CASE ReadBlock(r)
      <4> DEFINE s == serials[r][Position(r)]
                 value == IF s \in DOMAIN disk_rb THEN disk_rb[s] ELSE Missing
      <4>1. value \in Data \cup {Missing}
          BY DEF StoreType
      <4>2. answer' = [answer EXCEPT ![r] = Append(answer[r], value)]
          BY <3>3 DEF ReadBlock
      <4> HIDE DEF value
      <4>3. Append(answer[r], value) \in Seq(Data \cup {Missing})
          BY <4>1, AppendProperties DEF ReadType
      <4> QED
          BY <3>3, <4>2, <4>3 DEF ReadBlock, ReadType
    <3>4. CASE ReadPastEnd(r)
        BY <3>4 DEF ReadPastEnd, ReadType, reading
    <3>5. CASE Answer(r)
        BY <3>5 DEF Answer, ReadType
    <3> QED
        BY <1>17, <3>1, <3>2, <3>3, <3>4, <3>5 DEF DoRope
  <2> QED
      BY <1>17, <2>1 DEF Ask, DoRope, ReadSerials, ReadBlock, ReadPastEnd, Answer,
         StoreType, QueueType, WorkerType, ClientType, EnvType,
         kv, files, queues, locals, client, env
<1>18. ASSUME CrashRestart PROVE TypeOK'
  <2>1. QueueType' /\ WorkerType'
      BY <1>18, EmptySeq DEF CrashRestart, QueueType, WorkerType, Label
  <2>2. ReadType' /\ EnvType'
      BY <1>18, PipelineAssumption DEF CrashRestart, ReadType, EnvType
  <2> QED
      BY <1>18, <2>1, <2>2 DEF CrashRestart, StoreType, ClientType, kv, files, client
<1>19. ASSUME UNCHANGED vars PROVE TypeOK'
    BY <1>19 DEF vars, StoreType, QueueType, WorkerType, ClientType, ReadType,
       EnvType, kv, files, queues, locals, client, reading, env
<1> QED
    BY <1>1, <1>2, <1>3, <1>4, <1>5, <1>6, <1>7, <1>8, <1>9, <1>10, <1>11, <1>12,
       <1>13, <1>14, <1>15, <1>16, <1>17, <1>18, <1>19 DEF Next, DoWope

\* The initial state is well-typed.
LEMMA TypeInit ==
    ASSUME Init PROVE TypeOK
<1>1. StoreType
    BY EmptySeq DEF Init, StoreType
<1>2. QueueType /\ WorkerType
    BY EmptySeq DEF Init, QueueType, WorkerType, Label
<1>3. ClientType
    BY DEF Init, ClientType
<1>4. ReadType
  <2>1. <<>> \in Seq(Nat) /\ <<>> \in Seq(Data \cup {Missing})
      BY EmptySeq
  <2> QED
      BY <2>1 DEF Init, ReadType
<1>5. EnvType
  <2>1. MaxCrashes \in Nat
      BY PipelineAssumption
  <2>2. crashes = 0 /\ undefined = FALSE
      BY DEF Init
  <2>3. crashes \in 0..MaxCrashes
      BY <2>1, <2>2
  <2> QED
      BY <2>2, <2>3, Zenon DEF EnvType
<1> QED
    BY <1>1, <1>2, <1>3, <1>4, <1>5 DEF TypeOK

\* The server's state keeps its types, whatever clients ask for and whatever
\* fails: every stage of do_wope and do_rope leaves lists, counts and files that
\* the next stage can use.
THEOREM TypeCorrect == Spec => []TypeOK
<1>1. Init => TypeOK
    BY TypeInit
<1>2. TypeOK /\ [Next]_vars => TypeOK'
    BY TypeStep
<1> QED
    BY <1>1, <1>2, PTL DEF Spec

----------------------------------------------------------------------------
(* What was told to be on the journal is there, for ever. *)

\* A block that do_WOPE has recorded: it was given its serial, and RocksDB has
\* the record.
Recorded(s) == s \in DOMAIN rb_attr /\ s \in DOMAIN drawn
BoundRecorded ==
    \A v \in DOMAIN gh_attr : \A i \in DOMAIN gh_attr[v] : Recorded(gh_attr[v][i])

\* The lists workers hold are of recorded blocks, but for a new block whose
\* record is still to be written.
ListsRecorded ==
    \A k \in Workers :
        /\ \A i \in DOMAIN orb[k] :
              Recorded(orb[k][i]) \/ (pc[k] = "attr" /\ orb[k][i] = held[k])
        /\ pc[k] = "attr" => held[k] \in DOMAIN drawn
ToldBound ==
    /\ \A k \in Workers : pc[k] = "tellJournal" => Target[cur[k]] \in DOMAIN gh_attr
    /\ \A w \in Writes : "onJournal" \in told[w] => Target[w] \in DOMAIN gh_attr

\* Files are of serials that were given out, and a serial given once, its file
\* written, has its own block's data.
DrawnOnce(s) ==
    \A block \in drawn[s] : drawn[s] = {block} =>
        journal_rb[s] = block /\ (s \in DOMAIN disk_rb => disk_rb[s] = block)
DrawnAt(s) ==
    /\ drawn[s] # {} /\ drawn[s] # {Torn}
    /\ Torn \notin drawn[s] => s \in DOMAIN journal_rb
    /\ DrawnOnce(s)
FilesDrawn ==
    /\ DOMAIN disk_rb \subseteq DOMAIN journal_rb /\ DOMAIN journal_rb \subseteq DOMAIN drawn
    /\ \A s \in DOMAIN drawn : DrawnAt(s)
JournalInv == TypeOK /\ FilesDrawn /\ BoundRecorded /\ ListsRecorded /\ ToldBound

\* Versions, records and serials given out are never forgotten.
LEMMA DomainsGrow ==
    ASSUME [Next]_vars
    PROVE  /\ DOMAIN gh_attr \subseteq DOMAIN gh_attr'
           /\ DOMAIN rb_attr \subseteq DOMAIN rb_attr'
           /\ DOMAIN drawn \subseteq DOMAIN drawn'
<1> DEFINE Grow == /\ DOMAIN gh_attr \subseteq DOMAIN gh_attr'
                   /\ DOMAIN rb_attr \subseteq DOMAIN rb_attr'
                   /\ DOMAIN drawn \subseteq DOMAIN drawn'
<1>1. ASSUME UNCHANGED <<kv, files>> PROVE Grow
    BY <1>1 DEF kv, files
<1>2. ASSUME NEW k \in Workers, DoWope(k) PROVE Grow
  <2>1. CASE NewBlock(k)
      BY <2>1 DEF NewBlock, WriteBlock, Draw, Put, kv
  <2>2. CASE PutBlockAttr(k) \/ WriteCount(k)
      BY <2>2 DEF PutBlockAttr, WriteCount, Put, files
  <2>3. CASE Bind(k)
      BY <2>3 DEF Bind, Put, files
  <2>4. CASE CopyBlock(k)
      BY <2>4 DEF CopyBlock, kv
  <2>5. CASE \/ Take(k) \/ ReadBase(k) \/ DeleteBlock(k) \/ EditPastEnd(k)
             \/ EndEdits(k) \/ ReadCount(k) \/ TellJournal(k)
             \/ RequeueOnJournal(k) \/ ReadTarget(k) \/ CopyFails(k)
             \/ RequeueOnDisk(k) \/ TellDisk(k)
    <3>1. UNCHANGED <<kv, files>>
        BY <2>5 DEF Take, ReadBase, DeleteBlock, EditPastEnd, EndEdits, ReadCount,
           TellJournal, RequeueOnJournal, ReadTarget, CopyFails, RequeueOnDisk, TellDisk
    <3> QED
        BY <3>1, <1>1
  <2> HIDE DEF Grow
  <2> QED
      BY <1>2, <2>1, <2>2, <2>3, <2>4, <2>5 DEF DoWope
<1>3. ASSUME NEW r \in Reads, Ask(r) \/ DoRope(r) PROVE UNCHANGED <<kv, files>>
    BY <1>3 DEF Ask, DoRope, ReadSerials, ReadBlock, ReadPastEnd, Answer
<1>4. ASSUME \/ \E w \in Writes : Submit(w)
             \/ Dispatch \/ CrashRestart \/ UNCHANGED vars
      PROVE  UNCHANGED <<kv, files>>
    BY <1>4 DEF Submit, Dispatch, CrashRestart, vars
<1> HIDE DEF Grow
<1>5. Grow
    BY <1>1, <1>2, <1>3, <1>4 DEF Next
<1> QED
    BY <1>5 DEF Grow

\* A worker's step keeps ListsRecorded when its own new list is stored.
LEMMA GotoLists ==
    ASSUME WorkerType, ListsRecorded,
           DOMAIN rb_attr \subseteq DOMAIN rb_attr',
           DOMAIN drawn \subseteq DOMAIN drawn',
           NEW k \in Workers, NEW label, NEW list, NEW i, NEW n,
           Goto(k, label, list, i, n),
           \A j \in DOMAIN list :
              \/ list[j] \in DOMAIN rb_attr' /\ list[j] \in DOMAIN drawn'
              \/ label = "attr" /\ list[j] = n,
           label = "attr" => n \in DOMAIN drawn'
    PROVE  ListsRecorded'
<1> SUFFICES ASSUME NEW l \in Workers
             PROVE  /\ \A j \in DOMAIN orb'[l] :
                          \/ /\ orb'[l][j] \in DOMAIN rb_attr'
                             /\ orb'[l][j] \in DOMAIN drawn'
                          \/ pc'[l] = "attr" /\ orb'[l][j] = held'[l]
                    /\ pc'[l] = "attr" => held'[l] \in DOMAIN drawn'
    BY DEF ListsRecorded, Recorded
<1>1. CASE l = k
  <2>1. pc'[l] = label /\ orb'[l] = list /\ held'[l] = n
      BY <1>1 DEF Goto, WorkerType
  <2> QED
      BY <2>1
<1>2. CASE l # k
  <2>1. pc'[l] = pc[l] /\ orb'[l] = orb[l] /\ held'[l] = held[l]
      BY <1>2 DEF Goto, WorkerType
  <2>2. \A j \in DOMAIN orb[l] :
           \/ orb[l][j] \in DOMAIN rb_attr /\ orb[l][j] \in DOMAIN drawn
           \/ pc[l] = "attr" /\ orb[l][j] = held[l]
      BY DEF ListsRecorded, Recorded
  <2>3. pc[l] = "attr" => held[l] \in DOMAIN drawn
      BY DEF ListsRecorded
  <2> QED
      BY <2>1, <2>2, <2>3
<1> QED
    BY <1>1, <1>2

\* A list a worker holds, but for the block it is creating, is stored.
LEMMA HeldListRecorded ==
    ASSUME ListsRecorded, NEW k \in Workers, pc[k] # "attr"
    PROVE  \A j \in DOMAIN orb[k] :
              orb[k][j] \in DOMAIN rb_attr /\ orb[k][j] \in DOMAIN drawn
BY DEF ListsRecorded, Recorded

\* A list read from RocksDB is stored.
LEMMA BoundListRecorded ==
    ASSUME BoundRecorded, NEW v
    PROVE  \A j \in DOMAIN ListAt(gh_attr, v) :
              /\ ListAt(gh_attr, v)[j] \in DOMAIN rb_attr
              /\ ListAt(gh_attr, v)[j] \in DOMAIN drawn
<1>1. CASE v \in DOMAIN gh_attr
    BY <1>1 DEF BoundRecorded, ListAt, Recorded
<1>2. CASE v \notin DOMAIN gh_attr
    BY <1>2 DEF ListAt
<1> QED
    BY <1>1, <1>2

\* Every step keeps the lists of the workers stored.
LEMMA ListsStep ==
    ASSUME JournalInv, [Next]_vars
    PROVE  ListsRecorded'
<1> USE DEF JournalInv, TypeOK
<1>0. /\ DOMAIN rb_attr \subseteq DOMAIN rb_attr'
      /\ DOMAIN drawn \subseteq DOMAIN drawn'
    BY DomainsGrow
<1>1. ASSUME NEW k \in Workers, DoWope(k) PROVE ListsRecorded'
  <2> DEFINE none == <<>>
  <2>0. DOMAIN none = {}
      OBVIOUS
  <2> HIDE DEF none
  <2>1. CASE Take(k)
    <3>1. PICK label \in {"base", "target", "tellDisk"} : Goto(k, label, none, 1, 0)
      <4>1. Head(jobs) \in WopeLog
          BY <2>1, HeadTailProperties DEF Take, QueueType
      <4> QED
          BY <2>1, <4>1 DEF Take, WopeLog, Stage, none
    <3> QED
        BY <3>1, <1>0, <2>0, GotoLists
  <2>2. CASE ReadBase(k) \/ ReadTarget(k)
    <3>1. PICK v : \E label \in {"edit", "copy"} :
                      Goto(k, label, ListAt(gh_attr, v), 1, 0)
        BY <2>2 DEF ReadBase, ReadTarget
    <3>0. PICK label \in {"edit", "copy"} : Goto(k, label, ListAt(gh_attr, v), 1, 0)
        BY <3>1
    <3> DEFINE list == ListAt(gh_attr, v)
    <3>2. /\ Goto(k, label, list, 1, 0)
          /\ \A j \in DOMAIN list :
                list[j] \in DOMAIN rb_attr /\ list[j] \in DOMAIN drawn
        BY <3>0, BoundListRecorded
    <3> HIDE DEF list
    <3> QED
        BY <3>2, <1>0, GotoLists
  <2>3. CASE DeleteBlock(k)
    <3> DEFINE list == RemoveAt(orb[k], EditAt(k).num + 1)
    <3>1. EditAt(k).num + 1 \in 1..Len(orb[k]) /\ orb[k] \in Seq(Nat)
      <4>1. cur[k] \in Writes /\ orb[k] \in Seq(Nat) /\ Len(orb[k]) \in Nat
          BY <2>3, LenProperties DEF DeleteBlock, Editing, WorkerType
      <4>2. Edits[cur[k]] \in Seq(Edit) /\ idx[k] \in 1..Len(Edits[cur[k]])
        <5>1. idx[k] <= Len(Edits[cur[k]])
            BY <2>3 DEF DeleteBlock, Editing
        <5>2. idx[k] \in Nat \ {0}
            BY DEF WorkerType
        <5>3. Edits[cur[k]] \in Seq(Edit)
            BY <4>1, HistoryAssumption
        <5>4. Len(Edits[cur[k]]) \in Nat
            BY <5>3, LenProperties
        <5> QED
            BY <5>1, <5>2, <5>3, <5>4
      <4>3. EditAt(k).num \in Nat
          BY <4>1, <4>2, EditsType DEF EditAt
      <4>4. EditAt(k).type = "Delete" /\ InRange(EditAt(k), Len(orb[k]))
          BY <2>3 DEF DeleteBlock
      <4>5. EditAt(k).num < Len(orb[k])
          BY <4>4 DEF InRange
      <4> QED
          BY <4>1, <4>3, <4>5
    <3>2. \A j \in DOMAIN list :
             list[j] \in DOMAIN rb_attr /\ list[j] \in DOMAIN drawn
      <4> DEFINE n == EditAt(k).num + 1
      <4>1. n \in 1..Len(orb[k]) /\ orb[k] \in Seq(Nat) /\ list = RemoveAt(orb[k], n)
          BY <3>1
      <4> HIDE DEF n, list
      <4>2. \A j \in DOMAIN list : \E i \in DOMAIN orb[k] : list[j] = orb[k][i]
          BY <4>1, RemoveAtElements
      <4>3. \A i \in DOMAIN orb[k] :
               orb[k][i] \in DOMAIN rb_attr /\ orb[k][i] \in DOMAIN drawn
          BY <2>3, HeldListRecorded DEF DeleteBlock, Editing
      <4> QED
          BY <4>2, <4>3
    <3>3. Goto(k, "edit", list, idx[k] + 1, 0)
        BY <2>3 DEF DeleteBlock
    <3> HIDE DEF list
    <3> QED
        BY <3>2, <3>3, <1>0, GotoLists
  <2>4. CASE NewBlock(k)
    <3> DEFINE at   == EditAt(k).num + 1
               list == IF EditAt(k).type = "Insert" THEN InsertAt(orb[k], at, clock)
                                                    ELSE ReplaceAt(orb[k], at, clock)
    <3>1. /\ orb[k] \in Seq(Nat) /\ clock \in Nat /\ pc[k] = "edit"
          /\ EditAt(k).type = "Insert" => at \in 1..(Len(orb[k]) + 1)
          /\ EditAt(k).type # "Insert" => at \in 1..Len(orb[k])
      <4>1. /\ cur[k] \in Writes /\ orb[k] \in Seq(Nat) /\ Len(orb[k]) \in Nat
            /\ clock \in Nat /\ pc[k] = "edit"
          BY <2>4, LenProperties DEF NewBlock, Editing, WorkerType, StoreType
      <4>2. Edits[cur[k]] \in Seq(Edit) /\ idx[k] \in 1..Len(Edits[cur[k]])
          BY <2>4, <4>1, HistoryAssumption, LenProperties
          DEF NewBlock, Editing, WorkerType
      <4>3. EditAt(k).num \in Nat
          BY <4>1, <4>2, EditsType DEF EditAt
      <4>4. InRange(EditAt(k), Len(orb[k]))
          BY <2>4 DEF NewBlock
      <4> QED
          BY <4>1, <4>3, <4>4 DEF InRange
    <3>2. \A j \in DOMAIN list :
             \/ list[j] = clock
             \/ \E i \in DOMAIN orb[k] : list[j] = orb[k][i]
      <4>0. /\ EditAt(k).type = "Insert" => list = InsertAt(orb[k], at, clock)
            /\ EditAt(k).type # "Insert" => list = ReplaceAt(orb[k], at, clock)
          OBVIOUS
      <4> HIDE DEF at, list
      <4>1. CASE EditAt(k).type = "Insert"
        <5>1. /\ orb[k] \in Seq(Nat) /\ at \in 1..(Len(orb[k]) + 1) /\ clock \in Nat
              /\ list = InsertAt(orb[k], at, clock)
            BY <3>1, <4>0, <4>1
        <5>2. \A j \in DOMAIN InsertAt(orb[k], at, clock) :
                 \/ InsertAt(orb[k], at, clock)[j] = clock
                 \/ \E i \in DOMAIN orb[k] : InsertAt(orb[k], at, clock)[j] = orb[k][i]
          <6>1. PICK S, s, n, e : S = Nat /\ s = orb[k] /\ n = at /\ e = clock
              OBVIOUS
          <6>2. s \in Seq(S) /\ n \in 1..(Len(s) + 1) /\ e \in S
              BY <5>1, <6>1
          <6>3. \A j \in DOMAIN InsertAt(s, n, e) :
                   \/ InsertAt(s, n, e)[j] = e
                   \/ \E i \in DOMAIN s : InsertAt(s, n, e)[j] = s[i]
              BY <6>2, InsertAtElements
          <6> QED
              BY <6>1, <6>3
        <5> QED
            BY <5>1, <5>2
      <4>2. CASE EditAt(k).type # "Insert"
        <5>1. /\ orb[k] \in Seq(Nat) /\ at \in 1..Len(orb[k]) /\ clock \in Nat
              /\ list = ReplaceAt(orb[k], at, clock)
            BY <3>1, <4>0, <4>2
        <5>2. \A j \in DOMAIN ReplaceAt(orb[k], at, clock) :
                 \/ ReplaceAt(orb[k], at, clock)[j] = clock
                 \/ \E i \in DOMAIN orb[k] : ReplaceAt(orb[k], at, clock)[j] = orb[k][i]
            BY <5>1 DEF ReplaceAt
        <5> QED
            BY <5>1, <5>2
      <4> QED
          BY <4>1, <4>2
    <3>3. Goto(k, "attr", list, idx[k], clock) /\ clock \in DOMAIN drawn'
        BY <2>4 DEF NewBlock, WriteBlock, Draw, Put
    <3> HIDE DEF list
    <3>4. \A j \in DOMAIN list :
             \/ list[j] \in DOMAIN rb_attr' /\ list[j] \in DOMAIN drawn'
             \/ list[j] = clock
        BY <3>1, <3>2, <1>0, HeldListRecorded
    <3> QED
        BY <3>3, <3>4, <1>0, GotoLists
  <2>5. CASE PutBlockAttr(k)
    <3>1. held[k] \in DOMAIN rb_attr' /\ Goto(k, "edit", orb[k], idx[k] + 1, 0)
        BY <2>5 DEF PutBlockAttr, Put
    <3>2. \A j \in DOMAIN orb[k] :
             orb[k][j] \in DOMAIN rb_attr' /\ orb[k][j] \in DOMAIN drawn'
        BY <2>5, <3>1, <1>0 DEF PutBlockAttr, ListsRecorded, Recorded
    <3> QED
        BY <3>1, <3>2, <1>0, GotoLists
  <2>6. CASE EditPastEnd(k)
      BY <2>6 DEF EditPastEnd, ListsRecorded, Recorded, kv, files, locals
  <2>7. CASE EndEdits(k) \/ ReadCount(k) \/ WriteCount(k) \/ CopyBlock(k) \/ CopyFails(k)
    <3>1. pc[k] # "attr" /\ \E label \in Label \ {"attr"} : \E i, n : Goto(k, label, orb[k], i, n)
        BY <2>7 DEF EndEdits, ReadCount, WriteCount, CopyBlock, CopyFails, Copying, Label
    <3> QED
        BY <3>1, <1>0, HeldListRecorded, GotoLists
  <2>8. CASE \/ Bind(k) \/ TellJournal(k) \/ RequeueOnJournal(k)
             \/ RequeueOnDisk(k) \/ TellDisk(k)
    <3>1. \E label \in Label \ {"attr"} : Goto(k, label, none, 1, 0)
        BY <2>8 DEF Bind, TellJournal, RequeueOnJournal, RequeueOnDisk, TellDisk,
           Finish, Label, none
    <3> QED
        BY <3>1, <1>0, <2>0, GotoLists
  <2> QED
      BY <1>1, <2>1, <2>2, <2>3, <2>4, <2>5, <2>6, <2>7, <2>8 DEF DoWope
<1>2. ASSUME UNCHANGED locals PROVE ListsRecorded'
    BY <1>2, <1>0 DEF ListsRecorded, Recorded, locals
<1>3. ASSUME CrashRestart PROVE ListsRecorded'
    BY <1>3 DEF CrashRestart, ListsRecorded
<1>4. ASSUME NEW r \in Reads, Ask(r) \/ DoRope(r) PROVE UNCHANGED locals
    BY <1>4 DEF Ask, DoRope, ReadSerials, ReadBlock, ReadPastEnd, Answer
<1>5. ASSUME (\E w \in Writes : Submit(w)) \/ Dispatch \/ UNCHANGED vars
      PROVE  UNCHANGED locals
    BY <1>5 DEF Submit, Dispatch, vars
<1> QED
    BY <1>1, <1>2, <1>3, <1>4, <1>5 DEF Next

\* Every step keeps the blocks of bound versions stored: only Bind binds, and
\* it binds the list its worker holds.
LEMMA BoundStep ==
    ASSUME JournalInv, [Next]_vars
    PROVE  BoundRecorded'
<1> USE DEF JournalInv, TypeOK
<1>0. /\ DOMAIN rb_attr \subseteq DOMAIN rb_attr'
      /\ DOMAIN drawn \subseteq DOMAIN drawn'
    BY DomainsGrow
<1>1. ASSUME NEW k \in Workers, Bind(k) PROVE BoundRecorded'
  <2>1. /\ gh_attr' = Put(gh_attr, Target[cur[k]], orb[k])
        /\ pc[k] # "attr"
      BY <1>1 DEF Bind
  <2>2. \A j \in DOMAIN orb[k] :
           orb[k][j] \in DOMAIN rb_attr /\ orb[k][j] \in DOMAIN drawn
      BY <2>1, HeldListRecorded
  <2> QED
      BY <2>1, <2>2, <1>0 DEF BoundRecorded, Recorded, Put
<1>2. ASSUME UNCHANGED gh_attr PROVE BoundRecorded'
    BY <1>2, <1>0 DEF BoundRecorded, Recorded
<1>3. ASSUME NEW k \in Workers, DoWope(k), ~Bind(k) PROVE UNCHANGED gh_attr
    BY <1>3 DEF DoWope, Take, ReadBase, DeleteBlock, NewBlock, PutBlockAttr,
       EditPastEnd, EndEdits, ReadCount, WriteCount, TellJournal, RequeueOnJournal,
       ReadTarget, CopyBlock, CopyFails, RequeueOnDisk, TellDisk, kv
<1>4. ASSUME NEW r \in Reads, Ask(r) \/ DoRope(r) PROVE UNCHANGED gh_attr
    BY <1>4 DEF Ask, DoRope, ReadSerials, ReadBlock, ReadPastEnd, Answer, kv
<1>5. ASSUME \/ \E w \in Writes : Submit(w)
             \/ Dispatch \/ CrashRestart \/ UNCHANGED vars
      PROVE  UNCHANGED gh_attr
    BY <1>5 DEF Submit, Dispatch, CrashRestart, vars, kv
<1> QED
    BY <1>1, <1>2, <1>3, <1>4, <1>5 DEF Next

\* Every step keeps told clients' versions bound: Bind comes before the reply.
LEMMA ToldStep ==
    ASSUME JournalInv, [Next]_vars
    PROVE  ToldBound'
<1> USE DEF JournalInv, TypeOK
<1>0. DOMAIN gh_attr \subseteq DOMAIN gh_attr'
    BY DomainsGrow
<1>1. ASSUME NEW k \in Workers, Bind(k) PROVE ToldBound'
  <2>1. /\ Target[cur[k]] \in DOMAIN gh_attr' /\ told' = told /\ cur' = cur
        /\ pc' = [pc EXCEPT ![k] = "tellJournal"]
      BY <1>1 DEF Bind, Put, Goto, client
  <2> QED
      BY <2>1, <1>0 DEF ToldBound, WorkerType
<1>2. ASSUME NEW k \in Workers, TellJournal(k) PROVE ToldBound'
  <2>1. /\ cur' = cur /\ pc' = [pc EXCEPT ![k] = "requeue"]
        /\ told' \in {told, [told EXCEPT ![cur[k]] = @ \cup {"onJournal"}]}
        /\ Target[cur[k]] \in DOMAIN gh_attr
      BY <1>2 DEF TellJournal, Goto, Tell, ToldBound
  <2> QED
      BY <2>1, <1>0 DEF ToldBound, WorkerType, ClientType
<1>3. ASSUME NEW k \in Workers, TellDisk(k) PROVE ToldBound'
  <2>1. /\ cur' = [cur EXCEPT ![k] = NoWrite] /\ pc' = [pc EXCEPT ![k] = "idle"]
        /\ told' \in {told, [told EXCEPT ![cur[k]] = @ \cup {"onDisk"}]}
      BY <1>3 DEF TellDisk, Finish, Goto, Tell
  <2>2. \A w \in Writes : "onJournal" \in told'[w] => "onJournal" \in told[w]
      BY <2>1 DEF ClientType
  <2>3. \A l \in Workers : pc'[l] = "tellJournal" => pc[l] = "tellJournal" /\ cur'[l] = cur[l]
      BY <2>1 DEF WorkerType
  <2> QED
      BY <2>2, <2>3, <1>0 DEF ToldBound
<1>4. ASSUME NEW k \in Workers, Take(k) \/ RequeueOnJournal(k) \/ RequeueOnDisk(k)
      PROVE  ToldBound'
  <2>1. /\ told' = told /\ \E w : cur' = [cur EXCEPT ![k] = w]
        /\ \E label \in Label \ {"tellJournal"} : pc' = [pc EXCEPT ![k] = label]
    <3>1. CASE Take(k)
      <4>1. Head(jobs) \in WopeLog
          BY <3>1, HeadTailProperties DEF Take, QueueType
      <4>2. PICK label \in {"base", "target", "tellDisk"} : Goto(k, label, <<>>, 1, 0)
          BY <3>1, <4>1 DEF Take, WopeLog, Stage
      <4> QED
          BY <3>1, <4>2 DEF Take, Goto, Label, client
    <3>2. CASE RequeueOnJournal(k) \/ RequeueOnDisk(k)
        BY <3>2 DEF RequeueOnJournal, RequeueOnDisk, Finish, Goto, Label, client
    <3> QED
        BY <1>4, <3>1, <3>2
  <2> QED
      BY <2>1, <1>0 DEF ToldBound, WorkerType
<1>5. ASSUME NEW k \in Workers,
             \/ ReadBase(k) \/ DeleteBlock(k) \/ NewBlock(k) \/ PutBlockAttr(k)
             \/ EndEdits(k) \/ ReadCount(k) \/ WriteCount(k)
             \/ ReadTarget(k) \/ CopyBlock(k) \/ CopyFails(k)
      PROVE  ToldBound'
  <2>1. /\ told' = told /\ cur' = cur
        /\ \E label \in Label \ {"tellJournal"} : pc' = [pc EXCEPT ![k] = label]
      BY <1>5 DEF ReadBase, DeleteBlock, NewBlock, PutBlockAttr, EndEdits, ReadCount,
         WriteCount, ReadTarget, CopyBlock, CopyFails, Goto, Label, client
  <2> QED
      BY <2>1, <1>0 DEF ToldBound, WorkerType
<1>6. ASSUME UNCHANGED <<told, pc, cur>> PROVE ToldBound'
    BY <1>6, <1>0 DEF ToldBound
<1>7. ASSUME NEW k \in Workers, EditPastEnd(k) PROVE UNCHANGED <<told, pc, cur>>
    BY <1>7 DEF EditPastEnd, client, locals
<1>8. ASSUME NEW r \in Reads, Ask(r) \/ DoRope(r) PROVE UNCHANGED <<told, pc, cur>>
    BY <1>8 DEF Ask, DoRope, ReadSerials, ReadBlock, ReadPastEnd, Answer, client, locals
<1>9. ASSUME (\E w \in Writes : Submit(w)) \/ Dispatch \/ UNCHANGED vars
      PROVE  UNCHANGED <<told, pc, cur>>
    BY <1>9 DEF Submit, Dispatch, vars, client, locals
<1>10. ASSUME CrashRestart PROVE ToldBound'
    BY <1>10, <1>0 DEF CrashRestart, ToldBound, client
<1> QED
    BY <1>1, <1>2, <1>3, <1>4, <1>5, <1>6, <1>7, <1>8, <1>9, <1>10 DEF Next, DoWope

\* Only NewBlock and CopyBlock touch files.
LEMMA FilesAside ==
    ASSUME [Next]_vars, \A k \in Workers : ~NewBlock(k) /\ ~CopyBlock(k)
    PROVE  UNCHANGED <<files, clock>>
<1>1. ASSUME NEW k \in Workers, DoWope(k), ~NewBlock(k), ~CopyBlock(k)
      PROVE  UNCHANGED <<files, clock>>
    BY <1>1 DEF DoWope, Take, ReadBase, DeleteBlock, PutBlockAttr,
       EditPastEnd, EndEdits, ReadCount, WriteCount, Bind, TellJournal,
       RequeueOnJournal, ReadTarget, CopyFails, RequeueOnDisk, TellDisk
<1>2. ASSUME NEW r \in Reads, Ask(r) \/ DoRope(r) PROVE UNCHANGED <<files, clock>>
    BY <1>2 DEF Ask, DoRope, ReadSerials, ReadBlock, ReadPastEnd, Answer
<1>3. ASSUME \/ \E w \in Writes : Submit(w)
             \/ Dispatch \/ CrashRestart \/ UNCHANGED vars
      PROVE  UNCHANGED <<files, clock>>
    BY <1>3 DEF Submit, Dispatch, CrashRestart, vars
<1> QED
    BY <1>1, <1>2, <1>3 DEF Next

\* A new block's file goes to its own serial, and a copy takes the data along.
LEMMA DrawnStep ==
    ASSUME TypeOK, FilesDrawn, [Next]_vars
    PROVE  FilesDrawn'
<1>1. ASSUME NEW k \in Workers, NewBlock(k) PROVE FilesDrawn'
  <2>1. PICK block, c : block = <<cur[k], idx[k]>> /\ c = clock
      OBVIOUS
  <2>2. WriteBlock(c, block) /\ disk_rb' = disk_rb
      BY <1>1, <2>1 DEF NewBlock
  <2>3. block # Torn
      BY <2>1 DEF Torn
  <2>4. PICK outcome : /\ outcome = {block} \/ outcome = {block, Torn}
                       /\ Draw(c, outcome)
                       /\ outcome = {block} => journal_rb' = Put(journal_rb, c, block)
      BY <2>2, <2>3 DEF WriteBlock
  <2>5. journal_rb' = journal_rb \/ \E data : journal_rb' = Put(journal_rb, c, data)
      BY <2>2 DEF WriteBlock
  <2>6. /\ DOMAIN drawn' = DOMAIN drawn \cup {c}
        /\ \A s \in DOMAIN drawn : s # c => drawn'[s] = drawn[s]
        /\ drawn'[c] = outcome \cup IF c \in DOMAIN drawn THEN drawn[c] ELSE {}
      BY <2>4 DEF Draw, Put
  <2>7. /\ DOMAIN journal_rb \subseteq DOMAIN journal_rb'
        /\ DOMAIN journal_rb' \subseteq DOMAIN journal_rb \cup {c}
        /\ \A s \in DOMAIN journal_rb : s # c => journal_rb'[s] = journal_rb[s]
        /\ outcome = {block} => c \in DOMAIN journal_rb' /\ journal_rb'[c] = block
      BY <2>4, <2>5 DEF Put
  <2>8. ASSUME NEW s \in DOMAIN drawn, s # c PROVE DrawnAt(s)'
    <3>1. drawn'[s] = drawn[s] /\ disk_rb' = disk_rb /\ DrawnAt(s)
        BY <2>2, <2>6, <2>8 DEF FilesDrawn
    <3>2. CASE s \in DOMAIN journal_rb
      <4>1. s \in DOMAIN journal_rb' /\ journal_rb'[s] = journal_rb[s]
          BY <2>7, <2>8, <3>2
      <4> QED
          BY <3>1, <4>1 DEF DrawnAt, DrawnOnce
    <3>3. CASE s \notin DOMAIN journal_rb
      <4>1. Torn \in drawn[s] /\ drawn[s] # {Torn}
          BY <3>1, <3>3 DEF DrawnAt
      <4>2. ASSUME NEW b, drawn[s] = {b} PROVE FALSE
          BY <4>1, <4>2
      <4> QED
          BY <3>1, <4>1, <4>2 DEF DrawnAt, DrawnOnce
    <3> QED
        BY <3>2, <3>3
  <2>9. DrawnAt(c)'
    <3>0. block \in drawn'[c] /\ drawn'[c] # {Torn}
        BY <2>3, <2>4, <2>6
    <3>1. CASE outcome = {block, Torn}
      <4>1. Torn \in drawn'[c]
          BY <2>6, <3>1
      <4>2. ASSUME NEW b, drawn'[c] = {b} PROVE FALSE
          BY <2>3, <3>0, <4>1, <4>2
      <4> QED
          BY <3>0, <4>1, <4>2 DEF DrawnAt, DrawnOnce
    <3>2. CASE outcome = {block}
      <4>1. ASSUME NEW b, drawn'[c] = {b}
            PROVE  b = block /\ (c \in DOMAIN disk_rb => disk_rb[c] = b)
        <5>1. b = block
            BY <3>0, <4>1
        <5>2. c \in DOMAIN disk_rb => c \in DOMAIN drawn /\ DrawnAt(c)
            BY DEF FilesDrawn
        <5>3. c \in DOMAIN drawn /\ DrawnAt(c) => drawn[c] = {b}
            BY <2>6, <3>2, <4>1, <5>1 DEF DrawnAt
        <5> QED
            BY <5>1, <5>2, <5>3 DEF DrawnAt, DrawnOnce
      <4> QED
          BY <2>2, <2>7, <3>0, <3>2, <4>1 DEF DrawnAt, DrawnOnce
    <3> QED
        BY <2>4, <3>1, <3>2
  <2>10. /\ DOMAIN disk_rb' \subseteq DOMAIN journal_rb'
         /\ DOMAIN journal_rb' \subseteq DOMAIN drawn'
      BY <2>2, <2>6, <2>7 DEF FilesDrawn
  <2>11. \A s \in DOMAIN drawn' : DrawnAt(s)'
      BY <2>6, <2>8, <2>9
  <2> QED
      BY <2>10, <2>11 DEF FilesDrawn
<1>2. ASSUME NEW k \in Workers, CopyBlock(k) PROVE FilesDrawn'
  <2>1. journal_rb' = journal_rb /\ drawn' = drawn
      BY <1>2 DEF CopyBlock
  <2>2. CASE disk_rb' = disk_rb
      BY <2>1, <2>2 DEF FilesDrawn, DrawnAt, DrawnOnce
  <2>3. CASE \E s \in DOMAIN journal_rb : disk_rb' = Put(disk_rb, s, journal_rb[s])
    <3>1. PICK s \in DOMAIN journal_rb : disk_rb' = Put(disk_rb, s, journal_rb[s])
        BY <2>3
    <3>2. /\ DOMAIN disk_rb' = DOMAIN disk_rb \cup {s} /\ disk_rb'[s] = journal_rb[s]
          /\ \A t \in DOMAIN disk_rb : t # s => disk_rb'[t] = disk_rb[t]
        BY <3>1 DEF Put
    <3> QED
        BY <2>1, <3>2 DEF FilesDrawn, DrawnAt, DrawnOnce
  <2> QED
      BY <1>2, <2>2, <2>3 DEF CopyBlock
<1>3. ASSUME UNCHANGED <<files, clock>> PROVE FilesDrawn'
    BY <1>3 DEF FilesDrawn, DrawnAt, DrawnOnce, files
<1> QED
    BY <1>1, <1>2, <1>3, FilesAside

\* The inductive invariant holds in every reachable state.
LEMMA JournalInvariant == Spec => []JournalInv
<1>1. Init => JournalInv
  <2> SUFFICES ASSUME Init PROVE JournalInv
      OBVIOUS
  <2>1. FilesDrawn /\ BoundRecorded /\ ListsRecorded /\ ToldBound
      BY DEF Init, FilesDrawn, BoundRecorded, ListsRecorded, ToldBound
  <2> QED
      BY <2>1, TypeInit DEF JournalInv
<1>2. JournalInv /\ [Next]_vars => JournalInv'
    BY TypeStep, DrawnStep, ListsStep, BoundStep, ToldStep DEF JournalInv
<1> QED
    BY <1>1, <1>2, PTL DEF Spec

\* What JournalInv says of the files makes recorded blocks stored ones.
LEMMA RecordedStored ==
    ASSUME JournalInv
    PROVE  BoundBlocksStored
BY DEF JournalInv, BoundRecorded, Recorded, FilesDrawn, DrawnAt, DrawnOnce, BoundBlocksStored, Stored

\* Every block of a bound version has its record and, but for a WriteFile whose
\* failure the code drops, a journal file, which is the block's own unless the
\* clock gave its serial twice; at any time, whichever worker was interrupted
\* where: do_WOPE makes blocks before it binds the version that lists them.
THEOREM BoundBlocksAlwaysStored == Spec => []BoundBlocksStored
<1>1. JournalInv => BoundBlocksStored
    BY RecordedStored
<1> QED
    BY <1>1, JournalInvariant, PTL

\* A client that was told onJournal keeps its version through any number of
\* crashes: bound, with every block recorded, and stored unless writing its file
\* failed or its serial was given twice.
THEOREM JournalAckAlwaysSurvives == Spec => []JournalAckSurvives
<1>1. JournalInv => JournalAckSurvives
    BY RecordedStored DEF JournalInv, BoundBlocksStored, ToldBound, JournalAckSurvives
<1> QED
    BY <1>1, JournalInvariant, PTL

----------------------------------------------------------------------------
(* Block files, when each block has a serial of its own and its file is      *)
(* written.                                                                  *)

\* A new serial is above all the others.
SerialsFresh == \A s \in DOMAIN drawn : s < clock

\* Each serial has its file, and files under the disk root are copies.
FilesFresh ==
    /\ SerialsFresh /\ DOMAIN journal_rb = DOMAIN drawn
    /\ \A s \in DOMAIN disk_rb : s \in DOMAIN journal_rb /\ disk_rb[s] = journal_rb[s]

\* No file is rewritten with other data, under either root.
BlocksKept ==
    /\ \A s \in DOMAIN journal_rb : s \in DOMAIN journal_rb' /\ journal_rb'[s] = journal_rb[s]
    /\ \A s \in DOMAIN disk_rb : s \in DOMAIN disk_rb' /\ disk_rb'[s] = disk_rb[s]

LEMMA SerialsFreshStep ==
    ASSUME TickPerBlock, TypeOK, SerialsFresh, [Next]_vars
    PROVE  SerialsFresh'
<1>1. ASSUME NEW k \in Workers, NewBlock(k) PROVE SerialsFresh'
  <2>1. clock' = clock + 1 /\ clock \in Nat /\ DOMAIN drawn \subseteq Nat
      BY <1>1 DEF NewBlock, TypeOK, StoreType
  <2>2. DOMAIN drawn' = DOMAIN drawn \cup {clock}
      BY <1>1 DEF NewBlock, WriteBlock, Draw, Put
  <2> QED
      BY <2>1, <2>2 DEF SerialsFresh
<1>2. ASSUME NEW k \in Workers, CopyBlock(k) PROVE SerialsFresh'
    BY <1>2 DEF CopyBlock, SerialsFresh
<1>3. ASSUME UNCHANGED <<files, clock>> PROVE SerialsFresh'
    BY <1>3 DEF SerialsFresh, files
<1> QED
    BY <1>1, <1>2, <1>3, FilesAside

\* A step adds at most one file, and under a name that is not in use or with
\* the data it already has.
LEMMA FilesStep ==
    ASSUME TickPerBlock, ~WriteMayFail, TypeOK, FilesFresh, [Next]_vars
    PROVE  FilesFresh' /\ BlocksKept
<1>0. SerialsFresh'
    BY SerialsFreshStep DEF FilesFresh
<1>1. ASSUME NEW k \in Workers, NewBlock(k) PROVE FilesFresh' /\ BlocksKept
  <2>0. PICK block : journal_rb' = Put(journal_rb, clock, block) /\ Draw(clock, {block})
      BY <1>1 DEF NewBlock, WriteBlock
  <2>1. disk_rb' = disk_rb
      BY <1>1 DEF NewBlock
  <2>2. clock \notin DOMAIN journal_rb
      BY DEF TypeOK, StoreType, FilesFresh, SerialsFresh
  <2>3. /\ DOMAIN journal_rb' = DOMAIN journal_rb \cup {clock}
        /\ DOMAIN drawn' = DOMAIN drawn \cup {clock}
        /\ \A s \in DOMAIN journal_rb : journal_rb'[s] = journal_rb[s]
      BY <2>0, <2>2 DEF Put, Draw
  <2> QED
      BY <1>0, <2>1, <2>2, <2>3 DEF FilesFresh, BlocksKept
<1>2. ASSUME NEW k \in Workers, CopyBlock(k) PROVE FilesFresh' /\ BlocksKept
  <2>1. journal_rb' = journal_rb /\ drawn' = drawn
      BY <1>2 DEF CopyBlock
  <2>2. CASE disk_rb' = disk_rb
      BY <1>0, <2>1, <2>2 DEF FilesFresh, BlocksKept
  <2>3. CASE \E s \in DOMAIN journal_rb : disk_rb' = Put(disk_rb, s, journal_rb[s])
      BY <1>0, <2>1, <2>3 DEF FilesFresh, BlocksKept, Put
  <2> QED
      BY <1>2, <2>2, <2>3 DEF CopyBlock
<1>3. ASSUME UNCHANGED <<files, clock>> PROVE FilesFresh' /\ BlocksKept
    BY <1>0, <1>3 DEF FilesFresh, BlocksKept, files
<1> QED
    BY <1>1, <1>2, <1>3, FilesAside

----------------------------------------------------------------------------
(* A write has one log, and its stages come in order. *)

\* Each write makes a version of its own.
OneTarget == \A w1, w2 \in Writes : Target[w1] = Target[w2] => w1 = w2

\* The labels of stage init before the target is bound, and the ones after.
BeforeBind == {"base", "edit", "attr", "count", "bump"}
AfterBind  == {"tellJournal", "requeue", "target", "copy", "tellDisk"}

\* A write is submitted once, and its log is in the queue, in the pool, with a
\* worker, or nowhere: it is done, or a crash has forgotten it.
OneLogEach ==
    /\ \A i \in DOMAIN wope_logs : wope_logs[i].id \in submitted
    /\ \A i \in DOMAIN jobs : jobs[i].id \in submitted
    /\ \A k \in Workers : IF pc[k] = "idle" THEN cur[k] = NoWrite ELSE cur[k] \in submitted
    /\ \A i, j \in DOMAIN wope_logs : wope_logs[i].id = wope_logs[j].id => i = j
    /\ \A i, j \in DOMAIN jobs : jobs[i].id = jobs[j].id => i = j
    /\ \A i \in DOMAIN wope_logs, j \in DOMAIN jobs : wope_logs[i].id # jobs[j].id
    /\ \A k \in Workers, i \in DOMAIN wope_logs : cur[k] # wope_logs[i].id
    /\ \A k \in Workers, i \in DOMAIN jobs : cur[k] # jobs[i].id
    /\ \A k, l \in Workers : cur[k] = cur[l] /\ cur[k] # NoWrite => k = l

\* The target is bound exactly when stage init of the write has come that far,
\* and a bound version is the target of a write that was submitted.
LogInOrder(log) == log.state = "init" <=> Target[log.id] \notin DOMAIN gh_attr
StagesInOrder ==
    /\ \A i \in DOMAIN wope_logs : LogInOrder(wope_logs[i])
    /\ \A i \in DOMAIN jobs : LogInOrder(jobs[i])
    /\ \A k \in Workers : pc[k] \in BeforeBind => Target[cur[k]] \notin DOMAIN gh_attr
    /\ \A k \in Workers : pc[k] \in AfterBind => Target[cur[k]] \in DOMAIN gh_attr
    /\ \A v \in DOMAIN gh_attr : \E w \in submitted : Target[w] = v
OrderInv == JournalInv /\ OneLogEach /\ StagesInOrder

\* A version that is bound stays bound, to the same list.
VersionsKept ==
    \A v \in DOMAIN gh_attr : v \in DOMAIN gh_attr' /\ gh_attr'[v] = gh_attr[v]
VersionsImmutable == [][VersionsKept]_vars

\* What a worker's step that keeps its operation does to it.
Stays(k) ==
    /\ pc[k] # "idle" /\ UNCHANGED <<cur, wope_logs, jobs, submitted>>
    /\ \E label \in Label \ {"idle"} : pc' = [pc EXCEPT ![k] = label]

\* The steps of a worker that keep its operation, by what comes after them.
Builds(k) ==
    \/ ReadBase(k) \/ DeleteBlock(k) \/ NewBlock(k) \/ PutBlockAttr(k)
    \/ EndEdits(k) \/ ReadCount(k) \/ WriteCount(k)
Copies(k) == TellJournal(k) \/ ReadTarget(k) \/ CopyBlock(k) \/ CopyFails(k)
Leaves(k) == RequeueOnJournal(k) \/ RequeueOnDisk(k) \/ TellDisk(k)

\* The steps of a worker, by kind.
LEMMA WorkerSteps ==
    ASSUME NEW k \in Workers, DoWope(k)
    PROVE  Take(k) \/ Builds(k) \/ EditPastEnd(k) \/ Bind(k) \/ Copies(k) \/ Leaves(k)
BY DEF DoWope, Builds, Copies, Leaves

\* What the steps that keep their operation leave alone.
LEMMA BuildsStay ==
    ASSUME NEW k \in Workers, Builds(k)
    PROVE  /\ Stays(k) /\ UNCHANGED <<gh_attr, told>>
           /\ pc[k] \in BeforeBind
           /\ \E label \in BeforeBind : pc' = [pc EXCEPT ![k] = label]
<1> USE DEF Builds
<1>1. pc[k] \in BeforeBind
    BY DEF ReadBase, DeleteBlock, NewBlock, PutBlockAttr, EndEdits, ReadCount,
       WriteCount, Editing, BeforeBind
<1>2. \E label \in BeforeBind : pc' = [pc EXCEPT ![k] = label]
    BY DEF ReadBase, DeleteBlock, NewBlock, PutBlockAttr, EndEdits, ReadCount,
       WriteCount, BeforeBind, Goto
<1>3. UNCHANGED <<cur, wope_logs, jobs, submitted, gh_attr, told>>
    BY DEF ReadBase, DeleteBlock, NewBlock, PutBlockAttr, EndEdits, ReadCount,
       WriteCount, queues, client, kv
<1> QED
    BY <1>1, <1>2, <1>3 DEF Stays, BeforeBind, Label

LEMMA CopiesStay ==
    ASSUME NEW k \in Workers, Copies(k)
    PROVE  /\ Stays(k) /\ UNCHANGED gh_attr
           /\ pc[k] \in AfterBind
           /\ \E label \in AfterBind : pc' = [pc EXCEPT ![k] = label]
<1> USE DEF Copies
<1>1. pc[k] \in AfterBind
    BY DEF TellJournal, ReadTarget, CopyBlock, CopyFails, Copying, AfterBind
<1>2. \E label \in AfterBind : pc' = [pc EXCEPT ![k] = label]
    BY DEF TellJournal, ReadTarget, CopyBlock, CopyFails, AfterBind, Goto
<1>3. UNCHANGED <<cur, wope_logs, jobs, submitted, gh_attr>>
    BY DEF TellJournal, ReadTarget, CopyBlock, CopyFails, queues, client, kv
<1> QED
    BY <1>1, <1>2, <1>3 DEF Stays, AfterBind, Label

\* A read changes nothing of the pipeline.
LEMMA ReadsAside ==
    ASSUME NEW r \in Reads, Ask(r) \/ DoRope(r)
    PROVE  UNCHANGED <<kv, files, clock, queues, locals, client>>
BY DEF Ask, DoRope, ReadSerials, ReadBlock, ReadPastEnd, Answer

----------------------------------------------------------------------------
\* A step that leaves the logs where they are keeps them apart.
LEMMA StaysApart ==
    ASSUME OneLogEach, NEW k \in Workers, Stays(k), pc \in [Workers -> Label]
    PROVE  OneLogEach'
<1>1. \A l \in Workers : pc'[l] = "idle" <=> pc[l] = "idle"
    BY DEF Stays
<1> QED
    BY <1>1 DEF OneLogEach, Stays

\* Every step keeps the logs apart.
LEMMA OneLogStep ==
    ASSUME TypeOK, OneLogEach, [Next]_vars
    PROVE  OneLogEach'
<1>0. /\ wope_logs \in Seq(WopeLog) /\ jobs \in Seq(WopeLog)
      /\ submitted \subseteq Writes /\ NoWrite \notin Writes
      /\ pc \in [Workers -> Label] /\ cur \in [Workers -> Writes \cup {NoWrite}]
    BY PipelineAssumption DEF TypeOK, QueueType, ClientType, WorkerType
<1>1. ASSUME NEW w \in Writes, Submit(w) PROVE OneLogEach'
  <2> DEFINE log == [id |-> w, state |-> "init"]
  <2>1. /\ log \in WopeLog /\ log.id = w
        /\ wope_logs' = Append(wope_logs, log) /\ w \notin submitted
        /\ submitted' = submitted \cup {w} /\ UNCHANGED <<jobs, pc, cur>>
      BY <1>1 DEF Submit, WopeLog, Stage, locals
  <2> HIDE DEF log
  <2>2. /\ DOMAIN wope_logs' = DOMAIN wope_logs \cup {Len(wope_logs) + 1}
        /\ Len(wope_logs) + 1 \notin DOMAIN wope_logs
        /\ \A i \in DOMAIN wope_logs : wope_logs'[i] = wope_logs[i]
        /\ wope_logs'[Len(wope_logs) + 1] = log
      BY <2>1, <1>0, AppendIndices
  <2>3. \A k \in Workers : cur[k] # w
      BY <2>1, <1>0 DEF OneLogEach
  <2> QED
      BY <2>1, <2>2, <2>3 DEF OneLogEach
<1>2. ASSUME Dispatch PROVE OneLogEach'
  <2>1. /\ jobs' = jobs \o wope_logs /\ wope_logs' = <<>>
        /\ UNCHANGED <<submitted, pc, cur>>
      BY <1>2 DEF Dispatch, locals, client
  <2>2. \A i \in DOMAIN jobs' :
           /\ i \in DOMAIN jobs => jobs'[i] = jobs[i]
           /\ i \notin DOMAIN jobs =>
                 i - Len(jobs) \in DOMAIN wope_logs /\ jobs'[i] = wope_logs[i - Len(jobs)]
           /\ i \in Nat /\ Len(jobs) \in Nat
      BY <2>1, <1>0, ConcatIndices
  <2>3. \A i \in DOMAIN jobs' : jobs'[i].id \in submitted
      BY <2>2 DEF OneLogEach
  <2>4. \A k \in Workers, i \in DOMAIN jobs' : cur[k] # jobs'[i].id
      BY <2>2 DEF OneLogEach
  <2>5. ASSUME NEW i \in DOMAIN jobs', NEW j \in DOMAIN jobs', jobs'[i].id = jobs'[j].id
        PROVE  i = j
    <3>1. CASE i \in DOMAIN jobs /\ j \in DOMAIN jobs
        BY <3>1, <2>2, <2>5 DEF OneLogEach
    <3>2. CASE i \notin DOMAIN jobs /\ j \notin DOMAIN jobs
      <4>1. i - Len(jobs) = j - Len(jobs)
          BY <3>2, <2>2, <2>5 DEF OneLogEach
      <4> QED
          BY <4>1, <2>2
    <3>3. CASE (i \in DOMAIN jobs) # (j \in DOMAIN jobs)
        BY <3>3, <2>2, <2>5 DEF OneLogEach
    <3> QED
        BY <3>1, <3>2, <3>3
  <2> QED
      BY <2>1, <2>3, <2>4, <2>5 DEF OneLogEach
<1>3. ASSUME NEW k \in Workers, Take(k) PROVE OneLogEach'
  <2>1. /\ jobs # <<>> /\ jobs' = Tail(jobs) /\ pc[k] = "idle"
        /\ cur' = [cur EXCEPT ![k] = Head(jobs).id]
        /\ UNCHANGED <<wope_logs, submitted>>
      BY <1>3 DEF Take, client
  <2>2. /\ 1 \in DOMAIN jobs /\ Head(jobs) = jobs[1]
        /\ \A i \in DOMAIN jobs' :
              i + 1 \in DOMAIN jobs /\ jobs'[i] = jobs[i + 1] /\ i \in Nat /\ i + 1 # 1
      BY <2>1, <1>0, TailIndices
  <2>3. jobs[1].id \in submitted /\ jobs[1].id # NoWrite /\ jobs[1] \in WopeLog
      BY <2>2, <1>0 DEF OneLogEach
  <2>4. \E label \in Label \ {"idle"} : pc' = [pc EXCEPT ![k] = label]
      BY <1>3, <2>2, <2>3 DEF Take, Goto, WopeLog, Stage, Label
  <2>5. \A i \in DOMAIN jobs' : jobs'[i].id # jobs[1].id
      BY <2>2 DEF OneLogEach
  <2>6. \A i, j \in DOMAIN jobs' : jobs'[i].id = jobs'[j].id => i = j
    <3>1. \A i, j \in DOMAIN jobs' : jobs'[i].id = jobs'[j].id => i + 1 = j + 1
        BY <2>2 DEF OneLogEach
    <3> QED
        BY <3>1, <2>2
  <2>7. \A i \in DOMAIN jobs' : \E j \in DOMAIN jobs : jobs'[i] = jobs[j]
      BY <2>2
  <2> QED
      BY <2>1, <2>2, <2>3, <2>4, <2>5, <2>6, <2>7, <1>0 DEF OneLogEach
<1>4. ASSUME NEW k \in Workers, Leaves(k) PROVE OneLogEach'
  <2>1. /\ pc' = [pc EXCEPT ![k] = "idle"] /\ cur' = [cur EXCEPT ![k] = NoWrite]
        /\ UNCHANGED <<jobs, submitted>>
        /\ cur[k] \in Writes /\ cur[k] \in submitted
    <3>1. pc[k] # "idle"
        BY <1>4 DEF Leaves, RequeueOnJournal, RequeueOnDisk, TellDisk
    <3> QED
        BY <1>4, <3>1, <1>0 DEF Leaves, RequeueOnJournal, RequeueOnDisk, TellDisk, Finish,
           Goto, queues, client, OneLogEach
  <2>2. CASE wope_logs' = wope_logs
      BY <2>1, <2>2, <1>0 DEF OneLogEach
  <2>3. CASE \E st \in Stage : Requeue(k, st)
    <3>0. PICK log \in WopeLog : log.id = cur[k] /\ wope_logs' = Append(wope_logs, log)
        BY <2>1, <2>3 DEF Requeue, WopeLog
    <3>1. /\ DOMAIN wope_logs' = DOMAIN wope_logs \cup {Len(wope_logs) + 1}
          /\ Len(wope_logs) + 1 \notin DOMAIN wope_logs
          /\ \A i \in DOMAIN wope_logs : wope_logs'[i] = wope_logs[i]
          /\ wope_logs'[Len(wope_logs) + 1] = log
        BY <3>0, <1>0, AppendIndices
    <3>2. \A i \in DOMAIN wope_logs : wope_logs[i].id # cur[k]
        BY DEF OneLogEach
    <3>3. \A i \in DOMAIN jobs : jobs[i].id # cur[k]
        BY DEF OneLogEach
    <3>4. \A l \in Workers : l # k => cur[l] # cur[k]
        BY <2>1, <1>0 DEF OneLogEach
    <3> QED
        BY <2>1, <3>0, <3>1, <3>2, <3>3, <3>4, <1>0 DEF OneLogEach
  <2> QED
      BY <1>4, <2>2, <2>3 DEF Leaves, RequeueOnJournal, RequeueOnDisk, TellDisk, queues, Stage
<1>5. ASSUME NEW k \in Workers, Builds(k) \/ Bind(k) \/ Copies(k) PROVE OneLogEach'
  <2>1. CASE Bind(k)
    <3>1. Stays(k)
        BY <2>1 DEF Bind, Stays, Goto, Label, queues, client
    <3> QED
        BY <3>1, <1>0, StaysApart
  <2> QED
      BY <1>5, <2>1, <1>0, BuildsStay, CopiesStay, StaysApart
<1>6. ASSUME UNCHANGED <<wope_logs, jobs, pc, cur, submitted>> PROVE OneLogEach'
    BY <1>6 DEF OneLogEach
<1>7. ASSUME NEW k \in Workers, EditPastEnd(k) PROVE OneLogEach'
    BY <1>6, <1>7 DEF EditPastEnd, queues, locals, client
<1>8. ASSUME NEW r \in Reads, Ask(r) \/ DoRope(r) PROVE OneLogEach'
    BY <1>6, <1>8, ReadsAside DEF queues, locals, client
<1>9. ASSUME CrashRestart PROVE OneLogEach'
    BY <1>9, <1>0 DEF CrashRestart, OneLogEach, client
<1>10. ASSUME UNCHANGED vars PROVE OneLogEach'
    BY <1>6, <1>10 DEF vars, queues, locals, client
<1> QED
    BY <1>1, <1>2, <1>3, <1>4, <1>5, <1>7, <1>8, <1>9, <1>10, WorkerSteps DEF Next

\* Only Bind binds, and only what is not bound yet.
LEMMA OnlyBindBinds ==
    ASSUME [Next]_vars, \A k \in Workers : ~Bind(k)
    PROVE  UNCHANGED gh_attr
<1>1. ASSUME NEW k \in Workers, DoWope(k) PROVE UNCHANGED gh_attr
  <2>1. CASE Take(k) \/ EditPastEnd(k) \/ Leaves(k)
      BY <2>1 DEF Take, EditPastEnd, Leaves, RequeueOnJournal, RequeueOnDisk, TellDisk, kv
  <2> QED
      BY <1>1, <2>1, WorkerSteps, BuildsStay, CopiesStay
<1>2. ASSUME NEW r \in Reads, Ask(r) \/ DoRope(r) PROVE UNCHANGED gh_attr
    BY <1>2, ReadsAside DEF kv
<1>3. ASSUME \/ \E w \in Writes : Submit(w)
             \/ Dispatch \/ CrashRestart \/ UNCHANGED vars
      PROVE  UNCHANGED gh_attr
    BY <1>3 DEF Submit, Dispatch, CrashRestart, vars, kv
<1> QED
    BY <1>1, <1>2, <1>3 DEF Next

\* Bind adds the target's list to the bound ones.
LEMMA BindAdds ==
    ASSUME OrderInv, NEW k \in Workers, Bind(k)
    PROVE  /\ cur[k] \in Writes /\ cur[k] \in submitted
           /\ Target[cur[k]] \notin DOMAIN gh_attr
           /\ DOMAIN gh_attr' = DOMAIN gh_attr \cup {Target[cur[k]]}
           /\ gh_attr'[Target[cur[k]]] = orb[k]
           /\ \A v \in DOMAIN gh_attr : gh_attr'[v] = gh_attr[v]
<1>1. pc[k] = "count" /\ gh_attr' = Put(gh_attr, Target[cur[k]], orb[k])
    BY DEF Bind
<1>2. cur[k] \in Writes /\ cur[k] \in submitted /\ Target[cur[k]] \notin DOMAIN gh_attr
    BY <1>1 DEF OrderInv, JournalInv, TypeOK, WorkerType, OneLogEach, StagesInOrder, BeforeBind
<1> QED
    BY <1>1, <1>2 DEF Put

\* Every step keeps the versions that are bound.
LEMMA VersionsStep ==
    ASSUME OrderInv, [Next]_vars
    PROVE  VersionsKept
<1>1. CASE \E k \in Workers : Bind(k)
    BY <1>1, BindAdds DEF VersionsKept
<1>2. CASE \A k \in Workers : ~Bind(k)
    BY <1>2, OnlyBindBinds DEF VersionsKept
<1> QED
    BY <1>1, <1>2

\* Every step keeps the stages in order: writes have targets of their own, so
\* a binding says nothing of the other logs.
LEMMA StagesStep ==
    ASSUME OneTarget, OrderInv, [Next]_vars
    PROVE  StagesInOrder'
<1>0. /\ wope_logs \in Seq(WopeLog) /\ jobs \in Seq(WopeLog)
      /\ submitted \subseteq Writes /\ NoWrite \notin Writes
      /\ pc \in [Workers -> Label] /\ cur \in [Workers -> Writes \cup {NoWrite}]
      /\ OneLogEach /\ StagesInOrder
    BY PipelineAssumption DEF OrderInv, JournalInv, TypeOK, QueueType, ClientType, WorkerType
<1>1. ASSUME NEW w \in Writes, Submit(w) PROVE StagesInOrder'
  <2> DEFINE log == [id |-> w, state |-> "init"]
  <2>1. /\ log \in WopeLog /\ log.id = w /\ log.state = "init"
        /\ wope_logs' = Append(wope_logs, log) /\ w \notin submitted
        /\ submitted' = submitted \cup {w} /\ UNCHANGED <<jobs, pc, cur, gh_attr>>
      BY <1>1 DEF Submit, WopeLog, Stage, locals, kv
  <2> HIDE DEF log
  <2>2. /\ DOMAIN wope_logs' = DOMAIN wope_logs \cup {Len(wope_logs) + 1}
        /\ \A i \in DOMAIN wope_logs : wope_logs'[i] = wope_logs[i]
        /\ wope_logs'[Len(wope_logs) + 1] = log
      BY <2>1, <1>0, AppendIndices
  <2>3. Target[w] \notin DOMAIN gh_attr
      BY <2>1, <1>0 DEF StagesInOrder, OneTarget
  <2> QED
      BY <2>1, <2>2, <2>3, <1>0 DEF StagesInOrder, LogInOrder
<1>2. ASSUME Dispatch PROVE StagesInOrder'
  <2>1. /\ jobs' = jobs \o wope_logs /\ wope_logs' = <<>>
        /\ UNCHANGED <<submitted, pc, cur, gh_attr>>
      BY <1>2 DEF Dispatch, locals, client, kv
  <2>2. \A i \in DOMAIN jobs' :
           \/ \E j \in DOMAIN jobs : jobs'[i] = jobs[j]
           \/ \E j \in DOMAIN wope_logs : jobs'[i] = wope_logs[j]
      BY <2>1, <1>0, ConcatIndices
  <2>3. \A i \in DOMAIN jobs' : LogInOrder(jobs'[i])
      BY <2>2, <1>0 DEF StagesInOrder
  <2> QED
      BY <2>1, <2>3, <1>0 DEF StagesInOrder, LogInOrder
<1>3. ASSUME NEW k \in Workers, Take(k) PROVE StagesInOrder'
  <2>1. /\ jobs # <<>> /\ jobs' = Tail(jobs)
        /\ cur' = [cur EXCEPT ![k] = Head(jobs).id]
        /\ UNCHANGED <<wope_logs, submitted, gh_attr>>
      BY <1>3 DEF Take, client, kv
  <2>2. /\ 1 \in DOMAIN jobs /\ Head(jobs) = jobs[1]
        /\ \A i \in DOMAIN jobs' : \E j \in DOMAIN jobs : jobs'[i] = jobs[j]
      BY <2>1, <1>0, TailIndices
  <2>3. /\ jobs[1] \in WopeLog /\ jobs[1].state \in Stage
        /\ jobs[1].state = "init" <=> Target[jobs[1].id] \notin DOMAIN gh_attr
    <3>1. jobs[1] \in WopeLog
        BY <2>2, <1>0
    <3>2. LogInOrder(jobs[1])
        BY <2>2, <1>0 DEF StagesInOrder
    <3> QED
        BY <3>1, <3>2 DEF WopeLog, LogInOrder
  <2>4. PICK label \in BeforeBind \cup AfterBind :
           /\ pc' = [pc EXCEPT ![k] = label]
           /\ label \in BeforeBind <=> jobs[1].state = "init"
    <3>1. PICK label \in {"base", "target", "tellDisk"} :
             /\ pc' = [pc EXCEPT ![k] = label]
             /\ label = "base" <=> jobs[1].state = "init"
        BY <1>3, <2>2, <2>3 DEF Take, Goto, Stage
    <3> QED
        BY <3>1 DEF BeforeBind, AfterBind
  <2>5. /\ pc'[k] \in BeforeBind => Target[cur'[k]] \notin DOMAIN gh_attr
        /\ pc'[k] \in AfterBind => Target[cur'[k]] \in DOMAIN gh_attr
      BY <2>1, <2>2, <2>3, <2>4, <1>0 DEF BeforeBind, AfterBind
  <2>6. ASSUME NEW l \in Workers, l # k
        PROVE  /\ pc'[l] \in BeforeBind => Target[cur'[l]] \notin DOMAIN gh_attr
               /\ pc'[l] \in AfterBind => Target[cur'[l]] \in DOMAIN gh_attr
      BY <2>1, <2>4, <2>6, <1>0 DEF StagesInOrder
  <2>7. \A i \in DOMAIN jobs' : LogInOrder(jobs'[i])
      BY <2>2, <1>0 DEF StagesInOrder
  <2> QED
      BY <2>1, <2>5, <2>6, <2>7, <1>0 DEF StagesInOrder, LogInOrder
<1>4. ASSUME NEW k \in Workers, Leaves(k) PROVE StagesInOrder'
  <2>1. /\ pc' = [pc EXCEPT ![k] = "idle"] /\ cur' = [cur EXCEPT ![k] = NoWrite]
        /\ UNCHANGED <<jobs, submitted, gh_attr>>
        /\ cur[k] \in Writes /\ Target[cur[k]] \in DOMAIN gh_attr
    <3>1. pc[k] \in AfterBind
        BY <1>4 DEF Leaves, RequeueOnJournal, RequeueOnDisk, TellDisk, AfterBind
    <3>2. cur[k] \in Writes /\ Target[cur[k]] \in DOMAIN gh_attr
        BY <3>1, <1>0 DEF StagesInOrder, AfterBind, OneLogEach
    <3> QED
        BY <1>4, <3>2 DEF Leaves, RequeueOnJournal, RequeueOnDisk, TellDisk, Finish,
           Goto, queues, client, kv
  <2>2. CASE wope_logs' = wope_logs
      BY <2>1, <2>2, <1>0 DEF StagesInOrder, LogInOrder, BeforeBind, AfterBind
  <2>3. CASE \E st \in Stage \ {"init"} : Requeue(k, st)
    <3>0. PICK log \in WopeLog :
             log.id = cur[k] /\ log.state # "init" /\ wope_logs' = Append(wope_logs, log)
        BY <2>1, <2>3 DEF Requeue, WopeLog
    <3>1. /\ DOMAIN wope_logs' = DOMAIN wope_logs \cup {Len(wope_logs) + 1}
          /\ \A i \in DOMAIN wope_logs : wope_logs'[i] = wope_logs[i]
          /\ wope_logs'[Len(wope_logs) + 1] = log
        BY <3>0, <1>0, AppendIndices
    <3> QED
        BY <2>1, <3>0, <3>1, <1>0 DEF StagesInOrder, LogInOrder, BeforeBind, AfterBind
  <2> QED
      BY <1>4, <2>2, <2>3 DEF Leaves, RequeueOnJournal, RequeueOnDisk, TellDisk, queues, Stage
<1>5. ASSUME NEW k \in Workers, Bind(k) PROVE StagesInOrder'
  <2>1. /\ pc[k] = "count" /\ pc' = [pc EXCEPT ![k] = "tellJournal"]
        /\ UNCHANGED <<wope_logs, jobs, cur, submitted>>
      BY <1>5 DEF Bind, Goto, queues, client
  <2>2. /\ cur[k] \in Writes /\ cur[k] \in submitted
        /\ DOMAIN gh_attr' = DOMAIN gh_attr \cup {Target[cur[k]]}
      BY <1>5, BindAdds
  <2>3. ASSUME NEW w \in Writes, w # cur[k]
        PROVE  Target[w] \in DOMAIN gh_attr' <=> Target[w] \in DOMAIN gh_attr
      BY <2>2, <2>3 DEF OneTarget
  <2>4. /\ \A i \in DOMAIN wope_logs : wope_logs[i].id \in Writes /\ wope_logs[i].id # cur[k]
        /\ \A i \in DOMAIN jobs : jobs[i].id \in Writes /\ jobs[i].id # cur[k]
        /\ \A l \in Workers : l # k => cur[l] # cur[k]
      BY <2>1, <2>2, <1>0 DEF OneLogEach
  <2>5. \A l \in Workers : pc[l] # "idle" => cur[l] \in Writes
      BY <1>0 DEF OneLogEach
  <2>6. /\ \A i \in DOMAIN wope_logs' : LogInOrder(wope_logs[i])'
        /\ \A i \in DOMAIN jobs' : LogInOrder(jobs[i])'
      BY <2>1, <2>3, <2>4, <1>0 DEF StagesInOrder, LogInOrder
  <2>7. ASSUME NEW l \in Workers
        PROVE  /\ pc'[l] \in BeforeBind => Target[cur'[l]] \notin DOMAIN gh_attr'
               /\ pc'[l] \in AfterBind => Target[cur'[l]] \in DOMAIN gh_attr'
      BY <2>1, <2>2, <2>3, <2>4, <2>5, <1>0 DEF StagesInOrder, BeforeBind, AfterBind
  <2>8. \A v \in DOMAIN gh_attr' : \E w \in submitted' : Target[w] = v
      BY <2>1, <2>2, <1>0 DEF StagesInOrder
  <2> QED
      BY <2>6, <2>7, <2>8 DEF StagesInOrder
<1>6. ASSUME NEW k \in Workers, Builds(k) \/ Copies(k) PROVE StagesInOrder'
  <2>1. /\ UNCHANGED <<cur, wope_logs, jobs, submitted, gh_attr>>
        /\ \E label \in Label :
              /\ pc' = [pc EXCEPT ![k] = label]
              /\ label \in BeforeBind => pc[k] \in BeforeBind
              /\ label \in AfterBind => pc[k] \in AfterBind
      BY <1>6, BuildsStay, CopiesStay DEF Stays, BeforeBind, AfterBind, Label
  <2> QED
      BY <2>1, <1>0 DEF StagesInOrder, LogInOrder
<1>7. ASSUME UNCHANGED <<wope_logs, jobs, pc, cur, submitted, gh_attr>> PROVE StagesInOrder'
    BY <1>7, <1>0 DEF StagesInOrder, LogInOrder
<1>8. ASSUME NEW k \in Workers, EditPastEnd(k) PROVE StagesInOrder'
    BY <1>7, <1>8 DEF EditPastEnd, queues, locals, client, kv
<1>9. ASSUME NEW r \in Reads, Ask(r) \/ DoRope(r) PROVE StagesInOrder'
    BY <1>7, <1>9, ReadsAside DEF queues, locals, client, kv
<1>10. ASSUME CrashRestart PROVE StagesInOrder'
    BY <1>10, <1>0 DEF CrashRestart, StagesInOrder, BeforeBind, AfterBind, client, kv
<1>11. ASSUME UNCHANGED vars PROVE StagesInOrder'
    BY <1>7, <1>11 DEF vars, queues, locals, client, kv
<1> QED
    BY <1>1, <1>2, <1>3, <1>4, <1>5, <1>6, <1>8, <1>9, <1>10, <1>11, WorkerSteps DEF Next

\* The order of the stages holds in every reachable state.
LEMMA OrderInvariant ==
    ASSUME OneTarget
    PROVE  Spec => []OrderInv
<1>1. Init => OneLogEach /\ StagesInOrder
  <2> SUFFICES ASSUME Init PROVE OneLogEach /\ StagesInOrder
      OBVIOUS
  <2> QED
      BY DEF Init, OneLogEach, StagesInOrder, BeforeBind, AfterBind
<1>2. JournalInv /\ OneLogEach /\ StagesInOrder /\ [Next]_vars => (OneLogEach /\ StagesInOrder)'
    BY OneLogStep, StagesStep DEF OrderInv, JournalInv
<1> QED
    BY <1>1, <1>2, JournalInvariant, PTL DEF Spec, OrderInv

\* A version that is bound keeps its list for ever, whatever crashes: what a
\* client has read of a version it may keep.
THEOREM VersionsNeverChange ==
    ASSUME OneTarget
    PROVE  Spec => VersionsImmutable
<1>1. OrderInv /\ [Next]_vars => VersionsKept
    BY VersionsStep
<1> QED
    BY <1>1, OrderInvariant, PTL DEF Spec, VersionsImmutable

----------------------------------------------------------------------------
(* The workers' hands. *)

\* The write that made a block, and the stages in which a worker holds the
\* list of the version it makes.
Creator(s) == journal_rb[s][1]
Building   == BeforeBind \ {"base"}

\* Has worker k added its reference to the i-th block of its list?
Counted(k, i) == pc[k] \in {"count", "bump"} /\ i < idx[k]

\* What worker k has in hand stays as it is.
Quiet(k) ==
    /\ pc'[k] = pc[k] /\ cur'[k] = cur[k] /\ orb'[k] = orb[k]
    /\ idx'[k] = idx[k] /\ held'[k] = held[k]

\* One worker acts at a time, and a crash stops them all.
LEMMA OneActs ==
    ASSUME WorkerType, [Next]_vars, ~CrashRestart
    PROVE  \/ \A l \in Workers : Quiet(l)
           \/ \E k \in Workers : DoWope(k) /\ \A l \in Workers : l # k => Quiet(l)
<1>1. ASSUME NEW k \in Workers, DoWope(k) PROVE \A l \in Workers : l # k => Quiet(l)
  <2>1. CASE UNCHANGED locals
      BY <2>1 DEF Quiet, locals
  <2>2. CASE \E label, list, i, n :
                Goto(k, label, list, i, n) /\ \E w : cur' = [cur EXCEPT ![k] = w]
      BY <2>2 DEF Quiet, Goto, WorkerType
  <2>3. cur \in [Workers -> Writes \cup {NoWrite}]
      BY DEF WorkerType
  <2>4. CASE cur' = cur
    <3>1. cur' = [cur EXCEPT ![k] = cur[k]]
        BY <2>3, <2>4
    <3>2. \/ \E label, list, i, n : Goto(k, label, list, i, n)
          \/ UNCHANGED locals
      <4>1. CASE Take(k) \/ ReadBase(k) \/ DeleteBlock(k) \/ NewBlock(k) \/ PutBlockAttr(k)
          BY <4>1 DEF Take, ReadBase, DeleteBlock, NewBlock, PutBlockAttr
      <4>2. CASE EditPastEnd(k) \/ EndEdits(k) \/ ReadCount(k) \/ WriteCount(k) \/ Bind(k)
          BY <4>2 DEF EditPastEnd, EndEdits, ReadCount, WriteCount, Bind
      <4>3. CASE TellJournal(k) \/ RequeueOnJournal(k) \/ ReadTarget(k)
          BY <4>3 DEF TellJournal, RequeueOnJournal, ReadTarget, Finish
      <4>4. CASE CopyBlock(k) \/ CopyFails(k) \/ RequeueOnDisk(k) \/ TellDisk(k)
          BY <4>4 DEF CopyBlock, CopyFails, RequeueOnDisk, TellDisk, Finish
      <4> QED
          BY <1>1, <4>1, <4>2, <4>3, <4>4 DEF DoWope
    <3> QED
        BY <3>1, <3>2, <2>1, <2>2
  <2>5. CASE Take(k) \/ Leaves(k)
      BY <2>5, <2>2 DEF Take, Leaves, RequeueOnJournal, RequeueOnDisk, TellDisk, Finish
  <2>6. CASE Builds(k) \/ EditPastEnd(k) \/ Bind(k) \/ Copies(k)
    <3>1. cur' = cur
        BY <2>6, BuildsStay, CopiesStay DEF Stays, EditPastEnd, Bind, locals
    <3> QED
        BY <3>1, <2>4
  <2> QED
      BY <1>1, <2>5, <2>6, WorkerSteps
<1>2. ASSUME NEW r \in Reads, Ask(r) \/ DoRope(r) PROVE UNCHANGED locals
    BY <1>2, ReadsAside
<1>3. ASSUME \/ \E w \in Writes : Submit(w)
             \/ Dispatch \/ UNCHANGED vars
      PROVE  UNCHANGED locals
    BY <1>3 DEF Submit, Dispatch, vars
<1>4. UNCHANGED locals => \A l \in Workers : Quiet(l)
    BY DEF locals, Quiet
<1> QED
    BY <1>1, <1>2, <1>3, <1>4 DEF Next

\* A worker that is building a list after a step of its own was building it.
LEMMA OnlyBuilds ==
    ASSUME TypeOK, NEW k \in Workers, DoWope(k), ~Quiet(k), pc'[k] \in Building
    PROVE  Builds(k)
<1>0. WorkerType /\ QueueType
    BY DEF TypeOK
<1>1. ASSUME Take(k) PROVE FALSE
  <2>1. Head(jobs) \in WopeLog
      BY <1>0, <1>1, HeadTailProperties DEF Take, QueueType
  <2> QED
      BY <1>0, <1>1, <2>1 DEF Take, Goto, WorkerType, WopeLog, Stage, Building, BeforeBind
<1>2. ASSUME Bind(k) \/ Leaves(k) PROVE FALSE
    BY <1>0, <1>2 DEF Bind, Leaves, RequeueOnJournal, RequeueOnDisk, TellDisk, Finish,
       Goto, WorkerType, Building, BeforeBind
<1>3. ASSUME Copies(k) PROVE FALSE
    BY <1>0, <1>3, CopiesStay DEF AfterBind, WorkerType, Building, BeforeBind
<1>4. ~EditPastEnd(k)
    BY DEF EditPastEnd, locals, Quiet
<1> QED
    BY <1>1, <1>2, <1>3, <1>4, WorkerSteps

\* Where an edit points, when do_WOPE applies it.
LEMMA EditPosition ==
    ASSUME WorkerType, NEW k \in Workers, Editing(k), InRange(EditAt(k), Len(orb[k]))
    PROVE  /\ cur[k] \in Writes /\ orb[k] \in Seq(Nat)
           /\ idx[k] \in 1..Len(Edits[cur[k]]) /\ Len(Edits[cur[k]]) \in Nat
           /\ EditAt(k).type \in EditType /\ EditAt(k).num \in Nat
           /\ EditAt(k).num + 1 \in 1..(Len(orb[k]) + 1)
           /\ EditAt(k).type # "Insert" => EditAt(k).num + 1 \in 1..Len(orb[k])
<1>1. /\ cur[k] \in Writes /\ orb[k] \in Seq(Nat) /\ idx[k] \in Nat \ {0}
      /\ Len(orb[k]) \in Nat
    BY LenProperties DEF WorkerType, Editing
<1>2. Len(Edits[cur[k]]) \in Nat /\ idx[k] \in 1..Len(Edits[cur[k]])
    BY <1>1, HistoryAssumption, LenProperties DEF Editing
<1>3. EditAt(k).type \in EditType /\ EditAt(k).num \in Nat
    BY <1>1, <1>2, EditsType DEF EditAt
<1> QED
    BY <1>1, <1>2, <1>3 DEF InRange

----------------------------------------------------------------------------
(* The records of blocks. *)

RecordsFiled == DOMAIN rb_attr \subseteq DOMAIN drawn

\* Only creating a block and counting a reference change a refer_count, of a
\* block of the worker's own list.
LEMMA CountsChange ==
    ASSUME [Next]_vars, rb_attr' # rb_attr
    PROVE  \E k \in Workers :
              /\ PutBlockAttr(k) \/ WriteCount(k)
              /\ pc[k] \in {"attr", "bump"}
              /\ \E s, n : /\ rb_attr' = Put(rb_attr, s, n)
                           /\ s = IF pc[k] = "attr" THEN held[k] ELSE orb[k][idx[k]]
<1>1. ASSUME NEW k \in Workers, DoWope(k), ~PutBlockAttr(k), ~WriteCount(k)
      PROVE  rb_attr' = rb_attr
    BY <1>1 DEF DoWope, Take, ReadBase, DeleteBlock, NewBlock, EditPastEnd, EndEdits,
       ReadCount, Bind, TellJournal, RequeueOnJournal, ReadTarget, CopyBlock, CopyFails,
       RequeueOnDisk, TellDisk, kv
<1>2. ASSUME NEW r \in Reads, Ask(r) \/ DoRope(r) PROVE rb_attr' = rb_attr
    BY <1>2, ReadsAside DEF kv
<1>3. ASSUME \/ \E w \in Writes : Submit(w)
             \/ Dispatch \/ CrashRestart \/ UNCHANGED vars
      PROVE  rb_attr' = rb_attr
    BY <1>3 DEF Submit, Dispatch, CrashRestart, vars, kv
<1>4. PICK k \in Workers : PutBlockAttr(k) \/ WriteCount(k)
    BY <1>1, <1>2, <1>3 DEF Next
<1>5. CASE PutBlockAttr(k)
    BY <1>5 DEF PutBlockAttr
<1>6. CASE WriteCount(k)
    BY <1>6 DEF WriteCount
<1> QED
    BY <1>4, <1>5, <1>6

\* Every record is of a serial that was given out.
LEMMA RecordsStep ==
    ASSUME JournalInv, RecordsFiled, [Next]_vars
    PROVE  RecordsFiled'
<1>0. /\ RecordsFiled /\ ListsRecorded /\ WorkerType
      /\ DOMAIN drawn \subseteq DOMAIN drawn'
    BY DomainsGrow DEF JournalInv, TypeOK
<1>1. CASE rb_attr' = rb_attr
    BY <1>0, <1>1 DEF RecordsFiled
<1>2. CASE rb_attr' # rb_attr
  <2>0. PICK k \in Workers :
           /\ pc[k] \in {"attr", "bump"}
           /\ \E x, n : /\ rb_attr' = Put(rb_attr, x, n)
                        /\ x = IF pc[k] = "attr" THEN held[k] ELSE orb[k][idx[k]]
      BY <1>2, CountsChange
  <2>1. PICK x, n :
           /\ pc[k] \in {"attr", "bump"} /\ rb_attr' = Put(rb_attr, x, n)
           /\ x = IF pc[k] = "attr" THEN held[k] ELSE orb[k][idx[k]]
      BY <2>0
  <2>2. x \in DOMAIN drawn
    <3>1. CASE pc[k] = "attr"
        BY <2>1, <1>0, <3>1 DEF ListsRecorded
    <3>2. CASE pc[k] = "bump"
      <4>1. idx[k] \in DOMAIN orb[k]
          BY <1>0, <3>2, LenProperties DEF WorkerType
      <4> QED
          BY <2>1, <1>0, <3>2, <4>1, HeldListRecorded
    <3> QED
        BY <2>1, <3>1, <3>2
  <2> QED
      BY <1>0, <2>1, <2>2 DEF RecordsFiled, Put
<1> QED
    BY <1>1, <1>2

----------------------------------------------------------------------------
(* refer_counts, when each block has a serial of its own. *)

\* Worker k alone has block s: no bound version and no list under construction
\* by another worker contains it.
Private(k, s) ==
    /\ \A v \in DOMAIN gh_attr : s \notin Range(gh_attr[v])
    /\ \A l \in Workers : l # k /\ pc[l] \in Building => s \notin Range(orb[l])

\* What a worker that builds a list may rely on: a block it shares was counted
\* by somebody, one it has counted is counted twice when it is shared, and the
\* count in its hand, however old, is not the 0 of a block that is shared.
CountsInHand(k) ==
    /\ pc[k] \in Building => \A i \in DOMAIN orb[k] :
          /\ Private(k, orb[k][i]) \/ ReferCount(orb[k][i]) >= 1
          /\ Counted(k, i) => ReferCount(orb[k][i]) >= IF Private(k, orb[k][i]) THEN 1 ELSE 2
    /\ pc[k] = "attr" => Private(k, held[k])
    /\ pc[k] = "bump" => Private(k, orb[k][idx[k]]) \/ held[k] >= 1

SharedInv ==
    /\ JournalInv /\ SerialsFresh /\ SharedBlocksCounted
    /\ \A k \in Workers : CountsInHand(k)

\* Where the blocks of a list under construction come from.
LEMMA ListSource ==
    ASSUME TypeOK, [Next]_vars, NEW k \in Workers, pc'[k] \in Building,
           NEW i \in DOMAIN orb'[k]
    PROVE  \/ pc[k] \in Building /\ \E j \in DOMAIN orb[k] : orb'[k][i] = orb[k][j]
           \/ NewBlock(k) /\ orb'[k][i] = clock
           \/ ReadBase(k) /\ \E v \in DOMAIN gh_attr : orb'[k][i] \in Range(gh_attr[v])
<1>0. WorkerType /\ StoreType
    BY DEF TypeOK
<1>1. CASE Quiet(k)
    BY <1>1 DEF Quiet
<1>2. ~CrashRestart
    BY DEF CrashRestart, Building, BeforeBind
<1>3. CASE ~Quiet(k)
  <2>1. DoWope(k)
      BY <1>0, <1>2, <1>3, OneActs
  <2>2. Builds(k)
      BY <1>3, <2>1, OnlyBuilds
  <2>3. CASE ReadBase(k)
    <3>1. orb'[k] = ListAt(gh_attr, Base[cur[k]])
        BY <1>0, <2>3 DEF ReadBase, Goto, WorkerType
    <3> QED
        BY <2>3, <3>1 DEF ListAt, Range
  <2>4. CASE DeleteBlock(k)
    <3>1. /\ orb[k] \in Seq(Nat) /\ EditAt(k).num + 1 \in 1..Len(orb[k])
          /\ orb'[k] = RemoveAt(orb[k], EditAt(k).num + 1) /\ pc[k] = "edit"
        BY <1>0, <2>4, EditPosition DEF DeleteBlock, Editing, Goto, WorkerType
    <3>2. PICK n \in 1..Len(orb[k]) : n = EditAt(k).num + 1
        BY <3>1
    <3>3. \E j \in DOMAIN orb[k] : orb'[k][i] = orb[k][j]
        BY <3>1, <3>2, RemoveAtElements
    <3> QED
        BY <3>1, <3>3 DEF Building, BeforeBind
  <2>5. CASE NewBlock(k)
    <3>1. /\ orb[k] \in Seq(Nat) /\ pc[k] = "edit" /\ clock \in Nat
          /\ \/ /\ EditAt(k).num + 1 \in 1..(Len(orb[k]) + 1)
                /\ orb'[k] = InsertAt(orb[k], EditAt(k).num + 1, clock)
             \/ /\ EditAt(k).num + 1 \in 1..Len(orb[k])
                /\ orb'[k] = ReplaceAt(orb[k], EditAt(k).num + 1, clock)
        BY <1>0, <2>5, EditPosition DEF NewBlock, Editing, Goto, WorkerType, StoreType
    <3>2. PICK n : n = EditAt(k).num + 1
        OBVIOUS
    <3>3. orb'[k][i] = clock \/ \E j \in DOMAIN orb[k] : orb'[k][i] = orb[k][j]
      <4>1. CASE n \in 1..(Len(orb[k]) + 1) /\ orb'[k] = InsertAt(orb[k], n, clock)
        <5>1. PICK S, s, e : S = Nat /\ s = orb[k] /\ e = clock
            OBVIOUS
        <5>2. s \in Seq(S) /\ n \in 1..(Len(s) + 1) /\ e \in S
            BY <3>1, <4>1, <5>1
        <5>3. \A j \in DOMAIN InsertAt(s, n, e) :
                 InsertAt(s, n, e)[j] = e \/ \E m \in DOMAIN s : InsertAt(s, n, e)[j] = s[m]
            BY <5>2, InsertAtElements
        <5> QED
            BY <4>1, <5>1, <5>3
      <4>2. CASE n \in 1..Len(orb[k]) /\ orb'[k] = ReplaceAt(orb[k], n, clock)
          BY <3>1, <4>2 DEF ReplaceAt
      <4> QED
          BY <3>1, <3>2, <4>1, <4>2
    <3> QED
        BY <2>5, <3>1, <3>3 DEF Building, BeforeBind
  <2>6. CASE PutBlockAttr(k) \/ EndEdits(k) \/ ReadCount(k) \/ WriteCount(k)
    <3>1. orb'[k] = orb[k] /\ pc[k] \in Building
        BY <1>0, <2>6 DEF PutBlockAttr, EndEdits, ReadCount, WriteCount, Goto, WorkerType,
           Building, BeforeBind
    <3> QED
        BY <3>1
  <2> QED
      BY <2>2, <2>3, <2>4, <2>5, <2>6 DEF Builds
<1> QED
    BY <1>1, <1>3

\* What one worker alone has, it alone has until it binds its version.
LEMMA PrivateStays ==
    ASSUME TypeOK, SerialsFresh, [Next]_vars, NEW k \in Workers, ~Bind(k),
           NEW s \in DOMAIN drawn, Private(k, s)
    PROVE  Private(k, s)'
<1>0. s # clock /\ WorkerType
    BY DEF SerialsFresh, TypeOK, StoreType
<1>1. \A v \in DOMAIN gh_attr' : s \notin Range(gh_attr'[v])
  <2>1. CASE gh_attr' = gh_attr
      BY <2>1 DEF Private
  <2>2. CASE gh_attr' # gh_attr
    <3>1. PICK l \in Workers : Bind(l)
        BY <2>2, OnlyBindBinds
    <3>2. l # k /\ pc[l] \in Building /\ gh_attr' = Put(gh_attr, Target[cur[l]], orb[l])
        BY <3>1 DEF Bind, Building, BeforeBind
    <3> QED
        BY <3>2 DEF Private, Put
  <2> QED
      BY <2>1, <2>2
<1>2. ASSUME NEW l \in Workers, l # k, pc'[l] \in Building PROVE s \notin Range(orb'[l])
  <2>1. ASSUME NEW i \in DOMAIN orb'[l], orb'[l][i] = s PROVE FALSE
      BY <1>0, <1>2, <2>1, ListSource DEF Private, Range
  <2> QED
      BY <2>1 DEF Range
<1> QED
    BY <1>1, <1>2 DEF Private

\* A count reaches 1, or 2, for good, unless the worker that writes it has the
\* block to itself: a lost increment leaves at least 2.
LEMMA CountsHold ==
    ASSUME SharedInv, [Next]_vars, NEW s, NEW n \in {1, 2}, ReferCount(s) >= n,
           \A l \in Workers : PutBlockAttr(l) \/ WriteCount(l) => ~Private(l, s)
    PROVE  ReferCount(s)' >= n
<1>0. WorkerType /\ StoreType /\ \A l \in Workers : CountsInHand(l)
    BY DEF SharedInv, JournalInv, TypeOK
<1>1. CASE rb_attr' = rb_attr
    BY <1>1 DEF ReferCount
<1>2. CASE rb_attr' # rb_attr
  <2>1. PICK l \in Workers : PutBlockAttr(l) \/ WriteCount(l)
      BY <1>2, CountsChange
  <2>2. ~Private(l, s)
      BY <2>1
  <2>3. CASE PutBlockAttr(l)
    <3>1. held[l] # s /\ rb_attr' = Put(rb_attr, held[l], 0)
        BY <1>0, <2>2, <2>3 DEF PutBlockAttr, CountsInHand
    <3> QED
        BY <3>1 DEF ReferCount, Put
  <2>4. CASE WriteCount(l)
    <3>1. /\ rb_attr' = Put(rb_attr, orb[l][idx[l]], held[l] + 1)
          /\ held[l] \in Nat
          /\ orb[l][idx[l]] = s => held[l] >= 1
        BY <1>0, <2>2, <2>4 DEF WriteCount, CountsInHand, WorkerType
    <3>2. CASE orb[l][idx[l]] = s
      <4>1. ReferCount(s)' = held[l] + 1
          BY <3>1, <3>2 DEF ReferCount, Put
      <4> QED
          BY <3>1, <3>2, <4>1
    <3>3. CASE orb[l][idx[l]] # s
        BY <3>1, <3>3 DEF ReferCount, Put
    <3> QED
        BY <3>2, <3>3
  <2> QED
      BY <2>1, <2>3, <2>4
<1> QED
    BY <1>1, <1>2

\* Versions that share a block have counted it twice: by the time the second is
\* bound, its worker has counted blocks that others have.
LEMMA SharedStep ==
    ASSUME SharedInv, [Next]_vars
    PROVE  SharedBlocksCounted'
<1>0. StoreType /\ WorkerType /\ SharedBlocksCounted /\ \A l \in Workers : CountsInHand(l)
    BY DEF SharedInv, JournalInv, TypeOK
<1> SUFFICES ASSUME NEW u \in DOMAIN gh_attr', NEW v \in DOMAIN gh_attr',
                    NEW s \in Range(gh_attr'[u]) \cap Range(gh_attr'[v])
             PROVE  ReferCount(s)' >= IF u = v THEN 1 ELSE 2
    BY DEF SharedBlocksCounted
<1>1. CASE gh_attr' = gh_attr
  <2>1. ReferCount(s) >= IF u = v THEN 1 ELSE 2
      BY <1>0, <1>1 DEF SharedBlocksCounted
  <2>2. \A l \in Workers : ~Private(l, s)
      BY <1>1 DEF Private
  <2> QED
      BY <2>1, <2>2, CountsHold
<1>2. CASE gh_attr' # gh_attr
  <2>1. PICK k \in Workers : Bind(k)
      BY <1>2, OnlyBindBinds
  <2> DEFINE t == Target[cur[k]]
  <2>2. /\ gh_attr' = Put(gh_attr, t, orb[k]) /\ rb_attr' = rb_attr
        /\ pc[k] = "count" /\ idx[k] > Len(orb[k]) /\ orb[k] \in Seq(Nat)
        /\ idx[k] \in Nat
      BY <1>0, <2>1 DEF Bind, WorkerType
  <2> HIDE DEF t
  <2>3. ReferCount(s)' = ReferCount(s)
      BY <2>2 DEF ReferCount
  <2>4. /\ DOMAIN gh_attr' = DOMAIN gh_attr \cup {t} /\ gh_attr'[t] = orb[k]
        /\ \A x \in DOMAIN gh_attr : x # t => gh_attr'[x] = gh_attr[x]
      BY <2>2 DEF Put
  <2>5. CASE u # t /\ v # t
      BY <1>0, <2>3, <2>4, <2>5 DEF SharedBlocksCounted
  <2>6. CASE u = t \/ v = t
    <3>1. PICK i \in DOMAIN orb[k] : orb[k][i] = s
        BY <2>4, <2>6 DEF Range
    <3>2. i < idx[k]
        BY <2>2, <3>1, LenProperties
    <3>3. ReferCount(s) >= IF Private(k, s) THEN 1 ELSE 2
        BY <1>0, <2>2, <3>1, <3>2 DEF CountsInHand, Counted, Building, BeforeBind
    <3>4. u # v => ~Private(k, s)
        BY <2>4, <2>6 DEF Private
    <3>5. u = v => ReferCount(s) >= 1
      <4>1. ReferCount(s) \in Nat
          BY <1>0 DEF ReferCount, StoreType
      <4> QED
          BY <3>3, <4>1
    <3> QED
        BY <2>3, <3>3, <3>4, <3>5
  <2> QED
      BY <2>5, <2>6
<1> QED
    BY <1>1, <1>2

\* A block in a list under construction was given its serial.
LEMMA ListsDrawn ==
    ASSUME JournalInv, NEW k \in Workers
    PROVE  /\ \A i \in DOMAIN orb[k] : orb[k][i] \in DOMAIN drawn
           /\ pc[k] = "attr" => held[k] \in DOMAIN drawn
BY DEF JournalInv, ListsRecorded, Recorded

\* A block a worker keeps in its list keeps its count.
LEMMA KeptInHand ==
    ASSUME SharedInv, [Next]_vars, NEW k \in Workers,
           pc[k] \in Building, pc'[k] \in Building,
           NEW j \in DOMAIN orb[k], NEW s, s = orb[k][j]
    PROVE  /\ Private(k, s) => Private(k, s)'
           /\ Private(k, s)' \/ ReferCount(s)' >= 1
           /\ Counted(k, j) => ReferCount(s)' >= IF Private(k, s)' THEN 1 ELSE 2
<1>0. /\ WorkerType /\ TypeOK /\ StoreType /\ SerialsFresh /\ CountsInHand(k)
      /\ s \in DOMAIN drawn
    BY ListsDrawn DEF SharedInv, JournalInv, TypeOK
<1>1. ~Bind(k)
    BY <1>0 DEF Bind, Goto, WorkerType, Building, BeforeBind
<1>2. Private(k, s) => Private(k, s)'
    BY <1>0, <1>1, PrivateStays
<1>3. \A l \in Workers : l # k => ~Private(l, s)
    BY DEF Private, Range
<1>4. ASSUME NEW n \in {1, 2}, ReferCount(s) >= n, ~Private(k, s) PROVE ReferCount(s)' >= n
    BY <1>3, <1>4, CountsHold
<1>5. /\ Private(k, s) \/ ReferCount(s) >= 1
      /\ Counted(k, j) => ReferCount(s) >= IF Private(k, s) THEN 1 ELSE 2
    BY <1>0 DEF CountsInHand
<1>6. ASSUME Counted(k, j), Private(k, s) PROVE ReferCount(s)' >= 1
  <2>1. ReferCount(s) >= 1
      BY <1>5, <1>6
  <2>2. CASE WriteCount(k)
    <3>1. rb_attr' = Put(rb_attr, orb[k][idx[k]], held[k] + 1) /\ held[k] \in Nat
        BY <1>0, <2>2 DEF WriteCount, WorkerType
    <3>2. CASE orb[k][idx[k]] = s
      <4>1. ReferCount(s)' = held[k] + 1
          BY <3>1, <3>2 DEF ReferCount, Put
      <4> QED
          BY <3>1, <4>1
    <3>3. CASE orb[k][idx[k]] # s
        BY <2>1, <3>1, <3>3 DEF ReferCount, Put
    <3> QED
        BY <3>2, <3>3
  <2>3. CASE ~WriteCount(k)
    <3>1. ~PutBlockAttr(k)
        BY <1>6 DEF PutBlockAttr, Counted
    <3> QED
        BY <1>3, <2>1, <2>3, <3>1, CountsHold
  <2> QED
      BY <2>2, <2>3
<1> QED
    BY <1>2, <1>4, <1>5, <1>6

\* A serial that has just been given out is its worker's alone.
LEMMA NewPrivate ==
    ASSUME SharedInv, [Next]_vars, NEW k \in Workers, NewBlock(k), NEW s, s = clock
    PROVE  Private(k, s)'
<1>0. /\ JournalInv /\ TypeOK /\ WorkerType /\ StoreType
      /\ BoundRecorded /\ SerialsFresh
    BY DEF SharedInv, JournalInv, TypeOK
<1>1. s \notin DOMAIN drawn
    BY <1>0 DEF SerialsFresh, StoreType
<1>2. gh_attr' = gh_attr /\ \A l \in Workers : l # k => orb'[l] = orb[l]
    BY <1>0 DEF NewBlock, kv, Goto, WorkerType
<1>3. \A v \in DOMAIN gh_attr : s \notin Range(gh_attr[v])
    BY <1>0, <1>1 DEF BoundRecorded, Recorded, Range
<1>4. \A l \in Workers : s \notin Range(orb[l])
    BY <1>0, <1>1, ListsDrawn DEF Range
<1> QED
    BY <1>2, <1>3, <1>4 DEF Private

\* Every step keeps what a worker may rely on about its list.
LEMMA ListInHandStep ==
    ASSUME SharedInv, [Next]_vars, NEW k \in Workers, pc'[k] \in Building,
           NEW i \in DOMAIN orb'[k], NEW s, s = orb'[k][i]
    PROVE  /\ Private(k, s)' \/ ReferCount(s)' >= 1
           /\ Counted(k, i)' => ReferCount(s)' >= IF Private(k, s)' THEN 1 ELSE 2
<1>0. /\ WorkerType /\ TypeOK /\ StoreType /\ SharedBlocksCounted /\ CountsInHand(k)
    BY DEF SharedInv, JournalInv, TypeOK
<1>1. CASE NewBlock(k) /\ s = clock
  <2>1. ~Counted(k, i)'
      BY <1>0, <1>1 DEF NewBlock, Goto, Counted, WorkerType
  <2> QED
      BY <1>1, <2>1, NewPrivate
<1>2. CASE ReadBase(k) /\ \E v \in DOMAIN gh_attr : s \in Range(gh_attr[v])
  <2>1. ~Counted(k, i)' /\ rb_attr' = rb_attr
      BY <1>0, <1>2 DEF ReadBase, Goto, Counted, WorkerType, kv
  <2>2. ReferCount(s) >= 1
      BY <1>0, <1>2 DEF SharedBlocksCounted
  <2> QED
      BY <2>1, <2>2 DEF ReferCount
<1>3. CASE pc[k] \in Building /\ \E j \in DOMAIN orb[k] : s = orb[k][j]
  <2>1. Private(k, s)' \/ ReferCount(s)' >= 1
      BY <1>3, KeptInHand
  <2>2. ASSUME Counted(k, i)' PROVE ReferCount(s)' >= IF Private(k, s)' THEN 1 ELSE 2
    <3>1. \/ Quiet(k)
          \/ EndEdits(k) \/ ReadCount(k) \/ WriteCount(k)
      <4>1. ~CrashRestart
          BY DEF CrashRestart, Building, BeforeBind
      <4>2. ASSUME ~Quiet(k) PROVE Builds(k)
        <5>1. DoWope(k)
            BY <1>0, <4>1, <4>2, OneActs
        <5> QED
            BY <1>0, <4>2, <5>1, OnlyBuilds
      <4>3. ~ReadBase(k) /\ ~DeleteBlock(k) /\ ~NewBlock(k) /\ ~PutBlockAttr(k)
          BY <1>0, <2>2 DEF ReadBase, DeleteBlock, NewBlock, PutBlockAttr, Goto, WorkerType, Counted
      <4> QED
          BY <4>2, <4>3 DEF Builds
    <3>2. orb'[k] = orb[k] /\ i \in DOMAIN orb[k] /\ s = orb[k][i]
        BY <1>0, <3>1 DEF Quiet, EndEdits, ReadCount, WriteCount, Goto, WorkerType
    <3>3. CASE Counted(k, i)
        BY <1>3, <3>2, <3>3, KeptInHand
    <3>4. CASE ~Counted(k, i)
      <4>1. WriteCount(k) /\ i = idx[k]
        <5>1. ~Quiet(k)
            BY <2>2, <3>4 DEF Quiet, Counted
        <5>2. ~EndEdits(k) /\ ~ReadCount(k)
          <6>1. i \in Nat \ {0} /\ idx[k] \in Nat
              BY <1>0, <3>2, LenProperties DEF WorkerType
          <6> QED
              BY <1>0, <2>2, <3>4, <6>1 DEF EndEdits, ReadCount, Goto, WorkerType, Counted
        <5>3. i \in Nat /\ idx[k] \in Nat
            BY <1>0, <3>2, LenProperties DEF WorkerType
        <5>4. WriteCount(k) /\ idx'[k] = idx[k] + 1 /\ pc[k] = "bump"
            BY <1>0, <3>1, <5>1, <5>2 DEF WriteCount, Goto, WorkerType
        <5> QED
            BY <2>2, <3>4, <5>3, <5>4 DEF Counted
      <4>2. /\ rb_attr' = Put(rb_attr, s, held[k] + 1) /\ held[k] \in Nat
            /\ Private(k, s) \/ held[k] >= 1
          BY <1>0, <3>2, <4>1 DEF WriteCount, WorkerType, CountsInHand
      <4>3. ReferCount(s)' = held[k] + 1
          BY <4>2 DEF ReferCount, Put
      <4>4. Private(k, s) => Private(k, s)'
          BY <1>3, <3>2, KeptInHand
      <4> QED
          BY <4>2, <4>3, <4>4
    <3> QED
        BY <3>3, <3>4
  <2> QED
      BY <2>1, <2>2
<1> QED
    BY <1>0, <1>1, <1>2, <1>3, ListSource

\* Every step keeps what a worker may rely on.
LEMMA InHandStep ==
    ASSUME SharedInv, [Next]_vars, NEW k \in Workers
    PROVE  CountsInHand(k)'
<1>0. /\ WorkerType /\ TypeOK /\ SerialsFresh /\ JournalInv /\ CountsInHand(k)
    BY DEF SharedInv, JournalInv, TypeOK
<1>1. ASSUME pc'[k] \in Building, NEW i \in DOMAIN orb'[k]
      PROVE  /\ Private(k, orb[k][i])' \/ ReferCount(orb[k][i])' >= 1
             /\ Counted(k, i)' => ReferCount(orb[k][i])' >= IF Private(k, orb[k][i])' THEN 1 ELSE 2
  <2>1. PICK s : s = orb'[k][i]
      OBVIOUS
  <2>2. /\ Private(k, s)' \/ ReferCount(s)' >= 1
        /\ Counted(k, i)' => ReferCount(s)' >= IF Private(k, s)' THEN 1 ELSE 2
      BY <1>1, <2>1, ListInHandStep
  <2> QED
      BY <2>1, <2>2 DEF Private, ReferCount
<1>2. ASSUME ~Quiet(k), pc'[k] \in Building PROVE Builds(k)
  <2>1. ~CrashRestart
      BY <1>2 DEF CrashRestart, Building, BeforeBind
  <2>2. DoWope(k)
      BY <1>0, <1>2, <2>1, OneActs
  <2> QED
      BY <1>0, <1>2, <2>2, OnlyBuilds
<1>3. ASSUME pc'[k] = "attr" PROVE Private(k, held[k])'
  <2>1. PICK s : s = held'[k]
      OBVIOUS
  <2>2. CASE NewBlock(k)
    <3>1. s = clock
        BY <1>0, <2>1, <2>2 DEF NewBlock, Goto, WorkerType
    <3>2. Private(k, s)'
        BY <2>2, <3>1, NewPrivate
    <3> QED
        BY <2>1, <3>2 DEF Private
  <2>3. CASE ~NewBlock(k)
    <3>1. Quiet(k)
      <4>1. ~Builds(k)
          BY <1>0, <1>3, <2>3 DEF Builds, ReadBase, DeleteBlock, PutBlockAttr, EndEdits,
             ReadCount, WriteCount, Goto, WorkerType
      <4> QED
          BY <1>2, <1>3, <4>1 DEF Building, BeforeBind
    <3>2. pc[k] = "attr" /\ s = held[k] /\ ~Bind(k)
        BY <1>3, <2>1, <3>1 DEF Quiet, Bind
    <3>3. s \in DOMAIN drawn /\ Private(k, s)
        BY <1>0, <3>2, ListsDrawn DEF CountsInHand
    <3>4. Private(k, s)'
        BY <1>0, <3>2, <3>3, PrivateStays
    <3> QED
        BY <2>1, <3>4 DEF Private
  <2> QED
      BY <2>2, <2>3
<1>4. ASSUME pc'[k] = "bump" PROVE Private(k, orb[k][idx[k]])' \/ held'[k] >= 1
  <2>1. PICK s : s = orb'[k][idx'[k]]
      OBVIOUS
  <2>2. /\ orb'[k] = orb[k] /\ idx'[k] = idx[k] /\ pc[k] \in Building
        /\ idx[k] \in DOMAIN orb[k]
        /\ Private(k, s) \/ held'[k] >= 1
    <3>1. CASE ReadCount(k)
      <4>1. /\ orb'[k] = orb[k] /\ idx'[k] = idx[k] /\ pc[k] = "count"
            /\ idx[k] <= Len(orb[k]) /\ orb[k] \in Seq(Nat) /\ idx[k] \in Nat \ {0}
            /\ held'[k] = ReferCount(orb[k][idx[k]])
          BY <1>0, <3>1 DEF ReadCount, Goto, WorkerType
      <4>2. idx[k] \in DOMAIN orb[k]
          BY <4>1, LenProperties
      <4> QED
          BY <1>0, <2>1, <4>1, <4>2 DEF CountsInHand, Building, BeforeBind
    <3>2. CASE ~ReadCount(k)
      <4>1. Quiet(k)
        <5>1. ~Builds(k)
            BY <1>0, <1>4, <3>2 DEF Builds, ReadBase, DeleteBlock, NewBlock, PutBlockAttr,
               EndEdits, WriteCount, Goto, WorkerType
        <5> QED
            BY <1>2, <1>4, <5>1 DEF Building, BeforeBind
      <4>2. pc[k] = "bump"
          BY <1>4, <4>1 DEF Quiet
      <4>3. idx[k] \in DOMAIN orb[k]
          BY <1>0, <4>2, LenProperties DEF WorkerType
      <4> QED
          BY <1>0, <2>1, <4>1, <4>2, <4>3 DEF Quiet, CountsInHand, Building, BeforeBind
    <3> QED
        BY <3>1, <3>2
  <2>3. Private(k, s) => Private(k, s)'
      BY <1>4, <2>1, <2>2, KeptInHand DEF Building, BeforeBind
  <2> QED
      BY <2>1, <2>2, <2>3 DEF Private
<1> QED
    BY <1>1, <1>3, <1>4 DEF CountsInHand

\* A block that two versions list has a refer_count of at least 2, whatever
\* workers read and wrote counts at the same time and whatever crashed in
\* between, provided that each block has a serial of its own (TickPerBlock).
THEOREM SharedBlocksAlwaysCounted ==
    ASSUME TickPerBlock
    PROVE  Spec => []SharedBlocksCounted
<1>1. Init => SerialsFresh /\ SharedBlocksCounted /\ \A k \in Workers : CountsInHand(k)
    BY DEF Init, SerialsFresh, SharedBlocksCounted, CountsInHand, Building, BeforeBind
<1>2. /\ JournalInv /\ SerialsFresh /\ SharedBlocksCounted
      /\ \A k \in Workers : CountsInHand(k)
      /\ [Next]_vars
      => (SerialsFresh /\ SharedBlocksCounted /\ \A k \in Workers : CountsInHand(k))'
    BY SerialsFreshStep, SharedStep, InHandStep DEF SharedInv, JournalInv
<1> QED
    BY <1>1, <1>2, JournalInvariant, PTL DEF Spec

----------------------------------------------------------------------------
(* What was told to be on disk is there. *)

\* What the client contract, the clock and the file system have to provide:
\* clients use a version only after they were told that it is on disk, each
\* write has a target of its own, two new blocks have two serials, and a file
\* that is to be written or copied is.
DiskAssumption ==
    Wait = "onDisk" /\ TickPerBlock /\ ~WriteMayFail /\ ~CopyMayFail /\ OneTarget

\* Writes start from versions whose clients were told that they are on disk.
BasesSettled == \A w \in submitted : Settled(Base[w])

\* A block of a bound version that is not on disk is one the version's write
\* has made, and no other version refers to it: so stage onJournal copies it.
CopyIsDue(s, v) == Target[Creator(s)] = v /\ ReferCount(s) = 1
BoundNew ==
    \A v \in DOMAIN gh_attr : \A i \in DOMAIN gh_attr[v] :
        gh_attr[v][i] \in DOMAIN disk_rb \/ CopyIsDue(gh_attr[v][i], v)

\* The same of a list under construction, as far as the worker has come.
NewInHand(k, i) ==
    orb[k][i] \notin DOMAIN disk_rb =>
        /\ Creator(orb[k][i]) = cur[k]
        /\ ReferCount(orb[k][i]) = IF Counted(k, i) THEN 1 ELSE 0
        /\ Once(orb[k], orb[k][i])
HeldNew ==
    /\ \A k \in Workers : pc[k] \in Building => \A i \in DOMAIN orb[k] : NewInHand(k, i)
    /\ \A k \in Workers : pc[k] = "attr" => Creator(held[k]) = cur[k]
    /\ \A k \in Workers : pc[k] = "bump" =>
          orb[k][idx[k]] \in DOMAIN disk_rb \/ held[k] = 0

\* Stage onJournal copies every block of the target, in order.
LogOnDisk(log) == log.state = "onDisk" => OnDisk(Target[log.id])
WorkerCopied(k) ==
    /\ pc[k] = "tellDisk" => OnDisk(Target[cur[k]])
    /\ pc[k] = "copy" =>
          /\ orb[k] = gh_attr[Target[cur[k]]]
          /\ \A i \in DOMAIN orb[k] : i < idx[k] => orb[k][i] \in DOMAIN disk_rb
CopiedInStage ==
    /\ \A i \in DOMAIN wope_logs : LogOnDisk(wope_logs[i])
    /\ \A i \in DOMAIN jobs : LogOnDisk(jobs[i])
    /\ \A k \in Workers : WorkerCopied(k)

DiskInv ==
    /\ OrderInv /\ FilesFresh /\ RecordsFiled
    /\ BasesSettled /\ BoundNew /\ HeldNew /\ CopiedInStage /\ AckedOnDiskIsReadable

\* What clients were told and what they have asked for only grows.
LEMMA ToldGrows ==
    ASSUME ClientType, [Next]_vars
    PROVE  /\ \A w \in Writes : told[w] \subseteq told'[w]
           /\ \A w \in Writes : "onDisk" \in told'[w] \ told[w] =>
                 \E k \in Workers : pc[k] = "tellDisk" /\ cur[k] = w
           /\ submitted \subseteq submitted'
           /\ \A w \in submitted' \ submitted : Settled(Base[w])
<1> DEFINE Grow ==
      /\ \A w \in Writes : told[w] \subseteq told'[w]
      /\ \A w \in Writes : "onDisk" \in told'[w] \ told[w] =>
            \E k \in Workers : pc[k] = "tellDisk" /\ cur[k] = w
      /\ submitted \subseteq submitted'
      /\ \A w \in submitted' \ submitted : Settled(Base[w])
<1>1. ASSUME NEW k \in Workers, NEW m \in Milestone, Tell(cur[k], m), submitted' = submitted,
             m = "onDisk" => pc[k] = "tellDisk"
      PROVE  Grow
    BY <1>1 DEF Tell, ClientType
<1>2. ASSUME UNCHANGED client PROVE Grow
    BY <1>2 DEF client
<1>3. ASSUME NEW k \in Workers, DoWope(k) PROVE Grow
  <2>1. CASE TellJournal(k)
      BY <2>1, <1>1 DEF TellJournal, Milestone
  <2>2. CASE TellDisk(k)
      BY <2>2, <1>1 DEF TellDisk, Milestone
  <2>3. CASE ~TellJournal(k) /\ ~TellDisk(k)
    <3>1. UNCHANGED client
        BY <1>3, <2>3 DEF DoWope, Take, ReadBase, DeleteBlock, NewBlock, PutBlockAttr,
           EditPastEnd, EndEdits, ReadCount, WriteCount, Bind, RequeueOnJournal,
           ReadTarget, CopyBlock, CopyFails, RequeueOnDisk
    <3> QED
        BY <3>1, <1>2
  <2> HIDE DEF Grow
  <2> QED
      BY <2>1, <2>2, <2>3
<1>4. ASSUME NEW w \in Writes, Submit(w) PROVE Grow
    BY <1>4 DEF Submit
<1>5. ASSUME NEW r \in Reads, Ask(r) \/ DoRope(r) PROVE UNCHANGED client
    BY <1>5, ReadsAside
<1>6. ASSUME Dispatch \/ CrashRestart \/ UNCHANGED vars PROVE UNCHANGED client
    BY <1>6 DEF Dispatch, CrashRestart, vars
<1> HIDE DEF Grow
<1>7. Grow
    BY <1>2, <1>3, <1>4, <1>5, <1>6 DEF Next
<1> QED
    BY <1>7 DEF Grow

\* Files stay, with their data; a version that is bound keeps its list.
LEMMA StoreGrows ==
    ASSUME DiskAssumption, DiskInv, [Next]_vars
    PROVE  /\ OrderInv' /\ FilesFresh' /\ VersionsKept /\ BlocksKept
           /\ DOMAIN disk_rb \subseteq DOMAIN disk_rb'
           /\ \A s \in DOMAIN journal_rb : s \in DOMAIN journal_rb' /\ Creator(s)' = Creator(s)
<1>1. OrderInv /\ TypeOK /\ FilesFresh
    BY DEF DiskInv, OrderInv, JournalInv
<1>2. FilesFresh' /\ BlocksKept
    BY <1>1, FilesStep DEF DiskAssumption
<1>3. OrderInv'
  <2>1. JournalInv'
      BY <1>1, TypeStep, DrawnStep, ListsStep, BoundStep, ToldStep DEF OrderInv, JournalInv
  <2> QED
      BY <1>1, <2>1, OneLogStep, StagesStep DEF OrderInv, DiskAssumption
<1>4. VersionsKept
    BY <1>1, VersionsStep
<1> QED
    BY <1>2, <1>3, <1>4 DEF BlocksKept, Creator

\* What was told, and what is on disk, stays so.
LEMMA SettledStays ==
    ASSUME ClientType, [Next]_vars, NEW v, Settled(v)
    PROVE  Settled(v)'
BY ToldGrows DEF Settled

LEMMA OnDiskStays ==
    ASSUME VersionsKept, DOMAIN disk_rb \subseteq DOMAIN disk_rb',
           NEW v \in DOMAIN gh_attr, OnDisk(v)
    PROVE  OnDisk(v)'
BY DEF VersionsKept, OnDisk

\* The list of a version that clients use is on disk, and fixed.
LEMMA SettledList ==
    ASSUME DiskAssumption, DiskInv, NEW v, Settled(v)
    PROVE  \A i \in DOMAIN ListAt(gh_attr, v) : ListAt(gh_attr, v)[i] \in DOMAIN disk_rb
<1>1. CASE \E w \in Writes : Target[w] = v /\ "onDisk" \in told[w]
    BY <1>1 DEF DiskInv, AckedOnDiskIsReadable, OnDisk, ListAt
<1>2. CASE \A w \in Writes : Target[w] # v
  <2>1. v \notin DOMAIN gh_attr
      BY <1>2 DEF DiskInv, OrderInv, JournalInv, TypeOK, ClientType, StagesInOrder
  <2> QED
      BY <2>1 DEF ListAt
<1> QED
    BY <1>1, <1>2 DEF Settled, DiskAssumption

LEMMA SettledFixed ==
    ASSUME DiskAssumption, DiskInv, [Next]_vars, NEW v, Settled(v)
    PROVE  ListAt(gh_attr', v) = ListAt(gh_attr, v)
<1>0. OrderInv' /\ VersionsKept
    BY StoreGrows
<1>1. CASE \E w \in Writes : Target[w] = v /\ "onDisk" \in told[w]
    BY <1>0, <1>1 DEF DiskInv, AckedOnDiskIsReadable, ListAt, VersionsKept
<1>2. CASE \A w \in Writes : Target[w] # v
  <2>1. v \notin DOMAIN gh_attr
      BY <1>2 DEF DiskInv, OrderInv, JournalInv, TypeOK, ClientType, StagesInOrder
  <2>2. v \notin DOMAIN gh_attr'
      BY <1>0, <1>2 DEF OrderInv, JournalInv, TypeOK, ClientType, StagesInOrder
  <2> QED
      BY <2>1, <2>2 DEF ListAt
<1> QED
    BY <1>1, <1>2 DEF Settled, DiskAssumption

LEMMA BasesStep ==
    ASSUME ClientType, BasesSettled, [Next]_vars
    PROVE  BasesSettled'
<1>1. \A w \in submitted' : Settled(Base[w])
    BY ToldGrows DEF BasesSettled
<1>2. \A w \in submitted' : Settled(Base[w])'
  <2> TAKE w \in submitted'
  <2>1. PICK v : v = Base[w]
      OBVIOUS
  <2>2. Settled(v)'
      BY <1>1, <2>1, SettledStays
  <2> QED
      BY <2>1, <2>2
<1> QED
    BY <1>2 DEF BasesSettled

\* A client is told onDisk after stage onJournal has copied its version.
LEMMA AckedStep ==
    ASSUME DiskAssumption, DiskInv, [Next]_vars
    PROVE  AckedOnDiskIsReadable'
<1>1. /\ ClientType /\ StagesInOrder /\ CopiedInStage /\ AckedOnDiskIsReadable
      /\ VersionsKept /\ DOMAIN disk_rb \subseteq DOMAIN disk_rb'
    BY StoreGrows DEF DiskInv, OrderInv, JournalInv, TypeOK
<1>2. ASSUME NEW w \in Writes, "onDisk" \in told'[w]
      PROVE  Target[w] \in DOMAIN gh_attr /\ OnDisk(Target[w])
  <2>1. CASE "onDisk" \in told[w]
      BY <1>1, <2>1 DEF AckedOnDiskIsReadable
  <2>2. CASE "onDisk" \notin told[w]
    <3>1. PICK k \in Workers : pc[k] = "tellDisk" /\ cur[k] = w
        BY <1>1, <1>2, <2>2, ToldGrows
    <3> QED
        BY <1>1, <3>1 DEF CopiedInStage, WorkerCopied, StagesInOrder, AfterBind
  <2> QED
      BY <2>1, <2>2
<1>3. ASSUME NEW w \in Writes, "onDisk" \in told'[w]
      PROVE  Target[w] \in DOMAIN gh_attr' /\ OnDisk(Target[w])'
  <2>1. PICK v : v = Target[w]
      OBVIOUS
  <2>2. v \in DOMAIN gh_attr' /\ OnDisk(v)'
      BY <1>1, <1>2, <1>3, <2>1, OnDiskStays DEF VersionsKept
  <2> QED
      BY <2>1, <2>2
<1> QED
    BY <1>3 DEF AckedOnDiskIsReadable

\* So the count of a block that is not on disk changes only while the write
\* that has made the block is building its version.
LEMMA CountsKept ==
    ASSUME DiskInv, [Next]_vars, NEW s, s \notin DOMAIN disk_rb,
           \A k \in Workers : PutBlockAttr(k) \/ WriteCount(k) => Creator(s) # cur[k]
    PROVE  ReferCount(s)' = ReferCount(s)
<1>1. CASE rb_attr' = rb_attr
    BY <1>1 DEF ReferCount
<1>2. CASE rb_attr' # rb_attr
  <2>0. PICK k \in Workers :
           /\ PutBlockAttr(k) \/ WriteCount(k)
           /\ pc[k] \in {"attr", "bump"}
           /\ \E x, n : /\ rb_attr' = Put(rb_attr, x, n)
                        /\ x = IF pc[k] = "attr" THEN held[k] ELSE orb[k][idx[k]]
      BY <1>2, CountsChange
  <2>1. PICK x, n :
           /\ PutBlockAttr(k) \/ WriteCount(k)
           /\ pc[k] \in {"attr", "bump"} /\ rb_attr' = Put(rb_attr, x, n)
           /\ x = IF pc[k] = "attr" THEN held[k] ELSE orb[k][idx[k]]
      BY <2>0
  <2>2. HeldNew /\ WorkerType
      BY DEF DiskInv, OrderInv, JournalInv, TypeOK
  <2>3. x # s
    <3>1. CASE pc[k] = "attr"
        BY <2>1, <2>2, <3>1 DEF HeldNew
    <3>2. CASE pc[k] = "bump"
      <4>1. idx[k] \in DOMAIN orb[k] /\ pc[k] \in Building
          BY <2>2, <3>2, LenProperties DEF WorkerType, Building, BeforeBind
      <4>2. x = orb[k][idx[k]] /\ NewInHand(k, idx[k])
          BY <2>1, <2>2, <3>2, <4>1 DEF HeldNew
      <4> QED
          BY <2>1, <4>2 DEF NewInHand
    <3> QED
        BY <2>1, <3>1, <3>2
  <2> QED
      BY <2>1, <2>3 DEF ReferCount, Put
<1> QED
    BY <1>1, <1>2

\* A block a bound version waits for keeps its one reference.
LEMMA BoundNewStep ==
    ASSUME DiskAssumption, DiskInv, [Next]_vars
    PROVE  BoundNew'
<1>0. /\ BoundNew /\ HeldNew /\ StagesInOrder /\ WorkerType /\ VersionsKept
      /\ BoundRecorded /\ ListsRecorded /\ FilesFresh
      /\ DOMAIN disk_rb \subseteq DOMAIN disk_rb'
      /\ \A s \in DOMAIN journal_rb : s \in DOMAIN journal_rb' /\ Creator(s)' = Creator(s)
    BY StoreGrows DEF DiskInv, OrderInv, JournalInv, TypeOK
<1>1. ASSUME NEW v \in DOMAIN gh_attr, NEW i \in DOMAIN gh_attr[v],
             NEW s, s = gh_attr[v][i], s \notin DOMAIN disk_rb'
      PROVE  CopyIsDue(s, v)'
  <2>1. /\ s \notin DOMAIN disk_rb /\ s \in DOMAIN journal_rb
        /\ Target[Creator(s)] = v /\ ReferCount(s) = 1
      BY <1>0, <1>1 DEF BoundNew, CopyIsDue, BoundRecorded, Recorded, FilesFresh
  <2>2. \A k \in Workers : PutBlockAttr(k) \/ WriteCount(k) => Creator(s) # cur[k]
      BY <1>0, <2>1 DEF StagesInOrder, BeforeBind, PutBlockAttr, WriteCount
  <2>3. ReferCount(s)' = ReferCount(s) /\ Creator(s)' = Creator(s)
      BY <1>0, <2>1, <2>2, CountsKept
  <2> QED
      BY <2>1, <2>3 DEF CopyIsDue
<1>2. ASSUME NEW v \in DOMAIN gh_attr', NEW i \in DOMAIN gh_attr'[v],
             NEW s, s = gh_attr'[v][i], s \notin DOMAIN disk_rb'
      PROVE  CopyIsDue(s, v)'
  <2>1. CASE v \in DOMAIN gh_attr
      BY <1>0, <1>1, <1>2, <2>1 DEF VersionsKept
  <2>2. CASE v \notin DOMAIN gh_attr
    <3>1. PICK k \in Workers : Bind(k)
        BY <1>2, <2>2, OnlyBindBinds
    <3>2. v = Target[cur[k]] /\ gh_attr'[v] = orb[k]
        BY <1>2, <2>2, <3>1, BindAdds DEF DiskInv
    <3>3. /\ pc[k] = "count" /\ idx[k] > Len(orb[k])
          /\ UNCHANGED <<journal_rb, disk_rb, rb_attr>>
        BY <3>1 DEF Bind, files
    <3>4. NewInHand(k, i) /\ Counted(k, i)
      <4>1. i \in DOMAIN orb[k]
          BY <1>2, <3>2
      <4>2. pc[k] \in Building /\ orb[k] \in Seq(Nat) /\ idx[k] \in Nat
          BY <1>0, <3>3 DEF Building, BeforeBind, WorkerType
      <4>3. i < idx[k]
          BY <3>3, <4>1, <4>2, LenProperties
      <4> QED
          BY <1>0, <3>3, <4>1, <4>2, <4>3 DEF HeldNew, Counted
    <3>5. Creator(s) = cur[k] /\ ReferCount(s) = 1
        BY <1>2, <3>2, <3>3, <3>4 DEF NewInHand
    <3> QED
        BY <3>2, <3>3, <3>5 DEF CopyIsDue, Creator, ReferCount
  <2> QED
      BY <2>1, <2>2
<1> QED
    BY <1>2 DEF BoundNew, CopyIsDue, Creator, ReferCount

\* A worker that does not act keeps its new blocks to itself: the others count
\* references to the blocks of their own writes.
LEMMA HeldQuiet ==
    ASSUME DiskAssumption, DiskInv, [Next]_vars, NEW l \in Workers, Quiet(l),
           pc[l] \in Building, NEW i \in DOMAIN orb[l]
    PROVE  NewInHand(l, i)'
<1>0. /\ HeldNew /\ ListsRecorded /\ WorkerType /\ OneLogEach /\ FilesFresh
      /\ DOMAIN disk_rb \subseteq DOMAIN disk_rb'
      /\ \A s \in DOMAIN journal_rb : s \in DOMAIN journal_rb' /\ Creator(s)' = Creator(s)
    BY StoreGrows DEF DiskInv, OrderInv, JournalInv, TypeOK
<1>1. PICK s : s = orb[l][i]
    OBVIOUS
<1>2. s \in DOMAIN journal_rb
    BY <1>0, <1>1 DEF ListsRecorded, Recorded, FilesFresh
<1>3. CASE s \notin DOMAIN disk_rb
  <2>1. /\ Creator(s) = cur[l] /\ Once(orb[l], s)
        /\ ReferCount(s) = IF Counted(l, i) THEN 1 ELSE 0
      BY <1>0, <1>1, <1>3 DEF HeldNew, NewInHand
  <2>2. ASSUME NEW k \in Workers, PutBlockAttr(k) \/ WriteCount(k)
        PROVE  Creator(s) # cur[k]
    <3>1. k # l /\ pc[k] # "idle"
        BY <1>0, <2>2 DEF PutBlockAttr, WriteCount, Goto, WorkerType, Quiet
    <3>2. cur[k] # NoWrite
        BY <1>0, <3>1, PipelineAssumption DEF WorkerType
    <3> QED
        BY <1>0, <2>1, <3>1, <3>2 DEF OneLogEach
  <2>3. ReferCount(s)' = ReferCount(s) /\ Creator(s)' = Creator(s)
      BY <1>0, <1>2, <1>3, <2>2, CountsKept
  <2>4. Counted(l, i)' <=> Counted(l, i)
      BY DEF Quiet, Counted
  <2> QED
      BY <1>1, <2>1, <2>3, <2>4 DEF NewInHand, Quiet, Creator, ReferCount
<1>4. CASE s \in DOMAIN disk_rb
    BY <1>0, <1>1, <1>4 DEF NewInHand, Quiet
<1> QED
    BY <1>3, <1>4

\* The edits keep the new blocks of a worker's list apart, uncounted.
LEMMA HeldEdits ==
    ASSUME DiskAssumption, DiskInv, NEW k \in Workers,
           ReadBase(k) \/ DeleteBlock(k) \/ NewBlock(k), NEW i \in DOMAIN orb'[k]
    PROVE  NewInHand(k, i)'
<1>0. /\ HeldNew /\ ListsRecorded /\ TypeOK /\ WorkerType /\ OneLogEach
      /\ FilesFresh /\ RecordsFiled /\ BasesSettled
    BY DEF DiskInv, OrderInv, JournalInv, TypeOK
<1>1. CASE ReadBase(k)
  <2>1. PICK list : list = ListAt(gh_attr, Base[cur[k]])
      OBVIOUS
  <2>2. orb'[k] = list /\ disk_rb' = disk_rb
      BY <1>0, <1>1, <2>1 DEF ReadBase, Goto, WorkerType, files
  <2>3. PICK v : v = Base[cur[k]]
      OBVIOUS
  <2>4. Settled(v)
      BY <1>0, <1>1, <2>3 DEF ReadBase, OneLogEach, BasesSettled
  <2>5. \A j \in DOMAIN list : list[j] \in DOMAIN disk_rb
      BY <2>1, <2>3, <2>4, SettledList
  <2> QED
      BY <2>2, <2>5 DEF NewInHand
<1>2. CASE DeleteBlock(k)
  <2>1. PICK n : n = EditAt(k).num + 1
      OBVIOUS
  <2>2. orb[k] \in Seq(Nat) /\ n \in 1..Len(orb[k]) /\ pc[k] = "edit"
      BY <1>0, <1>2, <2>1, EditPosition DEF DeleteBlock, Editing
  <2>3. /\ orb'[k] = RemoveAt(orb[k], n) /\ pc'[k] = "edit" /\ cur' = cur
        /\ UNCHANGED <<journal_rb, disk_rb, rb_attr>>
      BY <1>0, <1>2, <2>1 DEF DeleteBlock, Goto, WorkerType, files, kv
  <2>4. PICK j \in DOMAIN orb[k] : orb'[k][i] = orb[k][j]
      BY <2>2, <2>3, RemoveAtElements
  <2>5. NewInHand(k, j) /\ ~Counted(k, j) /\ ~Counted(k, i)'
      BY <1>0, <2>2, <2>3 DEF HeldNew, Building, BeforeBind, Counted
  <2>6. Once(orb[k], orb[k][j]) => Once(orb'[k], orb'[k][i])
      BY <2>2, <2>3, <2>4, RemoveAtOnce
  <2> QED
      BY <2>3, <2>4, <2>5, <2>6 DEF NewInHand, Creator, ReferCount
<1>3. CASE NewBlock(k)
  <2>1. PICK n : n = EditAt(k).num + 1
      OBVIOUS
  <2>2. /\ orb[k] \in Seq(Nat) /\ pc[k] = "edit" /\ clock \in Nat
        /\ n \in 1..(Len(orb[k]) + 1)
        /\ EditAt(k).type # "Insert" => n \in 1..Len(orb[k])
      BY <1>0, <1>3, <2>1, EditPosition DEF NewBlock, Editing, TypeOK, StoreType
  <2>3. /\ orb'[k] = IF EditAt(k).type = "Insert" THEN InsertAt(orb[k], n, clock)
                                                 ELSE ReplaceAt(orb[k], n, clock)
        /\ pc'[k] = "attr" /\ cur' = cur
        /\ journal_rb' = Put(journal_rb, clock, <<cur[k], idx[k]>>)
        /\ UNCHANGED <<disk_rb, rb_attr>>
      BY <1>0, <1>3, <2>1 DEF NewBlock, WriteBlock, DiskAssumption, Goto, WorkerType, kv
  <2>4. clock \notin DOMAIN journal_rb /\ clock \notin DOMAIN rb_attr
      BY <1>0, <2>2 DEF FilesFresh, SerialsFresh, RecordsFiled, TypeOK, StoreType
  <2>5. \A j \in DOMAIN orb[k] : orb[k][j] \in DOMAIN journal_rb /\ orb[k][j] # clock
      BY <1>0, <2>2, <2>4, HeldListRecorded DEF FilesFresh
  <2>6. ~Counted(k, i)'
      BY <2>3 DEF Counted
  <2>7. ASSUME NEW x, IF x = clock THEN \A j \in DOMAIN orb[k] : orb[k][j] # clock
                                   ELSE Once(orb[k], x)
        PROVE  Once(orb'[k], x)
    <3>1. CASE EditAt(k).type = "Insert"
      <4>1. Once(InsertAt(orb[k], n, clock), x)
          BY <2>2, <2>7, InsertAtOnce
      <4> QED
          BY <2>3, <3>1, <4>1
    <3>2. CASE EditAt(k).type # "Insert"
      <4>1. Once(ReplaceAt(orb[k], n, clock), x)
          BY <2>2, <2>7, <3>2, ReplaceAtOnce
      <4> QED
          BY <2>3, <3>2, <4>1
    <3> QED
        BY <3>1, <3>2
  <2>8. \/ orb'[k][i] = clock
        \/ \E j \in DOMAIN orb[k] : orb'[k][i] = orb[k][j]
    <3>1. CASE EditAt(k).type = "Insert"
      <4>0. PICK list : list = InsertAt(orb[k], n, clock)
          OBVIOUS
      <4>1. \A m \in DOMAIN InsertAt(orb[k], n, clock) :
               \/ InsertAt(orb[k], n, clock)[m] = clock
               \/ \E j \in DOMAIN orb[k] : InsertAt(orb[k], n, clock)[m] = orb[k][j]
        <5>1. PICK S, s, e : S = Nat /\ s = orb[k] /\ e = clock
            OBVIOUS
        <5>2. s \in Seq(S) /\ n \in 1..(Len(s) + 1) /\ e \in S
            BY <2>2, <3>1, <5>1
        <5>3. \A m \in DOMAIN InsertAt(s, n, e) :
                 InsertAt(s, n, e)[m] = e \/ \E j \in DOMAIN s : InsertAt(s, n, e)[m] = s[j]
            BY <5>2, InsertAtElements
        <5> QED
            BY <5>1, <5>3
      <4>2. \A m \in DOMAIN list : list[m] = clock \/ \E j \in DOMAIN orb[k] : list[m] = orb[k][j]
          BY <4>0, <4>1
      <4>3. orb'[k] = list
          BY <2>3, <3>1, <4>0
      <4> QED
          BY <4>2, <4>3
    <3>2. CASE EditAt(k).type # "Insert"
      <4>0. PICK list : list = ReplaceAt(orb[k], n, clock)
          OBVIOUS
      <4>1. n \in 1..Len(orb[k])
          BY <2>2, <3>2
      <4>2. /\ list \in Seq(Nat) /\ Len(list) = Len(orb[k])
            /\ \A m \in 1..Len(orb[k]) : list[m] = IF m = n THEN clock ELSE orb[k][m]
        <5>1. PICK S, s, m, e : S = Nat /\ s = orb[k] /\ m = n /\ e = clock
            OBVIOUS
        <5>2. s \in Seq(S) /\ m \in 1..Len(s) /\ e \in S
            BY <2>2, <4>1, <5>1
        <5>3. /\ ReplaceAt(s, m, e) \in Seq(S) /\ Len(ReplaceAt(s, m, e)) = Len(s)
              /\ \A i1 \in 1..Len(s) : ReplaceAt(s, m, e)[i1] = IF i1 = m THEN e ELSE s[i1]
            BY ONLY <5>2, ReplaceAtIndices
        <5> QED
            BY <4>0, <5>1, <5>3
      <4>3. DOMAIN list = 1..Len(orb[k]) /\ DOMAIN orb[k] = 1..Len(orb[k]) /\ orb'[k] = list
          BY <2>2, <2>3, <3>2, <4>0, <4>2, LenProperties
      <4> QED
          BY <4>2, <4>3
    <3> QED
        BY <3>1, <3>2
  <2>9. CASE orb'[k][i] = clock
    <3>1. Once(orb'[k], clock)
        BY <2>5, <2>7
    <3>2. journal_rb'[clock][1] = cur[k] /\ clock \notin DOMAIN rb_attr'
        BY <2>3, <2>4 DEF Put
    <3> QED
        BY <2>3, <2>6, <2>9, <3>1, <3>2 DEF NewInHand, Creator, ReferCount
  <2>10. CASE \E j \in DOMAIN orb[k] : orb'[k][i] = orb[k][j]
    <3>1. PICK j \in DOMAIN orb[k] : orb'[k][i] = orb[k][j]
        BY <2>10
    <3>2. NewInHand(k, j) /\ ~Counted(k, j)
        BY <1>0, <2>2 DEF HeldNew, Building, BeforeBind, Counted
    <3>3. PICK s : s = orb[k][j]
        OBVIOUS
    <3>4. journal_rb'[s] = journal_rb[s] /\ s # clock
        BY <2>3, <2>5, <3>3 DEF Put
    <3>5. Once(orb[k], s) => Once(orb'[k], s)
        BY <2>7, <3>4
    <3> QED
        BY <2>3, <2>6, <3>1, <3>2, <3>3, <3>4, <3>5 DEF NewInHand, Creator, ReferCount
  <2> QED
      BY <2>8, <2>9, <2>10
<1> QED
    BY <1>1, <1>2, <1>3

\* Recording a block, and counting the references of the list.
LEMMA HeldCounts ==
    ASSUME DiskAssumption, DiskInv, NEW k \in Workers,
           PutBlockAttr(k) \/ EndEdits(k) \/ ReadCount(k) \/ WriteCount(k),
           NEW i \in DOMAIN orb'[k]
    PROVE  NewInHand(k, i)'
<1>0. HeldNew /\ WorkerType
    BY DEF DiskInv, OrderInv, JournalInv, TypeOK
<1>1. /\ orb'[k] = orb[k] /\ cur' = cur /\ UNCHANGED <<journal_rb, disk_rb>>
      /\ pc[k] \in Building /\ orb[k] \in Seq(Nat) /\ idx[k] \in Nat \ {0}
    BY <1>0 DEF PutBlockAttr, EndEdits, ReadCount, WriteCount, Goto, WorkerType, files,
       Building, BeforeBind
<1>2. NewInHand(k, i) /\ i \in 1..Len(orb[k]) /\ Len(orb[k]) \in Nat
    BY <1>0, <1>1, LenProperties DEF HeldNew
<1>3. CASE PutBlockAttr(k)
  <2>1. pc[k] = "attr" /\ pc'[k] = "edit" /\ rb_attr' = Put(rb_attr, held[k], 0)
      BY <1>0, <1>3 DEF PutBlockAttr, Goto, WorkerType
  <2>2. ~Counted(k, i) /\ ~Counted(k, i)'
      BY <2>1 DEF Counted
  <2> QED
      BY <1>1, <1>2, <2>1, <2>2 DEF NewInHand, Creator, ReferCount, Put
<1>4. CASE EndEdits(k) \/ ReadCount(k)
  <2>1. Counted(k, i)' <=> Counted(k, i)
    <3>1. CASE EndEdits(k)
        BY <1>0, <1>2, <3>1 DEF EndEdits, Goto, WorkerType, Counted
    <3>2. CASE ReadCount(k)
        BY <1>0, <3>2 DEF ReadCount, Goto, WorkerType, Counted
    <3> QED
        BY <1>4, <3>1, <3>2
  <2>2. rb_attr' = rb_attr
      BY <1>4 DEF EndEdits, ReadCount, kv
  <2> QED
      BY <1>1, <1>2, <2>1, <2>2 DEF NewInHand, Creator, ReferCount
<1>5. CASE WriteCount(k)
  <2>1. /\ pc[k] = "bump" /\ pc'[k] = "count" /\ idx'[k] = idx[k] + 1
        /\ rb_attr' = Put(rb_attr, orb[k][idx[k]], held[k] + 1)
      BY <1>0, <1>5 DEF WriteCount, Goto, WorkerType
  <2>2. idx[k] \in DOMAIN orb[k] /\ (orb[k][idx[k]] \in DOMAIN disk_rb \/ held[k] = 0)
      BY <1>0, <1>1, <2>1, LenProperties DEF WorkerType, HeldNew
  <2>3. CASE orb[k][i] \in DOMAIN disk_rb
      BY <1>1, <2>3 DEF NewInHand
  <2>4. CASE orb[k][i] \notin DOMAIN disk_rb
    <3>1. /\ Creator(orb[k][i]) = cur[k] /\ Once(orb[k], orb[k][i])
          /\ ReferCount(orb[k][i]) = IF i < idx[k] THEN 1 ELSE 0
        BY <1>2, <2>1, <2>4 DEF NewInHand, Counted
    <3>2. Counted(k, i)' <=> i <= idx[k]
        BY <1>1, <1>2, <2>1 DEF Counted
    <3>3. ReferCount(orb[k][i])' = IF i <= idx[k] THEN 1 ELSE 0
      <4>1. CASE i = idx[k]
          BY <1>1, <2>1, <2>2, <2>4, <4>1 DEF ReferCount, Put
      <4>2. CASE i # idx[k]
        <5>1. orb[k][i] # orb[k][idx[k]]
            BY <1>1, <2>2, <3>1, <4>2 DEF Once
        <5>2. i <= idx[k] <=> i < idx[k]
            BY <1>1, <1>2, <4>2
        <5>3. PICK x : x = orb[k][i]
            OBVIOUS
        <5>4. x # orb[k][idx[k]]
            BY <5>1, <5>3
        <5>5. ReferCount(x)' = ReferCount(x)
            BY <2>1, <5>4 DEF ReferCount, Put
        <5> QED
            BY <1>1, <3>1, <5>2, <5>3, <5>5 DEF ReferCount
      <4> QED
          BY <4>1, <4>2
    <3>4. Creator(orb[k][i])' = cur[k] /\ Once(orb'[k], orb'[k][i])
        BY <1>1, <3>1 DEF Creator
    <3> QED
        BY <1>1, <3>2, <3>3, <3>4 DEF NewInHand
  <2> QED
      BY <2>3, <2>4
<1> QED
    BY <1>3, <1>4, <1>5

\* Every step keeps what workers hold in order.
LEMMA HeldStep ==
    ASSUME DiskAssumption, DiskInv, [Next]_vars
    PROVE  HeldNew'
<1>0. /\ HeldNew /\ ListsRecorded /\ WorkerType /\ FilesFresh /\ TypeOK
      /\ DOMAIN disk_rb \subseteq DOMAIN disk_rb'
      /\ \A s \in DOMAIN journal_rb : s \in DOMAIN journal_rb' /\ Creator(s)' = Creator(s)
    BY StoreGrows DEF DiskInv, OrderInv, JournalInv, TypeOK
<1>1. ASSUME NEW l \in Workers, Quiet(l)
      PROVE  /\ pc'[l] \in Building => \A i \in DOMAIN orb'[l] : NewInHand(l, i)'
             /\ pc'[l] = "attr" => Creator(held[l])' = cur'[l]
             /\ pc'[l] = "bump" => orb'[l][idx'[l]] \in DOMAIN disk_rb' \/ held'[l] = 0
  <2>1. pc'[l] \in Building => \A i \in DOMAIN orb'[l] : NewInHand(l, i)'
    <3>1. pc[l] \in Building => \A i \in DOMAIN orb[l] : NewInHand(l, i)'
        BY <1>1, HeldQuiet
    <3> QED
        BY <1>1, <3>1 DEF Quiet
  <2>2. ASSUME pc[l] = "attr" PROVE Creator(held[l])' = cur[l]
    <3>1. held[l] \in DOMAIN journal_rb /\ Creator(held[l]) = cur[l]
        BY <1>0, <2>2 DEF ListsRecorded, FilesFresh, HeldNew
    <3>2. PICK x : x = held[l]
        OBVIOUS
    <3>3. Creator(x)' = Creator(x)
        BY <1>0, <3>1, <3>2
    <3> QED
        BY <1>1, <3>1, <3>2, <3>3 DEF Quiet, Creator
  <2>3. pc[l] = "bump" => orb[l][idx[l]] \in DOMAIN disk_rb' \/ held[l] = 0
      BY <1>0 DEF HeldNew
  <2> QED
      BY <1>1, <2>1, <2>2, <2>3 DEF Quiet
<1>2. ASSUME NEW k \in Workers, DoWope(k), ~Quiet(k)
      PROVE  /\ pc'[k] \in Building => \A i \in DOMAIN orb'[k] : NewInHand(k, i)'
             /\ pc'[k] = "attr" => Creator(held[k])' = cur'[k]
             /\ pc'[k] = "bump" => orb'[k][idx'[k]] \in DOMAIN disk_rb' \/ held'[k] = 0
  <2>1. CASE Builds(k)
    <3>1. \A i \in DOMAIN orb'[k] : NewInHand(k, i)'
        BY <2>1, HeldEdits, HeldCounts DEF Builds
    <3>2. ASSUME pc'[k] = "attr" PROVE Creator(held[k])' = cur'[k]
      <4>1. NewBlock(k)
          BY <1>0, <2>1, <3>2 DEF Builds, ReadBase, DeleteBlock, PutBlockAttr, EndEdits,
             ReadCount, WriteCount, Goto, WorkerType
      <4>2. /\ held'[k] = clock /\ cur' = cur
            /\ journal_rb' = Put(journal_rb, clock, <<cur[k], idx[k]>>)
          BY <1>0, <4>1 DEF NewBlock, WriteBlock, DiskAssumption, Goto, WorkerType
      <4> QED
          BY <4>2 DEF Creator, Put
    <3>3. ASSUME pc'[k] = "bump"
          PROVE  orb'[k][idx'[k]] \in DOMAIN disk_rb' \/ held'[k] = 0
      <4>1. ReadCount(k)
          BY <1>0, <2>1, <3>3 DEF Builds, ReadBase, DeleteBlock, NewBlock, PutBlockAttr,
             EndEdits, WriteCount, Goto, WorkerType
      <4>2. /\ pc[k] = "count" /\ idx[k] <= Len(orb[k])
            /\ orb'[k] = orb[k] /\ idx'[k] = idx[k] /\ disk_rb' = disk_rb
            /\ held'[k] = ReferCount(orb[k][idx[k]])
          BY <1>0, <4>1 DEF ReadCount, Goto, WorkerType, files
      <4>3. idx[k] \in DOMAIN orb[k] /\ idx[k] \in Nat
          BY <1>0, <4>2, LenProperties DEF WorkerType
      <4>4. NewInHand(k, idx[k]) /\ ~Counted(k, idx[k])
          BY <1>0, <4>2, <4>3 DEF HeldNew, Building, BeforeBind, Counted
      <4> QED
          BY <4>2, <4>4 DEF NewInHand
    <3> QED
        BY <3>1, <3>2, <3>3
  <2>2. CASE ~Builds(k)
    <3>1. pc'[k] \notin Building
        BY <1>0, <1>2, <2>2, OnlyBuilds
    <3> QED
        BY <3>1 DEF Building, BeforeBind
  <2> QED
      BY <2>1, <2>2
<1>3. ASSUME CrashRestart PROVE HeldNew'
    BY <1>3 DEF CrashRestart, HeldNew, Building, BeforeBind
<1>4. ASSUME ~CrashRestart, NEW l \in Workers
      PROVE  Quiet(l) \/ DoWope(l)
    BY <1>0, <1>4, OneActs
<1>5. ASSUME ~CrashRestart PROVE HeldNew'
  <2>1. \A l \in Workers :
           /\ pc'[l] \in Building => \A i \in DOMAIN orb'[l] : NewInHand(l, i)'
           /\ pc'[l] = "attr" => Creator(held[l])' = cur'[l]
           /\ pc'[l] = "bump" => orb'[l][idx'[l]] \in DOMAIN disk_rb' \/ held'[l] = 0
      BY <1>1, <1>2, <1>4, <1>5
  <2> QED
      BY <2>1 DEF HeldNew
<1> QED
    BY <1>3, <1>5

\* A block that stage onJournal has come to is on disk afterwards.
LEMMA CopyCopies ==
    ASSUME DiskInv, NEW k \in Workers, CopyBlock(k)
    PROVE  orb[k][idx[k]] \in DOMAIN disk_rb'
<1>0. /\ WorkerType /\ BoundNew /\ BoundRecorded /\ CopiedInStage /\ StagesInOrder
      /\ FilesFresh
    BY DEF DiskInv, OrderInv, JournalInv, TypeOK
<1>1. PICK s, v : s = orb[k][idx[k]] /\ v = Target[cur[k]]
    OBVIOUS
<1>2. /\ pc[k] = "copy" /\ idx[k] <= Len(orb[k])
      /\ disk_rb' = IF IsNew(s) /\ s \in DOMAIN journal_rb
                    THEN Put(disk_rb, s, journal_rb[s]) ELSE disk_rb
    BY <1>1 DEF CopyBlock, Copying
<1>3. idx[k] \in DOMAIN orb[k]
    BY <1>0, <1>2, LenProperties DEF WorkerType
<1>4. v \in DOMAIN gh_attr /\ orb[k] = gh_attr[v]
    BY <1>0, <1>1, <1>2 DEF CopiedInStage, WorkerCopied, StagesInOrder, AfterBind
<1>5. /\ s \in DOMAIN journal_rb
      /\ s \in DOMAIN disk_rb \/ ReferCount(s) = 1
    BY <1>0, <1>1, <1>3, <1>4 DEF BoundNew, CopyIsDue, BoundRecorded, Recorded, FilesFresh
<1> QED
    BY <1>1, <1>2, <1>5 DEF IsNew, Put

\* Where the logs of the queues come from.
LEMMA LogsStep ==
    ASSUME TypeOK, [Next]_vars, NEW log,
           \/ \E i \in DOMAIN wope_logs' : wope_logs'[i] = log
           \/ \E i \in DOMAIN jobs' : jobs'[i] = log
    PROVE  \/ \E i \in DOMAIN wope_logs : wope_logs[i] = log
           \/ \E i \in DOMAIN jobs : jobs[i] = log
           \/ log.state \in {"init", "onJournal"}
           \/ \E k \in Workers : RequeueOnDisk(k) /\ log.id = cur[k]
<1>0. wope_logs \in Seq(WopeLog) /\ jobs \in Seq(WopeLog) /\ WorkerType
    BY DEF TypeOK, QueueType
<1> DEFINE Old == \/ \E i \in DOMAIN wope_logs : wope_logs[i] = log
                  \/ \E i \in DOMAIN jobs : jobs[i] = log
<1>1. ASSUME NEW new \in WopeLog, wope_logs' = Append(wope_logs, new), jobs' = jobs
      PROVE  Old \/ log = new
    BY <1>0, <1>1, AppendIndices
<1>2. ASSUME NEW w \in Writes, Submit(w) PROVE Old \/ log.state = "init"
  <2>1. PICK new \in WopeLog :
           new.state = "init" /\ wope_logs' = Append(wope_logs, new) /\ jobs' = jobs
      BY <1>2 DEF Submit, WopeLog, Stage
  <2> HIDE DEF Old
  <2> QED
      BY <2>1, <1>1
<1>3. ASSUME NEW k \in Workers, RequeueOnJournal(k) PROVE Old \/ log.state = "onJournal"
  <2>1. PICK new \in WopeLog :
           new.state = "onJournal" /\ wope_logs' = Append(wope_logs, new) /\ jobs' = jobs
      BY <1>0, <1>3 DEF RequeueOnJournal, Requeue, WopeLog, Stage, WorkerType
  <2> HIDE DEF Old
  <2> QED
      BY <2>1, <1>1
<1>4. ASSUME NEW k \in Workers, RequeueOnDisk(k) PROVE Old \/ log.id = cur[k]
  <2>1. PICK new \in WopeLog :
           new.id = cur[k] /\ wope_logs' = Append(wope_logs, new) /\ jobs' = jobs
      BY <1>0, <1>4 DEF RequeueOnDisk, Requeue, WopeLog, Stage, WorkerType
  <2> HIDE DEF Old
  <2> QED
      BY <2>1, <1>1
<1>5. ASSUME Dispatch PROVE Old
    BY <1>0, <1>5, ConcatIndices DEF Dispatch
<1>6. ASSUME NEW k \in Workers, Take(k) PROVE Old
    BY <1>0, <1>6, TailIndices DEF Take
<1>7. ASSUME UNCHANGED <<wope_logs, jobs>> PROVE Old
    BY <1>7
<1>8. ASSUME NEW k \in Workers, Builds(k) \/ EditPastEnd(k) \/ Bind(k) \/ Copies(k) \/ TellDisk(k)
      PROVE  Old
  <2>1. UNCHANGED <<wope_logs, jobs>>
      BY <1>8, BuildsStay, CopiesStay DEF Stays, EditPastEnd, Bind, TellDisk, queues
  <2> QED
      BY <2>1, <1>7
<1>9. ASSUME NEW r \in Reads, Ask(r) \/ DoRope(r) PROVE UNCHANGED <<wope_logs, jobs>>
    BY <1>9, ReadsAside DEF queues
<1>10. ASSUME CrashRestart PROVE FALSE
    BY <1>10 DEF CrashRestart
<1>11. ASSUME UNCHANGED vars PROVE UNCHANGED <<wope_logs, jobs>>
    BY <1>11 DEF vars, queues
<1> HIDE DEF Old
<1>12. Old \/ log.state \in {"init", "onJournal"}
           \/ \E k \in Workers : RequeueOnDisk(k) /\ log.id = cur[k]
    BY <1>2, <1>3, <1>4, <1>5, <1>6, <1>7, <1>8, <1>9, <1>10, <1>11, WorkerSteps
    DEF Next, Leaves
<1> QED
    BY <1>12 DEF Old

\* A log is queued for the last reply when everything is copied, and that stays.
LEMMA LogsCopied ==
    ASSUME DiskAssumption, DiskInv, [Next]_vars, NEW log,
           \/ \E i \in DOMAIN wope_logs' : wope_logs'[i] = log
           \/ \E i \in DOMAIN jobs' : jobs'[i] = log
    PROVE  LogOnDisk(log)'
<1>0. /\ CopiedInStage /\ StagesInOrder /\ TypeOK /\ WorkerType /\ VersionsKept
      /\ DOMAIN disk_rb \subseteq DOMAIN disk_rb'
    BY StoreGrows DEF DiskInv, OrderInv, JournalInv, TypeOK
<1>1. PICK v : v = Target[log.id]
    OBVIOUS
<1>2. ASSUME log.state = "onDisk" PROVE v \in DOMAIN gh_attr /\ OnDisk(v)
  <2>1. CASE \/ \E i \in DOMAIN wope_logs : wope_logs[i] = log
             \/ \E i \in DOMAIN jobs : jobs[i] = log
    <3>1. LogInOrder(log) /\ LogOnDisk(log)
        BY <1>0, <2>1 DEF CopiedInStage, StagesInOrder
    <3> QED
        BY <1>1, <1>2, <3>1 DEF LogInOrder, LogOnDisk
  <2>2. CASE \E k \in Workers : RequeueOnDisk(k) /\ log.id = cur[k]
    <3>1. PICK k \in Workers : RequeueOnDisk(k) /\ log.id = cur[k]
        BY <2>2
    <3>2. pc[k] = "copy" /\ idx[k] > Len(orb[k])
        BY <1>0, <3>1, LenProperties DEF RequeueOnDisk, Copying, WorkerType
    <3>3. v \in DOMAIN gh_attr /\ WorkerCopied(k)
        BY <1>0, <1>1, <3>1, <3>2 DEF CopiedInStage, StagesInOrder, AfterBind
    <3>4. \A i \in DOMAIN orb[k] : i < idx[k]
        BY <1>0, <3>2, LenProperties DEF WorkerType
    <3> QED
        BY <1>1, <3>1, <3>2, <3>3, <3>4 DEF WorkerCopied, OnDisk
  <2> QED
      BY <1>0, <1>2, <2>1, <2>2, LogsStep
<1>3. ASSUME log.state = "onDisk" PROVE OnDisk(v)'
    BY <1>0, <1>2, <1>3, OnDiskStays
<1> QED
    BY <1>1, <1>3 DEF LogOnDisk

\* So is what workers have copied.
LEMMA WorkersCopied ==
    ASSUME DiskAssumption, DiskInv, [Next]_vars, NEW k \in Workers, ~CrashRestart
    PROVE  WorkerCopied(k)'
<1>0. /\ CopiedInStage /\ StagesInOrder /\ TypeOK /\ WorkerType /\ VersionsKept
      /\ jobs \in Seq(WopeLog)
      /\ DOMAIN disk_rb \subseteq DOMAIN disk_rb'
    BY StoreGrows DEF DiskInv, OrderInv, JournalInv, TypeOK, QueueType
<1>1. CASE Quiet(k)
  <2>1. PICK v : v = Target[cur[k]]
      OBVIOUS
  <2>2. WorkerCopied(k) /\ (pc[k] \in {"tellDisk", "copy"} => v \in DOMAIN gh_attr)
      BY <1>0, <2>1 DEF CopiedInStage, StagesInOrder, AfterBind
  <2>3. pc[k] = "tellDisk" => OnDisk(v)'
      BY <1>0, <2>1, <2>2, OnDiskStays DEF WorkerCopied
  <2> QED
      BY <1>0, <1>1, <2>1, <2>2, <2>3 DEF WorkerCopied, Quiet, VersionsKept, OnDisk
<1>2. CASE Take(k)
  <2>1. /\ jobs # <<>> /\ UNCHANGED <<gh_attr, disk_rb>> /\ cur'[k] = Head(jobs).id
        /\ Head(jobs) = jobs[1] /\ 1 \in DOMAIN jobs
      BY <1>0, <1>2, TailIndices DEF Take, WorkerType, kv, files
  <2>2. jobs[1] \in WopeLog /\ LogOnDisk(jobs[1])
      BY <1>0, <2>1 DEF CopiedInStage
  <2>3. pc'[k] # "copy" /\ (pc'[k] = "tellDisk" => jobs[1].state = "onDisk")
      BY <1>0, <1>2, <2>1, <2>2 DEF Take, Goto, WorkerType, WopeLog, Stage
  <2> QED
      BY <2>1, <2>2, <2>3 DEF WorkerCopied, LogOnDisk, OnDisk
<1>3. CASE ReadTarget(k)
  <2>1. /\ pc[k] = "target" /\ pc'[k] = "copy" /\ idx'[k] = 1 /\ cur' = cur
        /\ orb'[k] = ListAt(gh_attr, Target[cur[k]]) /\ gh_attr' = gh_attr
      BY <1>0, <1>3 DEF ReadTarget, Goto, WorkerType, kv
  <2>2. Target[cur[k]] \in DOMAIN gh_attr
      BY <1>0, <2>1 DEF StagesInOrder, AfterBind
  <2>3. orb'[k] = gh_attr[Target[cur[k]]] /\ orb'[k] \in Seq(Nat)
      BY <1>0, <2>1, <2>2 DEF ListAt, TypeOK, StoreType
  <2>4. \A i \in DOMAIN orb'[k] : ~(i < 1)
      BY <2>3, LenProperties
  <2> QED
      BY <2>1, <2>3, <2>4 DEF WorkerCopied
<1>4. CASE CopyBlock(k)
  <2>1. /\ pc[k] = "copy" /\ pc'[k] = "copy" /\ idx'[k] = idx[k] + 1 /\ cur' = cur
        /\ orb'[k] = orb[k] /\ gh_attr' = gh_attr /\ orb[k] \in Seq(Nat) /\ idx[k] \in Nat
      BY <1>0, <1>4 DEF CopyBlock, Copying, Goto, WorkerType, kv
  <2>2. WorkerCopied(k)
      BY <1>0 DEF CopiedInStage
  <2>3. \A i \in DOMAIN orb[k] : i < idx[k] + 1 => i < idx[k] \/ i = idx[k]
      BY <2>1, LenProperties
  <2>4. orb[k][idx[k]] \in DOMAIN disk_rb'
      BY <1>4, CopyCopies
  <2>5. \A i \in DOMAIN orb[k] : i < idx[k] + 1 => orb[k][i] \in DOMAIN disk_rb'
      BY <1>0, <2>1, <2>2, <2>3, <2>4 DEF WorkerCopied
  <2> QED
      BY <2>1, <2>2, <2>5 DEF WorkerCopied
<1>5. CASE Builds(k) \/ Bind(k) \/ TellJournal(k) \/ Leaves(k)
  <2>1. pc'[k] \notin {"tellDisk", "copy"}
    <3>1. CASE Builds(k)
        BY <1>0, <3>1, BuildsStay DEF WorkerType, BeforeBind
    <3>2. CASE Bind(k) \/ TellJournal(k) \/ Leaves(k)
        BY <1>0, <3>2 DEF Bind, TellJournal, Leaves, RequeueOnJournal, RequeueOnDisk,
           TellDisk, Finish, Goto, WorkerType
    <3> QED
        BY <1>5, <3>1, <3>2
  <2> QED
      BY <2>1 DEF WorkerCopied
<1>6. CASE EditPastEnd(k)
    BY <1>1, <1>6 DEF EditPastEnd, locals, Quiet
<1>7. ~CopyFails(k)
    BY DEF CopyFails, DiskAssumption
<1>8. Quiet(k) \/ DoWope(k)
    BY <1>0, OneActs
<1> QED
    BY <1>1, <1>2, <1>3, <1>4, <1>5, <1>6, <1>7, <1>8, WorkerSteps DEF Copies

LEMMA CopiedStep ==
    ASSUME DiskAssumption, DiskInv, [Next]_vars
    PROVE  CopiedInStage'
<1>1. ASSUME NEW k \in Workers PROVE WorkerCopied(k)'
  <2>1. CASE CrashRestart
      BY <2>1 DEF CrashRestart, WorkerCopied
  <2> QED
      BY <2>1, WorkersCopied
<1>2. ASSUME NEW log, \/ \E i \in DOMAIN wope_logs' : wope_logs'[i] = log
                      \/ \E i \in DOMAIN jobs' : jobs'[i] = log
      PROVE  log.state = "onDisk" => OnDisk(Target[log.id])'
  <2>1. LogOnDisk(log)'
      BY <1>2, LogsCopied
  <2> QED
      BY <2>1 DEF LogOnDisk
<1> QED
    BY <1>1, <1>2 DEF CopiedInStage, LogOnDisk, OnDisk

\* The disk's inductive invariant holds in every reachable state.
LEMMA DiskStep ==
    ASSUME DiskAssumption, DiskInv, [Next]_vars
    PROVE  DiskInv'
BY StoreGrows, RecordsStep, BasesStep, BoundNewStep, HeldStep, CopiedStep, AckedStep
DEF DiskInv, OrderInv, JournalInv, TypeOK

LEMMA DiskInvariant ==
    ASSUME DiskAssumption
    PROVE  Spec => []DiskInv
<1>1. Init => FilesFresh /\ RecordsFiled /\ BasesSettled /\ BoundNew /\ HeldNew
              /\ CopiedInStage /\ AckedOnDiskIsReadable
  <2> SUFFICES ASSUME Init
               PROVE  FilesFresh /\ RecordsFiled /\ BasesSettled /\ BoundNew /\ HeldNew
                      /\ CopiedInStage /\ AckedOnDiskIsReadable
      OBVIOUS
  <2>1. FilesFresh /\ RecordsFiled /\ BasesSettled /\ BoundNew /\ AckedOnDiskIsReadable
      BY DEF Init, FilesFresh, SerialsFresh, RecordsFiled, BasesSettled, BoundNew, AckedOnDiskIsReadable
  <2>2. HeldNew /\ CopiedInStage
      BY DEF Init, HeldNew, Building, BeforeBind, CopiedInStage, WorkerCopied
  <2> QED
      BY <2>1, <2>2
<1>2. DiskInv /\ [Next]_vars => DiskInv'
    BY DiskStep
<1>3. OneTarget
    BY DEF DiskAssumption
<1>4. Spec => []OrderInv
    BY <1>3, OrderInvariant
<1>5. Init /\ OrderInv => DiskInv
    BY <1>1 DEF DiskInv
<1> QED
    BY <1>2, <1>4, <1>5, PTL DEF Spec

\* A client that was told onDisk finds every block of its version under the
\* disk root: also after crashes, and whatever other clients write at the
\* same time.
THEOREM AckedOnDiskAlwaysReadable ==
    ASSUME DiskAssumption
    PROVE  Spec => []AckedOnDiskIsReadable
<1>1. DiskInv => AckedOnDiskIsReadable
    BY DEF DiskInv
<1> QED
    BY <1>1, DiskInvariant, PTL

----------------------------------------------------------------------------
(* What is read is what was written. *)

\* A read is of a version that is on disk, and fixed: what it has read so far
\* are the blocks it was asked for.
ReadSoFar(r) ==
    /\ rpc[r] \in {"asked", "reading", "answered"} => Settled(ReadOf[r].obj)
    /\ rpc[r] \in {"new", "asked"} => answer[r] = <<>>
    /\ rpc[r] \in {"reading", "answered"} =>
          /\ serials[r] = ListAt(gh_attr, ReadOf[r].obj)
          /\ Len(answer[r]) <= Len(ReadOf[r].blocks)
          /\ \A i \in DOMAIN answer[r] :
                /\ ReadOf[r].blocks[i] + 1 \in DOMAIN serials[r]
                /\ answer[r][i] = journal_rb[serials[r][ReadOf[r].blocks[i] + 1]]
    /\ rpc[r] = "answered" => Len(answer[r]) = Len(ReadOf[r].blocks)
ReadsInv == DiskInv /\ \A r \in Reads : ReadSoFar(r)

\* Reads do not disturb each other.
LEMMA OneReads ==
    ASSUME ReadType, [Next]_vars, NEW r \in Reads, ~CrashRestart
    PROVE  \/ rpc'[r] = rpc[r] /\ serials'[r] = serials[r] /\ answer'[r] = answer[r]
           \/ Ask(r) \/ ReadSerials(r) \/ ReadBlock(r) \/ Answer(r)
<1>1. ASSUME NEW q \in Reads, Ask(q) \/ DoRope(q)
      PROVE  \/ rpc'[r] = rpc[r] /\ serials'[r] = serials[r] /\ answer'[r] = answer[r]
             \/ Ask(r) \/ ReadSerials(r) \/ ReadBlock(r) \/ Answer(r)
  <2>1. CASE q = r
      BY <1>1, <2>1 DEF DoRope, ReadPastEnd, reading
  <2>2. CASE q # r
      BY <1>1, <2>2 DEF DoRope, Ask, ReadSerials, ReadBlock, ReadPastEnd, Answer, reading,
         ReadType
  <2> QED
      BY <2>1, <2>2
<1>2. ASSUME NEW k \in Workers, DoWope(k) PROVE UNCHANGED reading
    BY <1>2 DEF DoWope, Take, ReadBase, DeleteBlock, NewBlock, PutBlockAttr, EditPastEnd,
       EndEdits, ReadCount, WriteCount, Bind, TellJournal, RequeueOnJournal, ReadTarget,
       CopyBlock, CopyFails, RequeueOnDisk, TellDisk
<1>3. ASSUME \/ \E w \in Writes : Submit(w)
             \/ Dispatch \/ UNCHANGED vars
      PROVE  UNCHANGED reading
    BY <1>3 DEF Submit, Dispatch, vars
<1> QED
    BY <1>1, <1>2, <1>3 DEF Next, reading

\* What was read stays read: the version and its files are fixed.
LEMMA ReadStays ==
    ASSUME DiskAssumption, DiskInv, [Next]_vars, NEW r \in Reads, ReadSoFar(r),
           rpc'[r] = rpc[r] /\ serials'[r] = serials[r] /\ answer'[r] = answer[r]
    PROVE  ReadSoFar(r)'
<1>0. ClientType /\ BlocksKept /\ BoundRecorded /\ FilesFresh
    BY StoreGrows DEF DiskInv, OrderInv, JournalInv, TypeOK
<1>1. PICK v : v = ReadOf[r].obj
    OBVIOUS
<1>2. ASSUME Settled(v)
      PROVE  /\ Settled(v)' /\ ListAt(gh_attr', v) = ListAt(gh_attr, v)
             /\ \A i \in DOMAIN ListAt(gh_attr, v) :
                   journal_rb'[ListAt(gh_attr, v)[i]] = journal_rb[ListAt(gh_attr, v)[i]]
  <2>1. Settled(v)'
      BY <1>0, <1>2, SettledStays
  <2>2. ListAt(gh_attr', v) = ListAt(gh_attr, v)
      BY <1>2, SettledFixed
  <2>3. \A i \in DOMAIN ListAt(gh_attr, v) : ListAt(gh_attr, v)[i] \in DOMAIN journal_rb
      BY <1>0, BoundListRecorded DEF FilesFresh
  <2> QED
      BY <1>0, <2>1, <2>2, <2>3 DEF BlocksKept
<1>3. rpc[r] \in {"asked", "reading", "answered"} => Settled(v)'
    BY <1>1, <1>2 DEF ReadSoFar
<1>4. ASSUME rpc[r] \in {"reading", "answered"}
      PROVE  /\ serials[r] = ListAt(gh_attr', v)
             /\ \A i \in DOMAIN answer[r] :
                   /\ ReadOf[r].blocks[i] + 1 \in DOMAIN serials[r]
                   /\ answer[r][i] = journal_rb'[serials[r][ReadOf[r].blocks[i] + 1]]
  <2>1. /\ Settled(v) /\ serials[r] = ListAt(gh_attr, v)
        /\ \A i \in DOMAIN answer[r] :
              /\ ReadOf[r].blocks[i] + 1 \in DOMAIN serials[r]
              /\ answer[r][i] = journal_rb[serials[r][ReadOf[r].blocks[i] + 1]]
      BY <1>1, <1>4 DEF ReadSoFar
  <2> QED
      BY <1>2, <2>1
<1>5. /\ rpc[r] \in {"new", "asked"} => answer[r] = <<>>
      /\ rpc[r] \in {"reading", "answered"} => Len(answer[r]) <= Len(ReadOf[r].blocks)
      /\ rpc[r] = "answered" => Len(answer[r]) = Len(ReadOf[r].blocks)
    BY DEF ReadSoFar
<1> QED
    BY <1>1, <1>3, <1>4, <1>5 DEF ReadSoFar

\* A read that was asked for starts with the version's list, and reads block
\* after block of it.
LEMMA ReadGoesOn ==
    ASSUME DiskAssumption, DiskInv, NEW r \in Reads, ReadSoFar(r),
           Ask(r) \/ ReadSerials(r) \/ ReadBlock(r) \/ Answer(r)
    PROVE  ReadSoFar(r)'
<1>0. /\ ReadType /\ FilesFresh
      /\ UNCHANGED <<gh_attr, journal_rb, disk_rb, told>>
      /\ ReadOf[r].blocks \in Seq(Nat) /\ answer[r] \in Seq(Data \cup {Missing})
  <2>1. UNCHANGED <<kv, files, client>>
      BY DEF Ask, ReadSerials, ReadBlock, Answer
  <2>2. ReadOf[r].blocks \in Seq(Nat)
      BY PipelineAssumption
  <2> QED
      BY <2>1, <2>2 DEF DiskInv, OrderInv, JournalInv, TypeOK, ReadType, kv, files, client
<1>1. PICK v : v = ReadOf[r].obj
    OBVIOUS
<1>2. Settled(v)' <=> Settled(v)
    BY <1>0 DEF Settled
<1>3. CASE Ask(r)
  <2>1. /\ Settled(v) /\ answer' = answer /\ rpc[r] = "new" /\ rpc'[r] = "asked"
      BY <1>0, <1>1, <1>3 DEF Ask, ReadType
  <2> QED
      BY <1>1, <1>2, <2>1 DEF ReadSoFar
<1>4. CASE ReadSerials(r)
  <2>1. /\ rpc[r] = "asked" /\ rpc'[r] = "reading" /\ answer' = answer
        /\ serials'[r] = ListAt(gh_attr, v)
      BY <1>0, <1>1, <1>4 DEF ReadSerials, ReadType
  <2>2. answer[r] = <<>> /\ Settled(v)
      BY <1>1, <2>1 DEF ReadSoFar
  <2>3. Len(answer'[r]) <= Len(ReadOf[r].blocks) /\ DOMAIN answer'[r] = {}
      BY <1>0, <2>1, <2>2, LenProperties
  <2> QED
      BY <1>0, <1>1, <1>2, <2>1, <2>2, <2>3 DEF ReadSoFar
<1>5. CASE ReadBlock(r)
  <2> DEFINE n == Len(answer[r]) + 1
             at == ReadOf[r].blocks[n] + 1
             value == IF serials[r][at] \in DOMAIN disk_rb THEN disk_rb[serials[r][at]]
                                                          ELSE Missing
  <2>1. /\ rpc[r] = "reading" /\ rpc' = rpc /\ serials' = serials
        /\ Len(answer[r]) < Len(ReadOf[r].blocks)
        /\ at <= Len(serials[r])
        /\ answer' = [answer EXCEPT ![r] = Append(answer[r], value)]
      BY <1>5 DEF ReadBlock, Reading, Position
  <2>2. n \in 1..Len(ReadOf[r].blocks) /\ ReadOf[r].blocks[n] \in Nat
    <3>1. PICK blocks \in Seq(Nat) : blocks = ReadOf[r].blocks
        BY <1>0
    <3>2. n \in 1..Len(blocks) /\ n \in DOMAIN blocks
        BY <1>0, <2>1, <3>1, LenProperties
    <3>3. blocks[n] \in Nat
        BY <3>1, <3>2
    <3> QED
        BY <3>1, <3>2, <3>3
  <2>3. at \in DOMAIN serials[r]
    <3>1. serials[r] \in Seq(Nat)
        BY <1>0 DEF ReadType
    <3>2. PICK list \in Seq(Nat) : list = serials[r]
        BY <3>1
    <3>3. PICK p \in Nat : p = at
        BY <2>2
    <3>4. Len(list) \in Nat /\ DOMAIN list = 1..Len(list)
        BY LenProperties
    <3>5. p >= 1
        BY <2>2, <3>3
    <3>6. p <= Len(list)
        BY <2>1, <3>2, <3>3
    <3> HIDE DEF at
    <3> QED
        BY <3>2, <3>3, <3>4, <3>5, <3>6
  <2>4. Settled(v) /\ serials[r] = ListAt(gh_attr, v)
      BY <1>1, <2>1 DEF ReadSoFar
  <2>5. serials[r][at] \in DOMAIN disk_rb
      BY <2>3, <2>4, SettledList
  <2>6. value = journal_rb[serials[r][at]] /\ value \in Data \cup {Missing}
      BY <1>0, <2>5, Zenon DEF FilesFresh, DiskInv, OrderInv, JournalInv, TypeOK, StoreType
  <2> HIDE DEF value
  <2>7. answer'[r] = Append(answer[r], value)
      BY <1>0, <2>1 DEF ReadType
  <2>8. /\ DOMAIN answer'[r] = DOMAIN answer[r] \cup {n}
        /\ n \notin DOMAIN answer[r]
        /\ \A i \in DOMAIN answer[r] : answer'[r][i] = answer[r][i]
        /\ answer'[r][n] = value
    <3>1. PICK S, list : S = Data \cup {Missing} /\ list = answer[r]
        OBVIOUS
    <3>2. list \in Seq(S) /\ value \in S
        BY <1>0, <2>6, <3>1
    <3>3. /\ DOMAIN Append(list, value) = DOMAIN list \cup {Len(list) + 1}
          /\ Len(list) + 1 \notin DOMAIN list
          /\ \A i \in DOMAIN list : Append(list, value)[i] = list[i]
          /\ Append(list, value)[Len(list) + 1] = value
        BY <3>2, AppendIndices
    <3> QED
        BY <2>7, <3>1, <3>3
  <2>9. Len(answer'[r]) <= Len(ReadOf[r].blocks)
    <3>1. PICK S, list, m : S = Data \cup {Missing} /\ list = answer[r] /\ m = Len(ReadOf[r].blocks)
        OBVIOUS
    <3>2. list \in Seq(S) /\ value \in S /\ Len(list) < m
        BY <1>0, <2>1, <2>6, <3>1
    <3>3. Len(Append(list, value)) = Len(list) + 1 /\ Len(list) \in Nat
        BY <3>2, AppendProperties, LenProperties
    <3>4. m \in Nat
        BY <1>0, <3>1, LenProperties
    <3> QED
        BY <2>7, <3>1, <3>2, <3>3, <3>4
  <2>10. ASSUME NEW i \in DOMAIN answer'[r]
         PROVE  /\ ReadOf[r].blocks[i] + 1 \in DOMAIN serials[r]
                /\ answer'[r][i] = journal_rb[serials[r][ReadOf[r].blocks[i] + 1]]
    <3>1. CASE i = n
        BY <2>3, <2>6, <2>8, <3>1, Zenon
    <3>2. CASE i \in DOMAIN answer[r]
        BY <2>1, <2>8, <3>2 DEF ReadSoFar
    <3> QED
        BY <2>8, <3>1, <3>2
  <2> QED
      BY <1>0, <1>1, <1>2, <2>1, <2>4, <2>9, <2>10 DEF ReadSoFar
<1>6. CASE Answer(r)
  <2>1. /\ rpc[r] = "reading" /\ ~(Len(answer[r]) < Len(ReadOf[r].blocks))
        /\ rpc'[r] \in {"answered", "lost"} /\ serials' = serials /\ answer' = answer
      BY <1>0, <1>6 DEF Answer, Reading, ReadType
  <2>2. Len(answer[r]) = Len(ReadOf[r].blocks)
      BY <1>0, <2>1, LenProperties DEF ReadSoFar
  <2> QED
      BY <1>0, <1>1, <1>2, <2>1, <2>2 DEF ReadSoFar
<1> QED
    BY <1>3, <1>4, <1>5, <1>6

LEMMA ReadsStep ==
    ASSUME DiskAssumption, ReadsInv, [Next]_vars
    PROVE  ReadsInv'
<1>0. DiskInv /\ ReadType
    BY DEF ReadsInv, DiskInv, OrderInv, JournalInv, TypeOK
<1>1. ASSUME NEW r \in Reads PROVE ReadSoFar(r)'
  <2>1. CASE CrashRestart
    <3>1. CASE rpc[r] \in {"asked", "reading"}
      <4>1. rpc'[r] = "lost"
          BY <2>1, <3>1 DEF CrashRestart
      <4> QED
          BY <4>1 DEF ReadSoFar
    <3>2. CASE rpc[r] \notin {"asked", "reading"}
      <4>1. rpc'[r] = rpc[r] /\ serials'[r] = serials[r] /\ answer'[r] = answer[r]
          BY <2>1, <3>2 DEF CrashRestart
      <4> QED
          BY <1>0, <4>1, ReadStays DEF ReadsInv
    <3> QED
        BY <3>1, <3>2
  <2>2. CASE ~CrashRestart
      BY <1>0, <2>2, OneReads, ReadStays, ReadGoesOn DEF ReadsInv
  <2> QED
      BY <2>1, <2>2
<1> QED
    BY <1>0, <1>1, DiskStep DEF ReadsInv

\* A read a client asks for after it was told onDisk returns what the version
\* consists of, block by block, whatever else the server does and however
\* often it was restarted.
THEOREM ReadsAlwaysReturnWritten ==
    ASSUME DiskAssumption
    PROVE  Spec => []ReadsReturnWritten
<1>1. Init => \A r \in Reads : ReadSoFar(r)
  <2> SUFFICES ASSUME Init, NEW r \in Reads PROVE ReadSoFar(r)
      OBVIOUS
  <2>1. rpc[r] = "new" /\ answer[r] = <<>>
      BY DEF Init
  <2> QED
      BY <2>1 DEF ReadSoFar
<1>2. ReadsInv /\ [Next]_vars => ReadsInv'
    BY ReadsStep
<1>3. ReadsInv => ReadsReturnWritten
  <2> SUFFICES ASSUME ReadsInv, NEW r \in Reads, rpc[r] = "answered"
               PROVE  answer[r] = [i \in DOMAIN ReadOf[r].blocks |->
                                      Contents(ReadOf[r].obj)[ReadOf[r].blocks[i] + 1]]
      BY DEF ReadsReturnWritten
  <2>1. /\ answer[r] \in Seq(Data \cup {Missing}) /\ ReadOf[r].blocks \in Seq(Nat)
        /\ ReadSoFar(r)
      BY PipelineAssumption DEF ReadsInv, DiskInv, OrderInv, JournalInv, TypeOK, ReadType
  <2>2. DOMAIN answer[r] = DOMAIN ReadOf[r].blocks
      BY <2>1, LenProperties DEF ReadSoFar
  <2>3. ASSUME NEW i \in DOMAIN answer[r]
        PROVE  answer[r][i] = Contents(ReadOf[r].obj)[ReadOf[r].blocks[i] + 1]
    <3>1. /\ ReadOf[r].blocks[i] + 1 \in DOMAIN ListAt(gh_attr, ReadOf[r].obj)
          /\ answer[r][i] = journal_rb[ListAt(gh_attr, ReadOf[r].obj)[ReadOf[r].blocks[i] + 1]]
        BY <2>1 DEF ReadSoFar
    <3>2. ReadOf[r].obj \in DOMAIN gh_attr
        BY <3>1 DEF ListAt
    <3> QED
        BY <3>1, <3>2, Zenon DEF ListAt, Contents
  <2>4. answer[r] = [i \in DOMAIN answer[r] |-> answer[r][i]]
      BY <2>1
  <2> QED
      BY <2>2, <2>3, <2>4
<1>4. Init /\ DiskInv => ReadsInv
    BY <1>1 DEF ReadsInv
<1> QED
    BY <1>2, <1>3, <1>4, DiskInvariant, PTL DEF Spec

----------------------------------------------------------------------------
(* The lists that do_WOPE makes are the ones the edits describe. *)

\* The list after each edit is defined by the list before it.
LEMMA EditedUpToEquation ==
    ASSUME NEW w \in Writes, NEW blocks
    PROVE  \A i \in 0..Len(Edits[w]) :
              EditedUpTo(blocks, w)[i] =
                  IF i = 0 THEN blocks
                  ELSE EditOf(EditedUpTo(blocks, w)[i - 1], Edits[w][i], <<w, i>>)
<1> DEFINE Defines(g, n) ==
              g = [i \in 0..n |-> IF i = 0 THEN blocks
                                  ELSE EditOf(g[i - 1], Edits[w][i], <<w, i>>)]
           S == {n \in Nat : \E g : Defines(g, n)}
<1>1. Len(Edits[w]) \in Nat
    BY HistoryAssumption, LenProperties
<1>2. 0 \in S
  <2>1. Defines([i \in 0..0 |-> blocks], 0)
      OBVIOUS
  <2> QED
      BY <2>1
<1>3. ASSUME NEW n \in Nat, n \in S PROVE n + 1 \in S
  <2>1. PICK g : Defines(g, n)
      BY <1>3
  <2> DEFINE h == [i \in 0..(n + 1) |->
                      IF i = n + 1 THEN EditOf(g[n], Edits[w][n + 1], <<w, n + 1>>) ELSE g[i]]
  <2>2. ASSUME NEW i \in 0..(n + 1)
        PROVE  h[i] = IF i = 0 THEN blocks ELSE EditOf(h[i - 1], Edits[w][i], <<w, i>>)
    <3>1. CASE i = n + 1
      <4>1. h[i - 1] = g[n] /\ i # 0 /\ h[i] = EditOf(g[n], Edits[w][n + 1], <<w, n + 1>>)
          BY <3>1
      <4> QED
          BY <3>1, <4>1
    <3>2. CASE i = 0
      <4>1. h[i] = g[0] /\ g[0] = blocks
          BY <2>1, <3>2
      <4> QED
          BY <3>2, <4>1
    <3>3. CASE i \in 1..n
      <4>1. /\ i \in 0..n /\ i - 1 \in 0..(n + 1) /\ i # 0 /\ i # n + 1 /\ i - 1 # n + 1
          BY <3>3
      <4>2. h[i] = g[i] /\ h[i - 1] = g[i - 1]
          BY <4>1
      <4>3. g[i] = EditOf(g[i - 1], Edits[w][i], <<w, i>>)
          BY <2>1, <4>1
      <4> QED
          BY <4>1, <4>2, <4>3
    <3> QED
        BY <3>1, <3>2, <3>3
  <2>3. DOMAIN h = 0..(n + 1) /\ h = [i \in DOMAIN h |-> h[i]]
      OBVIOUS
  <2> HIDE DEF h
  <2>4. Defines(h, n + 1)
      BY <2>2, <2>3
  <2> HIDE DEF Defines
  <2> QED
      BY <2>4
<1> HIDE DEF Defines
<1>4. Nat \subseteq S
  <2> HIDE DEF S
  <2> QED
      BY <1>2, <1>3, NatSetInduction
<1>5. \E g : Defines(g, Len(Edits[w]))
    BY <1>1, <1>4
<1>6. EditedUpTo(blocks, w) = CHOOSE g : Defines(g, Len(Edits[w]))
    BY DEF EditedUpTo, Defines
<1>7. Defines(EditedUpTo(blocks, w), Len(Edits[w]))
    BY <1>5, <1>6
<1> QED
    BY <1>7 DEF Defines

\* An edit cuts the list where the code inserts, erases and assigns.
LEMMA EditOfList ==
    ASSUME NEW T, NEW list \in Seq(T), NEW edit \in Edit, NEW block \in T,
           InRange(edit, Len(list))
    PROVE  EditOf(list, edit, block) =
              CASE edit.type = "Delete"    -> RemoveAt(list, edit.num + 1)
                [] edit.type = "Insert"    -> InsertAt(list, edit.num + 1, block)
                [] edit.type = "OverWrite" -> ReplaceAt(list, edit.num + 1, block)
<1> DEFINE n == edit.num + 1
           before == SubSeq(list, 1, edit.num)
           rest == SubSeq(list, n, Len(list))
<1>1. /\ edit.num \in Nat /\ edit.type \in EditType /\ Len(list) \in Nat
      /\ n \in 1..(Len(list) + 1) /\ n - 1 = edit.num
      /\ edit.type # "Insert" => n \in 1..Len(list)
    BY LenProperties DEF Edit, InRange
<1>2. EditOf(list, edit, block) =
          CASE edit.type = "Delete"    -> before \o Tail(rest)
            [] edit.type = "Insert"    -> before \o <<block>> \o rest
            [] edit.type = "OverWrite" -> before \o <<block>> \o Tail(rest)
    BY DEF EditOf
<1>3. before = SubSeq(list, 1, n - 1)
    BY <1>1
<1>4. CASE edit.type = "Insert"
  <2>1. InsertAt(list, n, block) = before \o <<block>> \o rest
      BY <1>3, Zenon DEF InsertAt
  <2> QED
      BY <1>2, <1>4, <2>1
<1>5. CASE edit.type = "Delete"
  <2>1. n \in 1..Len(list)
      BY <1>1, <1>5
  <2>2. Tail(rest) = SubSeq(list, n + 1, Len(list))
      BY <2>1, TailOfRest
  <2>3. RemoveAt(list, n) = before \o Tail(rest)
      BY <1>3, <2>2, Zenon DEF RemoveAt
  <2> QED
      BY <1>2, <1>5, <2>3
<1>6. CASE edit.type = "OverWrite"
  <2>1. n \in 1..Len(list)
      BY <1>1, <1>6
  <2>2. ReplaceAt(list, n, block) = before \o <<block>> \o Tail(rest)
      BY <2>1, <1>1, <1>3, ReplaceAtParts, TailOfRest
  <2> QED
      BY <1>2, <1>6, <2>2
<1> QED
    BY <1>1, <1>4, <1>5, <1>6 DEF EditType

\* How many edits the list of worker k has seen, and what they have made of
\* the base: the blocks' data are the ones the edits describe.
Applied(k) == CASE pc[k] = "edit" -> idx[k] - 1
                [] pc[k] = "attr" -> idx[k]
                [] OTHER          -> Len(Edits[cur[k]])
BaseData(w) == Image(ListAt(gh_attr, Base[w]), journal_rb)
EditedSoFar(k) ==
    pc[k] \in Building =>
        /\ Applied(k) \in 0..Len(Edits[cur[k]])
        /\ Image(orb[k], journal_rb) = EditedUpTo(BaseData(cur[k]), cur[k])[Applied(k)]
EditsInv == DiskInv /\ \A k \in Workers : EditedSoFar(k)

\* The data of files stays, and of the base of a write that was submitted.
LEMMA ImageStays ==
    ASSUME BlocksKept, NEW list, \A i \in DOMAIN list : list[i] \in DOMAIN journal_rb
    PROVE  Image(list, journal_rb') = Image(list, journal_rb)
BY DEF BlocksKept, Image

LEMMA BaseDataStays ==
    ASSUME DiskAssumption, DiskInv, [Next]_vars, NEW w \in submitted
    PROVE  BaseData(w)' = BaseData(w)
<1>1. PICK v : v = Base[w]
    OBVIOUS
<1>2. BlocksKept /\ Settled(v) /\ BoundRecorded /\ FilesFresh
    BY <1>1, StoreGrows DEF DiskInv, OrderInv, JournalInv, BasesSettled
<1>3. ListAt(gh_attr', v) = ListAt(gh_attr, v)
    BY <1>2, SettledFixed
<1>4. PICK list : list = ListAt(gh_attr, v)
    OBVIOUS
<1>5. \A i \in DOMAIN list : list[i] \in DOMAIN journal_rb
    BY <1>2, <1>4, BoundListRecorded DEF FilesFresh
<1>6. Image(list, journal_rb') = Image(list, journal_rb)
    BY <1>2, <1>5, ImageStays
<1> QED
    BY <1>1, <1>3, <1>4, <1>6 DEF BaseData

LEMMA EditsQuiet ==
    ASSUME DiskAssumption, DiskInv, [Next]_vars, NEW k \in Workers, Quiet(k), EditedSoFar(k)
    PROVE  EditedSoFar(k)'
<1>1. CASE pc[k] \in Building
  <2>1. PICK list, w : list = orb[k] /\ w = cur[k]
      OBVIOUS
  <2>2. BlocksKept /\ ListsRecorded /\ OneLogEach /\ FilesFresh
      BY StoreGrows DEF DiskInv, OrderInv, JournalInv
  <2>3. \A i \in DOMAIN list : list[i] \in DOMAIN journal_rb
      BY <2>1, <2>2 DEF ListsRecorded, Recorded, FilesFresh
  <2>4. Image(list, journal_rb') = Image(list, journal_rb)
      BY <2>2, <2>3, ImageStays
  <2>5. w \in submitted
      BY <1>1, <2>1, <2>2 DEF OneLogEach, Building, BeforeBind
  <2>6. BaseData(w)' = BaseData(w)
      BY <2>5, BaseDataStays
  <2>7. Applied(k)' = Applied(k)
      BY DEF Applied, Quiet
  <2>8. /\ Applied(k) \in 0..Len(Edits[w])
        /\ Image(list, journal_rb) = EditedUpTo(BaseData(w), w)[Applied(k)]
      BY <1>1, <2>1 DEF EditedSoFar
  <2>9. PICK d, n : d = BaseData(w) /\ n = Applied(k)
      OBVIOUS
  <2>10. BaseData(cur[k])' = d /\ cur'[k] = w /\ orb'[k] = list /\ Applied(k)' = n
    <3>1. cur'[k] = w /\ orb'[k] = list
        BY <2>1 DEF Quiet
    <3> QED
        BY <3>1, <2>6, <2>7, <2>9 DEF BaseData
  <2> QED
      BY <2>4, <2>8, <2>9, <2>10 DEF EditedSoFar
<1>2. CASE pc[k] \notin Building
    BY <1>2 DEF EditedSoFar, Quiet
<1> QED
    BY <1>1, <1>2

\* What the next edit makes of the list's data.
LEMMA NextEdit ==
    ASSUME WorkerType, NEW k \in Workers, Editing(k), InRange(EditAt(k), Len(orb[k])),
           EditedSoFar(k),
           NEW data \in Seq(Data), data = Image(orb[k], journal_rb), Len(data) = Len(orb[k])
    PROVE  /\ idx[k] \in 0..Len(Edits[cur[k]])
           /\ EditedUpTo(BaseData(cur[k]), cur[k])[idx[k]] =
                 CASE EditAt(k).type = "Delete" -> RemoveAt(data, EditAt(k).num + 1)
                   [] EditAt(k).type = "Insert" ->
                          InsertAt(data, EditAt(k).num + 1, <<cur[k], idx[k]>>)
                   [] EditAt(k).type = "OverWrite" ->
                          ReplaceAt(data, EditAt(k).num + 1, <<cur[k], idx[k]>>)
<1>0. PICK w, i, edit, block, base, lists :
          /\ w = cur[k] /\ i = idx[k] /\ edit = EditAt(k) /\ block = <<cur[k], idx[k]>>
          /\ base = BaseData(cur[k]) /\ lists = EditedUpTo(base, w)
    OBVIOUS
<1>1. /\ w \in Writes /\ i \in 1..Len(Edits[w]) /\ Len(Edits[w]) \in Nat
      /\ i \in 0..Len(Edits[w]) /\ i # 0
      /\ pc[k] = "edit"
    BY <1>0, EditPosition DEF Editing
<1>2. edit = Edits[w][i] /\ edit \in Edit /\ InRange(edit, Len(data))
    BY <1>0, <1>1, EditsType DEF EditAt
<1>3. block = <<w, i>> /\ block \in Data
    BY <1>0, <1>1 DEF Block, Data
<1>4. data = lists[i - 1]
    BY <1>0, <1>1 DEF EditedSoFar, Applied, Building, BeforeBind
<1>5. lists[i] = EditOf(lists[i - 1], Edits[w][i], <<w, i>>)
  <2>1. \A j \in 0..Len(Edits[w]) :
           EditedUpTo(base, w)[j] =
               IF j = 0 THEN base ELSE EditOf(EditedUpTo(base, w)[j - 1], Edits[w][j], <<w, j>>)
      BY <1>1, EditedUpToEquation
  <2>2. \A j \in 0..Len(Edits[w]) :
           lists[j] = IF j = 0 THEN base ELSE EditOf(lists[j - 1], Edits[w][j], <<w, j>>)
      BY <1>0, <2>1
  <2> QED
      BY <1>1, <2>2
<1>6. lists[i] = EditOf(data, edit, block)
    BY <1>2, <1>3, <1>4, <1>5
<1>7. EditOf(data, edit, block) =
          CASE edit.type = "Delete"    -> RemoveAt(data, edit.num + 1)
            [] edit.type = "Insert"    -> InsertAt(data, edit.num + 1, block)
            [] edit.type = "OverWrite" -> ReplaceAt(data, edit.num + 1, block)
    BY <1>2, <1>3, EditOfList
<1> QED
    BY <1>0, <1>1, <1>6, <1>7

\* The edits a worker applies are edits of the data.
LEMMA EditsBuild ==
    ASSUME DiskAssumption, DiskInv, [Next]_vars, NEW k \in Workers, Builds(k),
           EditedSoFar(k)
    PROVE  EditedSoFar(k)'
<1>0. /\ TypeOK /\ WorkerType /\ OneLogEach /\ ListsRecorded /\ FilesFresh
      /\ BlocksKept /\ BoundRecorded
    BY StoreGrows DEF DiskInv, OrderInv, JournalInv, TypeOK
<1>1. PICK w, base : w = cur[k] /\ base = BaseData(w)
    OBVIOUS
<1>2. /\ w \in Writes /\ w \in submitted /\ cur' = cur
      /\ orb[k] \in Seq(Nat) /\ idx[k] \in Nat \ {0}
      /\ Len(Edits[w]) \in Nat
  <2>1. pc[k] # "idle" /\ cur' = cur
      BY BuildsStay DEF Stays
  <2> QED
      BY <1>0, <1>1, <2>1, HistoryAssumption, LenProperties DEF WorkerType, OneLogEach
<1>3. BaseData(cur[k])' = base
  <2>1. BaseData(w)' = BaseData(w)
      BY <1>2, BaseDataStays
  <2> QED
      BY <1>1, <1>2, <2>1 DEF BaseData
<1>4. PICK data : data = Image(orb[k], journal_rb)
    OBVIOUS
<1>5. ASSUME \A i \in DOMAIN orb[k] : orb[k][i] \in DOMAIN journal_rb
      PROVE  /\ data \in Seq(Data) /\ Len(data) = Len(orb[k])
             /\ \A i \in DOMAIN orb[k] :
                   journal_rb'[orb[k][i]] = journal_rb[orb[k][i]] /\ journal_rb[orb[k][i]] \in Data
  <2>1. \A i \in DOMAIN orb[k] : journal_rb[orb[k][i]] \in Data
      BY <1>0, <1>5 DEF TypeOK, StoreType
  <2>2. Image(orb[k], journal_rb) \in Seq(Data) /\ Len(Image(orb[k], journal_rb)) = Len(orb[k])
    <3>1. PICK S, T, s, map : S = Nat /\ T = Data /\ s = orb[k] /\ map = journal_rb
        OBVIOUS
    <3>2. s \in Seq(S) /\ \A i \in DOMAIN s : map[s[i]] \in T
        BY <1>2, <2>1, <3>1
    <3>3. Image(s, map) \in Seq(T) /\ Len(Image(s, map)) = Len(s)
        BY <3>2, ImageType
    <3> QED
        BY <3>1, <3>3
  <2> QED
      BY <1>0, <1>4, <1>5, <2>1, <2>2 DEF BlocksKept
<1>6. ASSUME NEW n, Applied(k)' = n, n \in 0..Len(Edits[w]),
             Image(orb'[k], journal_rb') = EditedUpTo(base, w)[n]
      PROVE  EditedSoFar(k)'
    BY <1>1, <1>2, <1>3, <1>6 DEF EditedSoFar
<1>7. \A i \in DOMAIN orb[k] : orb[k][i] \in DOMAIN journal_rb
    BY <1>0 DEF ListsRecorded, Recorded, FilesFresh
<1>8. CASE ReadBase(k)
  <2>1. PICK list, v : v = Base[w] /\ list = ListAt(gh_attr, v)
      OBVIOUS
  <2>2. orb'[k] = list /\ pc'[k] = "edit" /\ idx'[k] = 1 /\ journal_rb' = journal_rb
      BY <1>0, <1>1, <1>8, <2>1 DEF ReadBase, Goto, WorkerType, files
  <2>3. Applied(k)' = 0
      BY <2>2 DEF Applied
  <2>4. Image(orb'[k], journal_rb') = base
      BY <1>1, <2>1, <2>2 DEF BaseData
  <2>5. 0 \in 0..Len(Edits[w])
      BY <1>2
  <2>6. EditedUpTo(base, w)[0] = base
      BY <1>2, <2>5, EditedUpToEquation
  <2> QED
      BY <1>6, <2>3, <2>4, <2>5, <2>6
<1>9. CASE DeleteBlock(k)
  <2>1. PICK n : n = EditAt(k).num + 1
      OBVIOUS
  <2>2. n \in 1..Len(orb[k]) /\ Editing(k) /\ InRange(EditAt(k), Len(orb[k]))
        /\ EditAt(k).type = "Delete"
      BY <1>0, <1>9, <2>1, EditPosition DEF DeleteBlock
  <2>3. /\ orb'[k] = RemoveAt(orb[k], n) /\ pc'[k] = "edit" /\ idx'[k] = idx[k] + 1
        /\ journal_rb' = journal_rb
      BY <1>0, <1>9, <2>1 DEF DeleteBlock, Goto, WorkerType, files
  <2>4. Applied(k)' = idx[k]
      BY <1>2, <2>3 DEF Applied
  <2>5. Image(orb'[k], journal_rb') = RemoveAt(data, n)
    <3>1. Image(RemoveAt(orb[k], n), journal_rb) = RemoveAt(Image(orb[k], journal_rb), n)
      <4>1. PICK S, s : S = Nat /\ s = orb[k]
          OBVIOUS
      <4>2. s \in Seq(S) /\ n \in 1..Len(s)
          BY <1>2, <2>2, <4>1
      <4>3. Image(RemoveAt(s, n), journal_rb) = RemoveAt(Image(s, journal_rb), n)
          BY <4>2, ImageRemoveAt
      <4> QED
          BY <4>1, <4>3
    <3> QED
        BY <1>4, <2>3, <3>1
  <2>6. idx[k] \in 0..Len(Edits[w]) /\ EditedUpTo(base, w)[idx[k]] = RemoveAt(data, n)
      BY <1>0, <1>1, <1>4, <1>5, <1>7, <2>1, <2>2, NextEdit
  <2> QED
      BY <1>6, <2>4, <2>5, <2>6
<1>10. CASE NewBlock(k)
  <2>1. PICK n, block : n = EditAt(k).num + 1 /\ block = <<cur[k], idx[k]>>
      OBVIOUS
  <2>2. /\ n \in 1..(Len(orb[k]) + 1) /\ clock \in Nat
        /\ EditAt(k).type \in {"Insert", "OverWrite"}
        /\ EditAt(k).type # "Insert" => n \in 1..Len(orb[k])
        /\ Editing(k) /\ InRange(EditAt(k), Len(orb[k]))
        /\ block \in Data
      BY <1>0, <1>1, <1>2, <1>10, <2>1, EditPosition
      DEF NewBlock, TypeOK, StoreType, EditType, Block, Data
  <2>3. /\ orb'[k] = IF EditAt(k).type = "Insert" THEN InsertAt(orb[k], n, clock)
                                                 ELSE ReplaceAt(orb[k], n, clock)
        /\ pc'[k] = "attr" /\ idx'[k] = idx[k]
        /\ journal_rb' = Put(journal_rb, clock, block)
      BY <1>0, <1>10, <2>1 DEF NewBlock, WriteBlock, DiskAssumption, Goto, WorkerType
  <2>4. Applied(k)' = idx[k] /\ journal_rb'[clock] = block
      BY <2>3 DEF Applied, Put
  <2>5. Image(orb'[k], journal_rb') = IF EditAt(k).type = "Insert" THEN InsertAt(data, n, block)
                                                                  ELSE ReplaceAt(data, n, block)
    <3>0. PICK S, T, s, e, map, new :
             /\ S = Nat /\ T = Data /\ s = orb[k] /\ e = clock
             /\ map = journal_rb /\ new = journal_rb'
        OBVIOUS
    <3>1. /\ s \in Seq(S) /\ e \in S /\ new[e] \in T /\ new[e] = block
          /\ \A i \in DOMAIN s : new[s[i]] = map[s[i]] /\ map[s[i]] \in T
        BY <1>2, <1>5, <1>7, <2>2, <2>4, <3>0
    <3>2. CASE EditAt(k).type = "Insert"
      <4>1. n \in 1..(Len(s) + 1)
          BY <2>2, <3>0
      <4>2. ASSUME s \in Seq(S), n \in 1..(Len(s) + 1), e \in S, new[e] \in T,
                   \A i \in DOMAIN s : new[s[i]] = map[s[i]] /\ map[s[i]] \in T
            PROVE  Image(InsertAt(s, n, e), new) = InsertAt(Image(s, map), n, new[e])
          BY ONLY ImageInsertAt, s \in Seq(S), n \in 1..(Len(s) + 1), e \in S, new[e] \in T,
             \A i \in DOMAIN s : new[s[i]] = map[s[i]] /\ map[s[i]] \in T
      <4> QED
          BY <1>4, <2>3, <3>0, <3>1, <3>2, <4>1, <4>2
    <3>3. CASE EditAt(k).type # "Insert"
      <4>1. n \in 1..Len(s)
          BY <2>2, <3>0, <3>3
      <4>2. ASSUME s \in Seq(S), n \in 1..Len(s), e \in S, new[e] \in T,
                   \A i \in DOMAIN s : new[s[i]] = map[s[i]] /\ map[s[i]] \in T
            PROVE  Image(ReplaceAt(s, n, e), new) = ReplaceAt(Image(s, map), n, new[e])
          BY ONLY ImageReplaceAt, s \in Seq(S), n \in 1..Len(s), e \in S, new[e] \in T,
             \A i \in DOMAIN s : new[s[i]] = map[s[i]] /\ map[s[i]] \in T
      <4> QED
          BY <1>4, <2>3, <3>0, <3>1, <3>3, <4>1, <4>2
    <3> QED
        BY <3>2, <3>3
  <2>6. /\ idx[k] \in 0..Len(Edits[w])
        /\ EditedUpTo(base, w)[idx[k]] =
              IF EditAt(k).type = "Insert" THEN InsertAt(data, n, block)
                                           ELSE ReplaceAt(data, n, block)
    <3>1. /\ idx[k] \in 0..Len(Edits[cur[k]])
          /\ EditedUpTo(BaseData(cur[k]), cur[k])[idx[k]] =
                CASE EditAt(k).type = "Delete" -> RemoveAt(data, EditAt(k).num + 1)
                  [] EditAt(k).type = "Insert" ->
                         InsertAt(data, EditAt(k).num + 1, <<cur[k], idx[k]>>)
                  [] EditAt(k).type = "OverWrite" ->
                         ReplaceAt(data, EditAt(k).num + 1, <<cur[k], idx[k]>>)
        BY <1>0, <1>4, <1>5, <1>7, <2>2, NextEdit
    <3> QED
        BY <1>1, <2>1, <2>2, <3>1
  <2> QED
      BY <1>6, <2>4, <2>5, <2>6
<1>11. CASE PutBlockAttr(k) \/ EndEdits(k) \/ ReadCount(k) \/ WriteCount(k)
  <2>1. /\ orb'[k] = orb[k] /\ journal_rb' = journal_rb /\ pc[k] \in Building
      BY <1>0, <1>11 DEF PutBlockAttr, EndEdits, ReadCount, WriteCount, Goto, WorkerType,
         files, Building, BeforeBind
  <2>2. Applied(k) \in 0..Len(Edits[w]) /\ data = EditedUpTo(base, w)[Applied(k)]
      BY <1>1, <1>4, <2>1 DEF EditedSoFar
  <2>3. Applied(k)' = Applied(k)
    <3>1. CASE PutBlockAttr(k)
        BY <1>0, <1>2, <3>1 DEF PutBlockAttr, Goto, WorkerType, Applied
    <3>2. CASE EndEdits(k)
      <4>1. /\ pc[k] = "edit" /\ pc'[k] = "count" /\ ~(idx[k] <= Len(Edits[w]))
          BY <1>0, <1>1, <3>2 DEF EndEdits, Editing, Goto, WorkerType
      <4>2. Applied(k) = idx[k] - 1 /\ Applied(k)' = Len(Edits[w])
          BY <1>1, <1>2, <4>1 DEF Applied
      <4> QED
          BY <1>2, <2>2, <4>1, <4>2
    <3>3. CASE ReadCount(k) \/ WriteCount(k)
        BY <1>0, <1>2, <3>3 DEF ReadCount, WriteCount, Goto, WorkerType, Applied
    <3> QED
        BY <1>11, <3>1, <3>2, <3>3
  <2> QED
      BY <1>4, <1>6, <2>1, <2>2, <2>3
<1> QED
    BY <1>8, <1>9, <1>10, <1>11 DEF Builds

LEMMA EditsStep ==
    ASSUME DiskAssumption, EditsInv, [Next]_vars
    PROVE  EditsInv'
<1>0. DiskInv /\ WorkerType /\ TypeOK
    BY DEF EditsInv, DiskInv, OrderInv, JournalInv, TypeOK
<1>1. ASSUME NEW k \in Workers PROVE EditedSoFar(k)'
  <2>1. CASE pc'[k] \notin Building
      BY <2>1 DEF EditedSoFar
  <2>2. CASE pc'[k] \in Building
    <3>1. CASE Quiet(k)
        BY <1>0, <3>1, EditsQuiet DEF EditsInv
    <3>2. CASE Builds(k)
        BY <1>0, <3>2, EditsBuild DEF EditsInv
    <3>3. CASE DoWope(k) /\ ~Quiet(k)
        BY <1>0, <2>2, <3>2, <3>3, OnlyBuilds
    <3>4. ~CrashRestart
        BY <2>2 DEF CrashRestart, Building, BeforeBind
    <3> QED
        BY <1>0, <3>1, <3>3, <3>4, OneActs
  <2> QED
      BY <2>1, <2>2
<1> QED
    BY <1>0, <1>1, DiskStep DEF EditsInv

LEMMA EditsInvariant ==
    ASSUME DiskAssumption
    PROVE  Spec => []EditsInv
<1>1. Init => \A k \in Workers : EditedSoFar(k)
    BY DEF Init, EditedSoFar, Building, BeforeBind
<1>2. EditsInv /\ [Next]_vars => EditsInv'
    BY EditsStep
<1>3. Init /\ DiskInv => EditsInv
    BY <1>1 DEF EditsInv
<1> QED
    BY <1>2, <1>3, DiskInvariant, PTL DEF Spec
----------------------------------------------------------------------------
(* The pipeline implements VersionStore. *)

\* What the refinement mapping makes of the stored state.
Content == [v \in DOMAIN gh_attr |-> Contents(v)]
Durable == {v \in DOMAIN gh_attr : OnDisk(v)}

\* The actions of the abstract store, said of the mapped state.
LEMMA StoreSubmit ==
    ASSUME NEW w \in Writes, w \notin submitted, submitted' = submitted \cup {w},
           Content' = Content, Durable' = Durable, told' = told
    PROVE  Store!Next
BY DEF Store!Next, Store!Submit, Content, Durable

LEMMA StoreCommit ==
    ASSUME NEW w \in Writes, w \in submitted, Target[w] \notin DOMAIN Content,
           Content' = Put(Content, Target[w], Edited(ListAt(Content, Base[w]), w)),
           Durable' \in {Durable, Durable \cup {Target[w]}},
           submitted' = submitted, told' = told
    PROVE  Store!Next
<1>1. Store!Edited(ListAt(Content, Base[w]), w) = Edited(ListAt(Content, Base[w]), w)
    BY Zenon DEF Store!Edited, Store!EditedUpTo, Store!EditOf, Edited, EditedUpTo, EditOf
<1>2. Store!ListAt(Content, Base[w]) = ListAt(Content, Base[w])
    BY DEF Store!ListAt, ListAt
<1>3. PICK list : list = Edited(ListAt(Content, Base[w]), w)
    OBVIOUS
<1>4. Store!Put(Content, Target[w], list) = Put(Content, Target[w], list)
    BY DEF Store!Put, Put
<1>5. Content' = Store!Put(Content, Target[w], Store!Edited(Store!ListAt(Content, Base[w]), w))
    BY <1>1, <1>2, <1>3, <1>4
<1> QED
  <2>1. UNCHANGED <<submitted, told>>
      OBVIOUS
  <2>2. Store!Commit(w)
      BY <1>5, <2>1, Zenon DEF Store!Commit, Content, Durable
  <2> QED
      BY <2>2 DEF Store!Next

LEMMA StorePersist ==
    ASSUME NEW v \in Versions, v \in DOMAIN Content \ Durable,
           Durable' = Durable \cup {v},
           Content' = Content, submitted' = submitted, told' = told
    PROVE  Store!Next
BY DEF Store!Next, Store!Persist, Content, Durable

LEMMA StoreTell ==
    ASSUME NEW w \in Writes, NEW m \in Milestone,
           m = "onJournal" => Target[w] \in DOMAIN Content,
           m = "onDisk" => Target[w] \in Durable,
           told' = [told EXCEPT ![w] = @ \cup {m}],
           Content' = Content, Durable' = Durable, submitted' = submitted
    PROVE  Store!Next
<1>1. Store!Tell(w, m)
    BY DEF Store!Tell, Content, Durable
<1>2. m \in Store!Milestone
    BY DEF Store!Milestone, Milestone
<1> QED
    BY <1>1, <1>2 DEF Store!Next

LEMMA StoreStutter ==
    ASSUME Content' = Content, Durable' = Durable, submitted' = submitted, told' = told
    PROVE  UNCHANGED Store!vars
BY DEF Store!vars, Content, Durable

\* Files are added below versions without being seen.
LEMMA ContentStays ==
    ASSUME BoundRecorded, FilesFresh, BlocksKept, gh_attr' = gh_attr
    PROVE  Content' = Content
<1>1. ASSUME NEW v \in DOMAIN gh_attr PROVE Contents(v)' = Contents(v)
    BY <1>1 DEF BoundRecorded, Recorded, FilesFresh, BlocksKept, Contents
<1> QED
    BY <1>1 DEF Content

LEMMA DurableStays ==
    ASSUME gh_attr' = gh_attr, disk_rb' = disk_rb
    PROVE  Durable' = Durable
BY DEF Durable, OnDisk

LEMMA StoreInit ==
    ASSUME Init
    PROVE  Store!Init
<1>1. Content = <<>>
  <2>1. DOMAIN gh_attr = {} /\ 1..0 = {}
      BY DEF Init
  <2>2. Content = [v \in {} |-> Contents(v)]
      BY <2>1 DEF Content
  <2> QED
      BY <2>2
<1>2. Durable = {}
    BY DEF Init, Durable
<1> QED
    BY <1>1, <1>2 DEF Init, Store!Init, Content, Durable

\* The target appears with the data its edits make of the base.
LEMMA BindCommits ==
    ASSUME DiskAssumption, EditsInv, [Next]_vars, NEW k \in Workers, Bind(k)
    PROVE  Store!Next
<1>0. /\ OrderInv /\ TypeOK /\ BoundRecorded
    BY DEF EditsInv, DiskInv, OrderInv, JournalInv
<1>1. PICK w, t, base : w = cur[k] /\ t = Target[w] /\ base = BaseData(w)
    OBVIOUS
<1>2. /\ w \in Writes /\ w \in submitted /\ t \notin DOMAIN gh_attr
      /\ DOMAIN gh_attr' = DOMAIN gh_attr \cup {t}
      /\ gh_attr'[t] = orb[k]
      /\ \A v \in DOMAIN gh_attr : gh_attr'[v] = gh_attr[v]
    BY <1>0, <1>1, BindAdds
<1>3. /\ pc[k] = "count"
      /\ UNCHANGED <<journal_rb, disk_rb, submitted, told>>
    BY DEF Bind, files, client
<1>4. Image(orb[k], journal_rb) = Edited(base, w)
    BY <1>1, <1>3 DEF EditsInv, EditedSoFar, Applied, Building, BeforeBind, Edited
<1>5. base = ListAt(Content, Base[w])
  <2>1. PICK b : b = Base[w]
      OBVIOUS
  <2>2. CASE b \in DOMAIN gh_attr
      BY <1>1, <2>1, <2>2 DEF BaseData, Image, ListAt, Content, Contents
  <2>3. CASE b \notin DOMAIN gh_attr
    <3>1. base = Image(<<>>, journal_rb) /\ ListAt(Content, b) = <<>>
        BY <1>1, <2>1, <2>3 DEF BaseData, ListAt, Content
    <3>2. Image(<<>>, journal_rb) = <<>>
        BY DEF Image
    <3> QED
        BY <2>1, <3>1, <3>2
  <2> QED
      BY <2>2, <2>3
<1>6. Content' = Put(Content, t, Edited(base, w))
  <2>1. Content' = [v \in DOMAIN gh_attr \cup {t} |-> Image(gh_attr'[v], journal_rb)]
      BY <1>2, <1>3 DEF Content, Contents, Image
  <2>2. ASSUME NEW v \in DOMAIN gh_attr \cup {t}
        PROVE  Image(gh_attr'[v], journal_rb) = IF v = t THEN Edited(base, w) ELSE Content[v]
    <3>1. CASE v = t
        BY <1>2, <1>4, <3>1
    <3>2. CASE v # t
        BY <1>2, <3>2 DEF Content, Contents, Image
    <3> QED
        BY <3>1, <3>2
  <2>3. DOMAIN Content = DOMAIN gh_attr
      BY DEF Content
  <2> QED
      BY <2>1, <2>2, <2>3 DEF Put
<1>7. Durable' \in {Durable, Durable \cup {t}}
  <2>1. ASSUME NEW v \in DOMAIN gh_attr PROVE OnDisk(v)' <=> OnDisk(v)
      BY <1>2, <1>3 DEF OnDisk
  <2>2. t \notin Durable
      BY <1>2 DEF Durable
  <2>3. \A v : v \in Durable' <=> v \in Durable \/ (v = t /\ OnDisk(t)')
      BY <1>2, <2>1, <2>2 DEF Durable
  <2>4. CASE OnDisk(t)'
    <3>1. Durable' = Durable \cup {t}
        BY <2>3, <2>4
    <3> QED
        BY <3>1
  <2>5. CASE ~OnDisk(t)'
    <3>1. Durable' = Durable
        BY <2>3, <2>5
    <3> QED
        BY <3>1
  <2> QED
      BY <2>4, <2>5
<1>8. t \notin DOMAIN Content
    BY <1>2 DEF Content
<1> QED
    BY <1>1, <1>2, <1>3, <1>5, <1>6, <1>7, <1>8, StoreCommit

\* A block that is copied completes the target of its write, or none: no other
\* version lists a block that is not on disk.
LEMMA CopyPersists ==
    ASSUME DiskAssumption, EditsInv, [Next]_vars, NEW k \in Workers, CopyBlock(k)
    PROVE  Store!Next \/ UNCHANGED Store!vars
<1>0. /\ WorkerType /\ BoundNew /\ BoundRecorded /\ CopiedInStage /\ StagesInOrder
      /\ FilesFresh /\ BlocksKept /\ DOMAIN gh_attr \subseteq Versions
      /\ DOMAIN disk_rb \subseteq DOMAIN disk_rb'
    BY StoreGrows DEF EditsInv, DiskInv, OrderInv, JournalInv, TypeOK, StoreType
<1>1. PICK s, t : s = orb[k][idx[k]] /\ t = Target[cur[k]]
    OBVIOUS
<1>2. /\ pc[k] = "copy" /\ idx[k] <= Len(orb[k])
      /\ disk_rb' = IF IsNew(s) /\ s \in DOMAIN journal_rb
                    THEN Put(disk_rb, s, journal_rb[s]) ELSE disk_rb
      /\ UNCHANGED <<gh_attr, submitted, told>>
    BY <1>1 DEF CopyBlock, Copying, kv, client
<1>3. idx[k] \in DOMAIN orb[k]
    BY <1>0, <1>2, LenProperties DEF WorkerType
<1>4. t \in DOMAIN gh_attr /\ orb[k] = gh_attr[t]
    BY <1>0, <1>1, <1>2 DEF CopiedInStage, WorkerCopied, StagesInOrder, AfterBind
<1>5. Content' = Content
    BY <1>0, <1>2, ContentStays
<1>6. DOMAIN disk_rb' \subseteq DOMAIN disk_rb \cup {s}
    BY <1>2 DEF Put
<1>7. ASSUME NEW v \in DOMAIN gh_attr, OnDisk(v)', ~OnDisk(v) PROVE v = t
  <2>1. PICK i \in DOMAIN gh_attr[v] : gh_attr[v][i] \notin DOMAIN disk_rb
      BY <1>7 DEF OnDisk
  <2>2. gh_attr[v][i] = s
      BY <1>2, <1>6, <1>7, <2>1 DEF OnDisk
  <2>3. Target[Creator(s)] = v
      BY <1>0, <2>1, <2>2 DEF BoundNew, CopyIsDue
  <2>4. Target[Creator(s)] = t
      BY <1>0, <1>1, <1>3, <1>4, <2>1, <2>2 DEF BoundNew, CopyIsDue
  <2> QED
      BY <2>3, <2>4
<1>8. ASSUME NEW v \in DOMAIN gh_attr, OnDisk(v) PROVE OnDisk(v)'
    BY <1>0, <1>2, <1>8 DEF OnDisk
<1>9. Durable' = Durable \/ (t \notin Durable /\ Durable' = Durable \cup {t})
  <2>1. \A v : v \in Durable => v \in Durable'
      BY <1>2, <1>8 DEF Durable
  <2>2. \A v : v \in Durable' => v \in Durable \/ v = t
      BY <1>2, <1>7 DEF Durable
  <2> QED
      BY <2>1, <2>2
<1>10. t \in Versions /\ t \in DOMAIN Content
    BY <1>0, <1>4 DEF Content
<1> QED
    BY <1>2, <1>5, <1>9, <1>10, StorePersist, StoreStutter

\* A reply says what holds, or is lost.
LEMMA RepliesTell ==
    ASSUME DiskAssumption, EditsInv, [Next]_vars, NEW k \in Workers,
           TellJournal(k) \/ TellDisk(k)
    PROVE  Store!Next \/ UNCHANGED Store!vars
<1>0. /\ WorkerType /\ ToldBound /\ CopiedInStage /\ StagesInOrder
      /\ BoundRecorded /\ FilesFresh /\ BlocksKept
    BY StoreGrows DEF EditsInv, DiskInv, OrderInv, JournalInv, TypeOK
<1>1. PICK w : w = cur[k]
    OBVIOUS
<1>2. w \in Writes /\ UNCHANGED <<gh_attr, disk_rb, submitted>>
    BY <1>0, <1>1 DEF TellJournal, TellDisk, WorkerType, kv, files
<1>3. Content' = Content /\ Durable' = Durable
    BY <1>0, <1>2, ContentStays, DurableStays
<1>4. PICK m \in Milestone : /\ Tell(w, m)
                             /\ m = "onJournal" => pc[k] = "tellJournal"
                             /\ m = "onDisk" => pc[k] = "tellDisk"
    BY <1>1 DEF TellJournal, TellDisk, Milestone
<1>5. m = "onJournal" => Target[w] \in DOMAIN Content
    BY <1>0, <1>1, <1>4 DEF ToldBound, Content
<1>6. m = "onDisk" => Target[w] \in Durable
    BY <1>0, <1>1, <1>4 DEF CopiedInStage, WorkerCopied, StagesInOrder, AfterBind, Durable
<1>7. CASE told' = [told EXCEPT ![w] = @ \cup {m}]
    BY <1>2, <1>3, <1>5, <1>6, <1>7, StoreTell
<1>8. CASE told' = told
    BY <1>2, <1>3, <1>8, StoreStutter
<1> QED
    BY <1>4, <1>7, <1>8 DEF Tell

\* Every step of the pipeline is a step of the abstract store, or none.
LEMMA StoreStep ==
    ASSUME DiskAssumption, EditsInv, [Next]_vars
    PROVE  [Store!Next]_(Store!vars)
<1>0. BoundRecorded /\ FilesFresh /\ BlocksKept
    BY StoreGrows DEF EditsInv, DiskInv, OrderInv, JournalInv
<1>1. ASSUME UNCHANGED <<gh_attr, disk_rb, submitted, told>> PROVE UNCHANGED Store!vars
    BY <1>0, <1>1, ContentStays, DurableStays, StoreStutter
<1>2. ASSUME NEW w \in Writes, Submit(w) PROVE Store!Next
  <2>1. /\ w \notin submitted /\ submitted' = submitted \cup {w}
        /\ UNCHANGED <<gh_attr, disk_rb, told>>
      BY <1>2 DEF Submit, kv, files
  <2>2. Content' = Content /\ Durable' = Durable
      BY <1>0, <2>1, ContentStays, DurableStays
  <2> QED
      BY <2>1, <2>2, StoreSubmit
<1>3. ASSUME NEW k \in Workers, DoWope(k) PROVE Store!Next \/ UNCHANGED Store!vars
  <2>1. CASE \/ Take(k)
             \/ ReadBase(k) \/ DeleteBlock(k) \/ NewBlock(k) \/ PutBlockAttr(k)
             \/ EditPastEnd(k) \/ EndEdits(k) \/ ReadCount(k) \/ WriteCount(k)
             \/ RequeueOnJournal(k) \/ ReadTarget(k) \/ CopyFails(k) \/ RequeueOnDisk(k)
      BY <1>1, <2>1 DEF Take, ReadBase, DeleteBlock, NewBlock, PutBlockAttr, EditPastEnd,
         EndEdits, ReadCount, WriteCount, RequeueOnJournal, ReadTarget, CopyFails,
         RequeueOnDisk, kv, files, client
  <2> QED
      BY <1>3, <2>1, BindCommits, CopyPersists, RepliesTell DEF DoWope
<1>4. ASSUME NEW r \in Reads, Ask(r) \/ DoRope(r) PROVE UNCHANGED Store!vars
    BY <1>1, <1>4, ReadsAside DEF kv, files, client
<1>5. ASSUME Dispatch \/ CrashRestart \/ UNCHANGED vars PROVE UNCHANGED Store!vars
    BY <1>1, <1>5 DEF Dispatch, CrashRestart, vars, kv, files, client
<1> QED
    BY <1>2, <1>3, <1>4, <1>5 DEF Next

\* Versions appear whole, with the contents their edits say, become durable
\* later, never change, and are acknowledged only when it is true: the pipeline,
\* with all its queues, threads and crashes, implements VersionStore.
THEOREM PipelineImplementsVersionStore ==
    ASSUME DiskAssumption
    PROVE  Spec => ImplementsVersionStore
<1>1. Init => Store!Init
    BY StoreInit
<1>2. EditsInv /\ [Next]_vars => [Store!Next]_(Store!vars)
    BY StoreStep
<1> QED
    BY <1>1, <1>2, EditsInvariant, PTL DEF Spec, ImplementsVersionStore, Store!Spec

----------------------------------------------------------------------------
(* Clients that address the blocks that are there. *)

\* The inductive invariant: clients that wait use versions that are bound, and
\* every list, bound, in hand or read, has the length the clients count on.
ToldMade == \A w \in Writes : told[w] # {} => Target[w] \in DOMAIN gh_attr
SizesBound(size) == \A v \in DOMAIN gh_attr : Len(gh_attr[v]) = size[v]
LengthSoFar(lengths, k) ==
    pc[k] \in Building =>
        /\ Applied(k) \in 0..Len(Edits[cur[k]])
        /\ Len(orb[k]) = lengths[cur[k]][Applied(k)]
SerialsRead(size, r) ==
    /\ rpc[r] \in {"asked", "reading"} => Settled(ReadOf[r].obj)
    /\ rpc[r] = "reading" => Len(serials[r]) = size[ReadOf[r].obj]
SizesInv(size, lengths) ==
    /\ BasesSettled /\ ToldMade /\ SizesBound(size)
    /\ \A k \in Workers : LengthSoFar(lengths, k)
    /\ \A r \in Reads : SerialsRead(size, r)
    /\ NothingUndefined

\* Clients that wait see the length they count on.
LEMMA SettledLength ==
    ASSUME Wait # "none", OrderInv, ToldMade,
           NEW size, NEW lengths, AddressesFit(size, lengths), SizesBound(size),
           NEW v \in Versions, Settled(v)
    PROVE  Len(ListAt(gh_attr, v)) = size[v]
<1>1. CASE \E w \in Writes : Target[w] = v /\ Wait \in told[w]
    BY <1>1 DEF ToldMade, SizesBound, ListAt
<1>2. CASE \A w \in Writes : Target[w] # v
  <2>1. v \notin DOMAIN gh_attr
      BY <1>2 DEF OrderInv, JournalInv, TypeOK, ClientType, StagesInOrder
  <2>2. size[v] = 0
      BY <1>2 DEF AddressesFit
  <2> QED
      BY <2>1, <2>2 DEF ListAt
<1> QED
    BY <1>1, <1>2 DEF Settled

LEMMA ToldMadeStep ==
    ASSUME OrderInv, ToldMade, [Next]_vars, OrderInv'
    PROVE  ToldMade'
<1> SUFFICES ASSUME NEW w \in Writes, told'[w] # {} PROVE Target[w] \in DOMAIN gh_attr'
    BY DEF ToldMade
<1>1. ClientType /\ ClientType' /\ StagesInOrder /\ ToldBound' /\ VersionsKept
    BY VersionsStep DEF OrderInv, JournalInv, TypeOK
<1>2. CASE "onJournal" \in told'[w]
    BY <1>1, <1>2 DEF ToldBound
<1>3. CASE "onDisk" \in told'[w] \ told[w]
  <2>1. \E k \in Workers : pc[k] = "tellDisk" /\ cur[k] = w
      BY <1>1, <1>3, ToldGrows
  <2> QED
      BY <1>1, <2>1 DEF StagesInOrder, AfterBind, VersionsKept
<1>4. CASE told[w] # {}
    BY <1>1, <1>4 DEF ToldMade, VersionsKept
<1>5. told'[w] \subseteq {"onJournal", "onDisk"}
    BY <1>1 DEF ClientType, Milestone
<1> QED
    BY <1>2, <1>3, <1>4, <1>5

\* A version is bound with the list that all its edits have made.
LEMMA SizesBoundStep ==
    ASSUME OrderInv, [Next]_vars,
           NEW size, NEW lengths, AddressesFit(size, lengths), SizesBound(size),
           \A k \in Workers : LengthSoFar(lengths, k)
    PROVE  SizesBound(size)'
<1>1. ASSUME NEW k \in Workers, Bind(k) PROVE SizesBound(size)'
  <2>1. /\ cur[k] \in Writes
        /\ DOMAIN gh_attr' = DOMAIN gh_attr \cup {Target[cur[k]]}
        /\ gh_attr'[Target[cur[k]]] = orb[k]
        /\ \A v \in DOMAIN gh_attr : gh_attr'[v] = gh_attr[v]
      BY <1>1, BindAdds
  <2>2. pc[k] = "count" /\ Applied(k) = Len(Edits[cur[k]])
      BY <1>1 DEF Bind, Applied
  <2>3. Len(orb[k]) = lengths[cur[k]][Len(Edits[cur[k]])]
      BY <2>2 DEF LengthSoFar, Building, BeforeBind
  <2>4. Len(orb[k]) = size[Target[cur[k]]]
      BY <2>1, <2>3 DEF AddressesFit
  <2> QED
      BY <2>1, <2>4 DEF SizesBound
<1>2. CASE \A k \in Workers : ~Bind(k)
    BY <1>2, OnlyBindBinds DEF SizesBound
<1> QED
    BY <1>1, <1>2

\* The length of a list that is edited.
LEMMA LengthsBuild ==
    ASSUME Wait # "none", OrderInv, BasesSettled, ToldMade,
           NEW size, NEW lengths, AddressesFit(size, lengths), SizesBound(size),
           NEW k \in Workers, Builds(k), LengthSoFar(lengths, k)
    PROVE  LengthSoFar(lengths, k)'
<1>0. TypeOK /\ WorkerType /\ OneLogEach
    BY DEF OrderInv, JournalInv, TypeOK
<1>1. PICK w : w = cur[k]
    OBVIOUS
<1>2. /\ w \in Writes /\ w \in submitted /\ cur'[k] = w
      /\ orb[k] \in Seq(Nat) /\ idx[k] \in Nat \ {0} /\ Len(orb[k]) \in Nat
      /\ Len(Edits[w]) \in Nat
  <2>1. pc[k] # "idle" /\ cur' = cur
      BY BuildsStay DEF Stays
  <2> QED
      BY <1>0, <1>1, <2>1, HistoryAssumption, LenProperties DEF WorkerType, OneLogEach
<1>3. ASSUME NEW n, Applied(k)' = n, n \in 0..Len(Edits[w]), Len(orb'[k]) = lengths[w][n]
      PROVE  LengthSoFar(lengths, k)'
    BY <1>2, <1>3 DEF LengthSoFar
<1>4. /\ lengths[w][0] = size[Base[w]]
      /\ \A i \in 1..Len(Edits[w]) :
            lengths[w][i] = LengthAfter(Edits[w][i], lengths[w][i - 1])
    BY <1>2 DEF AddressesFit
<1>5. CASE ReadBase(k)
  <2>1. PICK v : v = Base[w]
      OBVIOUS
  <2>2. orb'[k] = ListAt(gh_attr, v) /\ pc'[k] = "edit" /\ idx'[k] = 1
      BY <1>0, <1>1, <1>5, <2>1 DEF ReadBase, Goto, WorkerType
  <2>3. v \in Versions /\ Settled(v)
      BY <1>2, <2>1, HistoryAssumption DEF BasesSettled
  <2>4. Len(orb'[k]) = size[v]
      BY <2>2, <2>3, SettledLength
  <2>5. Applied(k)' = 0
      BY <2>2 DEF Applied
  <2> QED
      BY <1>2, <1>3, <1>4, <2>1, <2>4, <2>5
<1>6. ASSUME Editing(k), InRange(EditAt(k), Len(orb[k])), Applied(k)' = idx[k],
             Len(orb'[k]) = LengthAfter(EditAt(k), Len(orb[k]))
      PROVE  LengthSoFar(lengths, k)'
  <2>1. idx[k] \in 1..Len(Edits[w]) /\ EditAt(k) = Edits[w][idx[k]]
      BY <1>0, <1>1, <1>6, EditPosition DEF EditAt
  <2>2. Applied(k) = idx[k] - 1 /\ pc[k] \in Building
      BY <1>6 DEF Editing, Applied, Building, BeforeBind
  <2>3. Len(orb[k]) = lengths[w][idx[k] - 1]
      BY <1>1, <2>2 DEF LengthSoFar
  <2>4. lengths[w][idx[k]] = Len(orb'[k])
      BY <1>4, <1>6, <2>1, <2>3
  <2> QED
      BY <1>2, <1>3, <1>6, <2>1, <2>4
<1>7. CASE DeleteBlock(k)
  <2>1. PICK n : n = EditAt(k).num + 1
      OBVIOUS
  <2>2. /\ n \in 1..Len(orb[k]) /\ Editing(k) /\ InRange(EditAt(k), Len(orb[k]))
        /\ EditAt(k).type = "Delete"
      BY <1>0, <1>7, <2>1, EditPosition DEF DeleteBlock
  <2>3. orb'[k] = RemoveAt(orb[k], n) /\ pc'[k] = "edit" /\ idx'[k] = idx[k] + 1
      BY <1>0, <1>7, <2>1 DEF DeleteBlock, Goto, WorkerType
  <2>4. Len(RemoveAt(orb[k], n)) = Len(orb[k]) - 1
    <3>1. PICK S, s : S = Nat /\ s = orb[k]
        OBVIOUS
    <3>2. s \in Seq(S) /\ n \in 1..Len(s)
        BY <1>2, <2>2, <3>1
    <3> QED
        BY <3>1, <3>2, RemoveAtIndices
  <2>5. Applied(k)' = idx[k]
      BY <1>2, <2>3 DEF Applied
  <2> QED
      BY <1>6, <2>2, <2>3, <2>4, <2>5 DEF LengthAfter
<1>8. CASE NewBlock(k)
  <2>1. PICK n : n = EditAt(k).num + 1
      OBVIOUS
  <2>2. /\ n \in 1..(Len(orb[k]) + 1) /\ clock \in Nat
        /\ EditAt(k).type \in {"Insert", "OverWrite"}
        /\ EditAt(k).type # "Insert" => n \in 1..Len(orb[k])
        /\ Editing(k) /\ InRange(EditAt(k), Len(orb[k]))
      BY <1>0, <1>8, <2>1, EditPosition DEF NewBlock, TypeOK, StoreType, EditType
  <2>3. /\ orb'[k] = IF EditAt(k).type = "Insert" THEN InsertAt(orb[k], n, clock)
                                                 ELSE ReplaceAt(orb[k], n, clock)
        /\ pc'[k] = "attr" /\ idx'[k] = idx[k]
      BY <1>0, <1>8, <2>1 DEF NewBlock, Goto, WorkerType
  <2>4. Applied(k)' = idx[k]
      BY <2>3 DEF Applied
  <2>5. PICK S, s, e : S = Nat /\ s = orb[k] /\ e = clock
      OBVIOUS
  <2>6. s \in Seq(S) /\ e \in S
      BY <1>2, <2>2, <2>5
  <2>7. CASE EditAt(k).type = "Insert"
    <3>1. n \in 1..(Len(s) + 1)
        BY <2>2, <2>5
    <3>2. Len(InsertAt(s, n, e)) = Len(s) + 1
        BY <2>6, <3>1, InsertAtIndices
    <3> QED
        BY <1>6, <2>2, <2>3, <2>4, <2>5, <2>7, <3>2 DEF LengthAfter
  <2>8. CASE EditAt(k).type = "OverWrite"
    <3>1. n \in 1..Len(s)
        BY <2>2, <2>5, <2>8
    <3>2. Len(ReplaceAt(s, n, e)) = Len(s)
        BY <2>6, <3>1, ReplaceAtIndices
    <3> QED
        BY <1>6, <2>2, <2>3, <2>4, <2>5, <2>8, <3>2 DEF LengthAfter
  <2> QED
      BY <2>2, <2>7, <2>8
<1>9. CASE PutBlockAttr(k) \/ EndEdits(k) \/ ReadCount(k) \/ WriteCount(k)
  <2>1. orb'[k] = orb[k] /\ pc[k] \in Building
      BY <1>0, <1>9 DEF PutBlockAttr, EndEdits, ReadCount, WriteCount, Goto, WorkerType,
         Building, BeforeBind
  <2>2. Applied(k) \in 0..Len(Edits[w]) /\ Len(orb[k]) = lengths[w][Applied(k)]
      BY <1>1, <2>1 DEF LengthSoFar
  <2>3. Applied(k)' = Applied(k)
    <3>1. CASE PutBlockAttr(k)
        BY <1>0, <1>2, <3>1 DEF PutBlockAttr, Goto, WorkerType, Applied
    <3>2. CASE EndEdits(k)
      <4>1. /\ pc[k] = "edit" /\ pc'[k] = "count" /\ ~(idx[k] <= Len(Edits[w]))
          BY <1>0, <1>1, <3>2 DEF EndEdits, Editing, Goto, WorkerType
      <4>2. Applied(k) = idx[k] - 1 /\ Applied(k)' = Len(Edits[w])
          BY <1>1, <1>2, <4>1 DEF Applied
      <4> QED
          BY <1>2, <2>2, <4>1, <4>2
    <3>3. CASE ReadCount(k) \/ WriteCount(k)
        BY <1>0, <1>2, <3>3 DEF ReadCount, WriteCount, Goto, WorkerType, Applied
    <3> QED
        BY <1>9, <3>1, <3>2, <3>3
  <2> QED
      BY <1>3, <2>1, <2>2, <2>3
<1> QED
    BY <1>5, <1>7, <1>8, <1>9 DEF Builds

LEMMA LengthsStep ==
    ASSUME Wait # "none", OrderInv, BasesSettled, ToldMade, [Next]_vars,
           NEW size, NEW lengths, AddressesFit(size, lengths), SizesBound(size),
           NEW k \in Workers, LengthSoFar(lengths, k)
    PROVE  LengthSoFar(lengths, k)'
<1>0. TypeOK /\ WorkerType
    BY DEF OrderInv, JournalInv, TypeOK
<1>1. CASE pc'[k] \notin Building
    BY <1>1 DEF LengthSoFar
<1>2. CASE pc'[k] \in Building
  <2>1. CASE Quiet(k)
    <3>1. Applied(k)' = Applied(k)
        BY <2>1 DEF Applied, Quiet
    <3> QED
        BY <2>1, <3>1 DEF LengthSoFar, Quiet
  <2>2. CASE Builds(k)
      BY <2>2, LengthsBuild
  <2>3. CASE DoWope(k) /\ ~Quiet(k)
      BY <1>0, <1>2, <2>2, <2>3, OnlyBuilds
  <2>4. ~CrashRestart
      BY <1>2 DEF CrashRestart, Building, BeforeBind
  <2> QED
      BY <1>0, <2>1, <2>3, <2>4, OneActs
<1> QED
    BY <1>1, <1>2

\* A read has the list of a version its client was told of.
LEMMA SerialsStep ==
    ASSUME Wait # "none", OrderInv, ToldMade, [Next]_vars,
           NEW size, NEW lengths, AddressesFit(size, lengths), SizesBound(size),
           NEW r \in Reads, SerialsRead(size, r)
    PROVE  SerialsRead(size, r)'
<1>0. ClientType /\ ReadType
    BY DEF OrderInv, JournalInv, TypeOK
<1>1. PICK v \in Versions : v = ReadOf[r].obj
    BY PipelineAssumption
<1>2. Settled(v) => Settled(v)'
    BY <1>0, SettledStays
<1>3. ASSUME rpc'[r] \in {"asked", "reading"} => Settled(v),
             rpc'[r] = "reading" => Len(serials'[r]) = size[v]
      PROVE  SerialsRead(size, r)'
    BY <1>1, <1>2, <1>3 DEF SerialsRead, Settled
<1>4. /\ rpc[r] \in {"asked", "reading"} => Settled(v)
      /\ rpc[r] = "reading" => Len(serials[r]) = size[v]
    BY <1>1 DEF SerialsRead
<1>5. CASE rpc'[r] = rpc[r] /\ serials'[r] = serials[r]
    BY <1>3, <1>4, <1>5
<1>6. CASE Ask(r)
    BY <1>0, <1>1, <1>3, <1>6 DEF Ask, ReadType
<1>7. CASE ReadSerials(r)
  <2>1. rpc[r] = "asked" /\ rpc'[r] = "reading" /\ serials'[r] = ListAt(gh_attr, v)
      BY <1>0, <1>1, <1>7 DEF ReadSerials, ReadType
  <2>2. Settled(v)
      BY <1>4, <2>1
  <2>3. Len(serials'[r]) = size[v]
      BY <2>1, <2>2, SettledLength
  <2> QED
      BY <1>3, <2>2, <2>3
<1>8. CASE ReadBlock(r)
    BY <1>3, <1>4, <1>8 DEF ReadBlock
<1>9. CASE Answer(r)
  <2>1. rpc'[r] \in {"answered", "lost"}
      BY <1>0, <1>9 DEF Answer, ReadType
  <2> QED
      BY <1>3, <2>1
<1>10. CASE CrashRestart
  <2>1. rpc'[r] \notin {"asked", "reading"}
      BY <1>10 DEF CrashRestart
  <2> QED
      BY <1>3, <2>1
<1> QED
    BY <1>0, <1>5, <1>6, <1>7, <1>8, <1>9, <1>10, OneReads

\* So no edit and no read passes the end of its list.
LEMMA DefinedStep ==
    ASSUME OrderInv, NothingUndefined, [Next]_vars,
           NEW size, NEW lengths, AddressesFit(size, lengths),
           \A k \in Workers : LengthSoFar(lengths, k),
           \A r \in Reads : SerialsRead(size, r)
    PROVE  NothingUndefined'
<1>0. WorkerType /\ ReadType
    BY DEF OrderInv, JournalInv, TypeOK
<1>1. ASSUME NEW k \in Workers, EditPastEnd(k) PROVE FALSE
  <2>1. PICK w : w = cur[k]
      OBVIOUS
  <2>2. /\ Editing(k) /\ ~InRange(EditAt(k), Len(orb[k])) /\ w \in Writes
        /\ idx[k] \in Nat \ {0} /\ idx[k] <= Len(Edits[w]) /\ Len(Edits[w]) \in Nat
        /\ EditAt(k) = Edits[w][idx[k]]
      BY <1>0, <1>1, <2>1, HistoryAssumption, LenProperties
      DEF EditPastEnd, Editing, EditAt, WorkerType
  <2>3. Applied(k) = idx[k] - 1 /\ pc[k] \in Building
      BY <2>2 DEF Editing, Applied, Building, BeforeBind
  <2>4. Len(orb[k]) = lengths[w][idx[k] - 1]
      BY <2>1, <2>3 DEF LengthSoFar
  <2>5. idx[k] \in 1..Len(Edits[w])
      BY <2>2
  <2>6. InRange(Edits[w][idx[k]], lengths[w][idx[k] - 1])
      BY <2>2, <2>5 DEF AddressesFit
  <2> QED
      BY <2>2, <2>4, <2>6
<1>2. ASSUME NEW r \in Reads, ReadPastEnd(r) PROVE FALSE
  <2>1. PICK v, blocks, n :
            /\ v \in Versions /\ v = ReadOf[r].obj
            /\ blocks \in Seq(Nat) /\ blocks = ReadOf[r].blocks
            /\ n = Len(answer[r]) + 1
      BY PipelineAssumption
  <2>2. /\ rpc[r] = "reading" /\ Len(answer[r]) < Len(blocks)
        /\ blocks[n] + 1 > Len(serials[r])
      BY <1>2, <2>1 DEF ReadPastEnd, Reading, Position
  <2>3. Len(answer[r]) \in Nat /\ DOMAIN blocks = 1..Len(blocks) /\ Len(blocks) \in Nat
      BY <1>0, LenProperties DEF ReadType
  <2>4. n \in DOMAIN blocks
      BY <2>1, <2>2, <2>3
  <2>5. blocks[n] \in Nat /\ blocks[n] < size[v] /\ size[v] \in Nat
      BY <2>1, <2>3, <2>4, ElementOfSeq DEF AddressesFit
  <2>6. Len(serials[r]) = size[v]
      BY <2>1, <2>2 DEF SerialsRead
  <2> QED
      BY <2>2, <2>5, <2>6
<1>3. ASSUME NEW k \in Workers, DoWope(k) PROVE undefined' = undefined
    BY <1>1, <1>3 DEF DoWope, Take, ReadBase, DeleteBlock, NewBlock, PutBlockAttr, EndEdits,
       ReadCount, WriteCount, Bind, TellJournal, RequeueOnJournal, ReadTarget, CopyBlock,
       CopyFails, RequeueOnDisk, TellDisk, env
<1>4. ASSUME NEW r \in Reads, Ask(r) \/ DoRope(r) PROVE undefined' = undefined
    BY <1>2, <1>4 DEF Ask, DoRope, ReadSerials, ReadBlock, Answer, env
<1>5. ASSUME \/ \E w \in Writes : Submit(w)
             \/ Dispatch \/ CrashRestart \/ UNCHANGED vars
      PROVE  undefined' = undefined
    BY <1>5 DEF Submit, Dispatch, CrashRestart, vars, env
<1> QED
    BY <1>3, <1>4, <1>5 DEF Next, NothingUndefined

\* When clients wait, for the journal or for the disk, and address blocks that
\* are there, no iterator and no index passes the end of a block list, whatever
\* the workers interleave, copies fail and crashes forget.
THEOREM NothingEverUndefined ==
    ASSUME OneTarget, Wait # "none", NEW size, NEW lengths, AddressesFit(size, lengths)
    PROVE  Spec => []NothingUndefined
<1>1. Init => SizesInv(size, lengths)
  <2> SUFFICES ASSUME Init PROVE SizesInv(size, lengths)
      OBVIOUS
  <2>1. BasesSettled /\ ToldMade /\ SizesBound(size) /\ NothingUndefined
      BY DEF Init, BasesSettled, ToldMade, SizesBound, NothingUndefined
  <2>2. \A k \in Workers : LengthSoFar(lengths, k)
      BY DEF Init, LengthSoFar, Building, BeforeBind
  <2>3. \A r \in Reads : SerialsRead(size, r)
      BY DEF Init, SerialsRead
  <2> QED
      BY <2>1, <2>2, <2>3 DEF SizesInv
<1>2. OrderInv /\ OrderInv' /\ SizesInv(size, lengths) /\ [Next]_vars => SizesInv(size, lengths)'
  <2> SUFFICES ASSUME OrderInv, OrderInv', SizesInv(size, lengths), [Next]_vars
               PROVE  SizesInv(size, lengths)'
      OBVIOUS
  <2>1. /\ BasesSettled /\ ToldMade /\ SizesBound(size) /\ NothingUndefined
        /\ \A k \in Workers : LengthSoFar(lengths, k)
        /\ \A r \in Reads : SerialsRead(size, r)
      BY DEF SizesInv
  <2>2. BasesSettled'
      BY <2>1, BasesStep DEF OrderInv, JournalInv, TypeOK
  <2>3. ToldMade' /\ SizesBound(size)' /\ NothingUndefined'
      BY <2>1, ToldMadeStep, SizesBoundStep, DefinedStep
  <2>4. \A k \in Workers : LengthSoFar(lengths, k)'
      BY <2>1, LengthsStep
  <2>5. \A r \in Reads : SerialsRead(size, r)'
      BY <2>1, SerialsStep
  <2> QED
      BY <2>2, <2>3, <2>4, <2>5 DEF SizesInv
<1>3. SizesInv(size, lengths) => NothingUndefined
    BY DEF SizesInv
<1>4. Spec => []OrderInv
    BY OrderInvariant
<1> QED
    BY <1>1, <1>2, <1>3, <1>4, PTL DEF Spec
=============================================================================
