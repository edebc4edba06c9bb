-------------------------- MODULE AsynClientProofs --------------------------
(***************************************************************************)
(* What the client knows of its operations, and what its waiting calls     *)
(* return, comes from replies the server has posted, for any operations,   *)
(* handlers, losses and time limits.                                       *)
(***************************************************************************)
EXTENDS AsynClient, SequenceTheorems, TLAPS

\* Is s among the first n replies to o?
Reports(o, s, n) == \E i \in 1..n : Replies[o][i] = s

\* A reply is one of those the server has posted for its operation.
Posted(r) == Reports(r.ope, r.state, posted[r.ope])

\* What is known of an operation, if anything, was posted for it.
Known(o, s, n) == s = "other" \/ Reports(o, s, n)

\* Every reply on its way through the pool was posted.
JobsWerePosted ==
    /\ \A i \in DOMAIN jobs : Posted(jobs[i])
    /\ \A h \in Handlers : reply[h] # NoReply => Posted(reply[h])

ClientInv ==
    /\ TypeOK
    /\ \A o \in Opes : posted[o] <= Len(Replies[o])
    /\ JobsWerePosted
    /\ \A o \in Opes : Known(o, state[o], posted[o]) /\ Known(o, result[o], posted[o])
    /\ WaitReturnsBe

----------------------------------------------------------------------------
\* A write has two replies, a read has one.
LEMMA RepliesType ==
    \A o \in Opes : /\ Len(Replies[o]) \in 1..2
                    /\ \A i \in 1..Len(Replies[o]) : Replies[o][i] \in OpeState \ {"other"}
  BY DEF Replies, Opes, OpeState

\* The kinds of waiting calls of an operation are waiting calls.
LEMMA WaitsType == \A o \in Opes : Waits(o) \subseteq WaitWope \cup WaitRope
  BY DEF Waits

\* More replies report no less.
LEMMA MoreReports ==
    ASSUME NEW o, NEW s, NEW m \in Nat, NEW n \in Nat, m <= n, Reports(o, s, m)
    PROVE  Reports(o, s, n)
  BY DEF Reports

LEMMA ClientInit == Init => ClientInv
  <1> SUFFICES ASSUME Init PROVE ClientInv
    OBVIOUS
  <1> USE DEF Init
  <1>1. TypeOK
    <2>1. [be |-> "any", timed |-> TRUE] \in WaitWope
      BY DEF WaitWope
    <2> QED BY <2>1, ClientAssumption DEF TypeOK, OpeState, Reply
  <1>2. \A o \in Opes : posted[o] <= Len(Replies[o])
    BY RepliesType
  <1>3. JobsWerePosted
    BY DEF JobsWerePosted
  <1>4. /\ \A o \in Opes : Known(o, state[o], posted[o]) /\ Known(o, result[o], posted[o])
        /\ WaitReturnsBe
    BY DEF Known, WaitReturnsBe
  <1> QED BY <1>1, <1>2, <1>3, <1>4 DEF ClientInv

----------------------------------------------------------------------------
(* The steps of the server and of the handlers. *)

LEMMA RequestStep == ASSUME ClientInv, NEW o \in Opes, Request(o) PROVE ClientInv'
  BY DEF ClientInv, Request, TypeOK, JobsWerePosted, Posted, WaitReturnsBe, net, caller

LEMMA PostStep == ASSUME ClientInv, NEW o \in Opes, Post(o) PROVE ClientInv'
  <1> DEFINE new == [ope |-> o, state |-> Replies[o][posted[o] + 1]]
  <1>1. /\ posted' = [posted EXCEPT ![o] = @ + 1] /\ posted[o] < Len(Replies[o])
        /\ jobs' = Append(jobs, new) \/ jobs' = jobs
        /\ handled' = handled \/ handled' = [handled EXCEPT ![o] = @ + 1]
        /\ UNCHANGED <<sent, state, reply, caller>>
    BY DEF Post, ClientInv, TypeOK
  <1>2. /\ posted \in [Opes -> 0..2] /\ jobs \in Seq(Reply) /\ handled \in [Opes -> Nat]
        /\ state \in [Opes -> OpeState] /\ result \in [Opes -> OpeState]
        /\ reply \in [Handlers -> Reply \cup {NoReply}]
    BY DEF ClientInv, TypeOK
  <1>3. Len(Replies[o]) \in 1..2 /\ posted[o] + 1 \in 1..Len(Replies[o])
    BY <1>1, <1>2, RepliesType
  <1>4. new \in Reply
    BY <1>3, RepliesType DEF Reply
  <1>5. TypeOK'
    <2>1. posted' \in [Opes -> 0..2]
      BY <1>1, <1>2, <1>3
    <2>2. jobs' \in Seq(Reply)
      <3>1. Append(jobs, new) \in Seq(Reply)
        BY ONLY <1>2, <1>4
      <3> HIDE DEF new
      <3> QED BY <1>1, <1>2, <3>1
    <2>3. handled' \in [Opes -> Nat]
      BY <1>1, <1>2
    <2> QED BY <1>1, <2>1, <2>2, <2>3 DEF ClientInv, TypeOK, caller
  <1>6. \A p \in Opes : posted'[p] <= Len(Replies[p]) /\ posted[p] <= posted'[p]
    <2>1. posted'[o] = posted[o] + 1 /\ posted'[o] <= Len(Replies[o]) /\ posted[o] <= posted'[o]
      <3>1. posted[o] \in 0..2
        BY <1>2
      <3>2. posted'[o] = posted[o] + 1
        BY ONLY <1>1, <1>2
      <3> QED BY ONLY <1>3, <3>1, <3>2
    <2>2. ASSUME NEW p \in Opes, p # o
          PROVE  posted'[p] <= Len(Replies[p]) /\ posted[p] <= posted'[p]
      <3>1. posted'[p] = posted[p] /\ posted[p] \in 0..2
        BY <1>1, <1>2, <2>2
      <3>2. posted[p] <= Len(Replies[p])
        BY <2>2 DEF ClientInv
      <3> HIDE DEF new
      <3> QED BY <3>1, <3>2
    <2> QED BY <2>1, <2>2
  <1>7. ASSUME NEW r \in Reply, Posted(r) PROVE Posted(r)'
    <2>1. r.ope \in Opes /\ Reports(r.ope, r.state, posted[r.ope])
      <3>1. r.ope \in Opes
        BY <1>7 DEF Reply
      <3> QED BY <1>7, <3>1 DEF Posted
    <2>2. posted[r.ope] \in Nat /\ posted'[r.ope] \in Nat /\ posted[r.ope] <= posted'[r.ope]
      <3>1. posted[r.ope] <= posted'[r.ope]
        BY <1>6, <2>1
      <3>2. posted \in [Opes -> 0..2] /\ posted' \in [Opes -> 0..2]
        BY <1>2, <1>5 DEF TypeOK
      <3> QED BY ONLY <2>1, <3>1, <3>2
    <2> QED BY <2>1, <2>2, MoreReports DEF Posted
  <1>8. JobsWerePosted'
    <2>1. ASSUME jobs' = Append(jobs, new), NEW i \in DOMAIN jobs'
          PROVE  Posted(jobs[i])'
      <3>1. CASE i = Len(jobs) + 1
        <4>1. jobs'[i] = new
          BY <1>2, <1>4, <2>1, <3>1
        <4>2. posted'[o] = posted[o] + 1
          BY <1>1, <1>2
        <4>3. Reports(o, Replies[o][posted[o] + 1], posted[o] + 1)
          BY <1>3 DEF Reports
        <4> QED BY <4>1, <4>2, <4>3 DEF Posted
      <3>2. CASE i # Len(jobs) + 1
        <4>1. i \in DOMAIN jobs /\ jobs'[i] = jobs[i] /\ jobs[i] \in Reply
          BY <1>2, <1>4, <2>1, <3>2
        <4>2. Posted(jobs[i])
          BY <4>1 DEF ClientInv, JobsWerePosted
        <4>3. ASSUME NEW r \in Reply, r = jobs[i] PROVE r = jobs'[i] /\ Posted(r)'
          BY <4>1, <4>2, <4>3, <1>7
        <4> QED BY <4>1, <4>3 DEF Posted
      <3> QED BY <3>1, <3>2
    <2>2. ASSUME jobs' = jobs, NEW i \in DOMAIN jobs' PROVE Posted(jobs[i])'
      <3>1. jobs[i] \in Reply /\ Posted(jobs[i])
        BY <1>2, <2>2 DEF ClientInv, JobsWerePosted
      <3>2. ASSUME NEW r \in Reply, r = jobs[i] PROVE r = jobs'[i] /\ Posted(r)'
        BY <2>2, <3>1, <3>2, <1>7
      <3> QED BY <3>1, <3>2 DEF Posted
    <2>3. ASSUME NEW h \in Handlers, reply'[h] # NoReply PROVE Posted(reply[h])'
      <3>1. reply[h] \in Reply /\ Posted(reply[h]) /\ reply' = reply
        BY <1>1, <1>2, <2>3 DEF ClientInv, JobsWerePosted
      <3>2. ASSUME NEW r \in Reply, r = reply[h] PROVE r = reply'[h] /\ Posted(r)'
        BY <3>1, <3>2, <1>7
      <3> QED BY <3>1, <3>2 DEF Posted
    <2> QED BY <1>1, <2>1, <2>2, <2>3 DEF JobsWerePosted
  <1>9. ASSUME NEW p \in Opes
        PROVE  Known(p, state'[p], posted'[p]) /\ Known(p, result'[p], posted'[p])
    <2>1. posted[p] \in Nat /\ posted'[p] \in Nat /\ posted[p] <= posted'[p]
      BY <1>2, <1>5, <1>6 DEF TypeOK
    <2>2. /\ state' = state /\ result' = result
          /\ Known(p, state[p], posted[p]) /\ Known(p, result[p], posted[p])
      BY <1>1 DEF ClientInv, caller
    <2> QED BY <2>1, <2>2, MoreReports DEF Known
  <1>10. WaitReturnsBe'
    BY <1>1 DEF ClientInv, WaitReturnsBe, caller
  <1> QED BY <1>5, <1>6, <1>8, <1>9, <1>10 DEF ClientInv

LEMMA TakeReplyStep == ASSUME ClientInv, NEW h \in Handlers, TakeReply(h) PROVE ClientInv'
  <1>1. /\ jobs \in Seq(Reply) /\ jobs # <<>> /\ reply \in [Handlers -> Reply \cup {NoReply}]
        /\ reply' = [reply EXCEPT ![h] = jobs[1]] /\ jobs' = Tail(jobs)
        /\ UNCHANGED <<sent, state, posted, handled, caller>>
    BY DEF ClientInv, TypeOK, TakeReply
  <1>2. /\ jobs[1] \in Reply /\ 1 \in DOMAIN jobs
        /\ Tail(jobs) \in Seq(Reply)
        /\ \A i \in DOMAIN Tail(jobs) : i + 1 \in DOMAIN jobs /\ Tail(jobs)[i] = jobs[i + 1]
    BY <1>1
  <1>3. TypeOK'
    BY <1>1, <1>2 DEF ClientInv, TypeOK, caller
  <1>4. JobsWerePosted'
    BY <1>1, <1>2 DEF ClientInv, JobsWerePosted, Posted
  <1>5. /\ WaitReturnsBe'
        /\ \A o \in Opes : posted'[o] <= Len(Replies[o])
        /\ \A o \in Opes : Known(o, state'[o], posted'[o]) /\ Known(o, result'[o], posted'[o])
    BY <1>1 DEF ClientInv, WaitReturnsBe, caller
  <1> QED BY <1>3, <1>4, <1>5 DEF ClientInv

LEMMA HandleStep == ASSUME ClientInv, NEW h \in Handlers, Handle(h) PROVE ClientInv'
  <1> DEFINE r == reply[h]
  <1>1. /\ reply \in [Handlers -> Reply \cup {NoReply}] /\ reply[h] # NoReply
        /\ reply' = [reply EXCEPT ![h] = NoReply]
        /\ handled' = [handled EXCEPT ![r.ope] = @ + 1]
        /\ state' = [state EXCEPT ![r.ope] = r.state]
        /\ at' = [at EXCEPT ![r.ope] = IF @ = "blocked" THEN "woken" ELSE @]
        /\ UNCHANGED <<sent, posted, jobs, call, result, calls>>
    BY DEF ClientInv, TypeOK, Handle, Handled, NotifyAll
  <1>2. r \in Reply /\ r.ope \in Opes /\ r.state \in OpeState /\ Posted(r)
    BY <1>1 DEF Reply, ClientInv, JobsWerePosted
  <1>3. TypeOK'
    BY <1>1, <1>2 DEF ClientInv, TypeOK
  <1>4. JobsWerePosted'
    BY <1>1, <1>2 DEF ClientInv, JobsWerePosted, Posted
  <1>5. ASSUME NEW o \in Opes
        PROVE  Known(o, state'[o], posted'[o]) /\ Known(o, result'[o], posted'[o])
    <2>1. /\ posted' = posted /\ result' = result /\ state \in [Opes -> OpeState]
          /\ Known(o, state[o], posted[o]) /\ Known(o, result[o], posted[o])
      BY <1>1 DEF ClientInv, TypeOK
    <2>2. state'[o] = IF o = r.ope THEN r.state ELSE state[o]
      BY <1>1, <2>1
    <2>3. Known(r.ope, r.state, posted[r.ope])
      BY <1>2 DEF Known, Posted
    <2> QED BY <2>1, <2>2, <2>3
  <1>6. WaitReturnsBe'
    BY <1>1, <1>2 DEF ClientInv, WaitReturnsBe, TypeOK
  <1>7. \A o \in Opes : posted'[o] <= Len(Replies[o])
    BY <1>1 DEF ClientInv
  <1> QED BY <1>3, <1>4, <1>5, <1>6, <1>7 DEF ClientInv

----------------------------------------------------------------------------
(* The steps of the callers.  None of them concerns a reply. *)

\* A step of a caller leaves the replies as they are.
LEMMA CallerStep ==
    ASSUME ClientInv, UNCHANGED <<sent, state, net>>, TypeOK', WaitReturnsBe',
           NEW o \in Opes,
           \/ result' = result
           \/ result' = [result EXCEPT ![o] = state[o]]
    PROVE  ClientInv'
  <1>1. posted' = posted /\ jobs' = jobs /\ reply' = reply /\ state' = state
    BY DEF net
  <1>2. JobsWerePosted'
    BY <1>1 DEF ClientInv, JobsWerePosted, Posted
  <1>3. ASSUME NEW p \in Opes
        PROVE  Known(p, state'[p], posted'[p]) /\ Known(p, result'[p], posted'[p])
    <2>1. /\ result \in [Opes -> OpeState]
          /\ Known(p, state[p], posted[p]) /\ Known(p, result[p], posted[p])
      BY DEF ClientInv, TypeOK
    <2>2. result'[p] = result[p] \/ result'[p] = state[p]
      BY <2>1
    <2> QED BY <1>1, <2>1, <2>2
  <1> QED BY <1>1, <1>2, <1>3 DEF ClientInv

LEMMA EnterStep ==
    ASSUME ClientInv, NEW o \in Opes, NEW wait \in Waits(o), Enter(o, wait)
    PROVE  ClientInv'
  <1>1. /\ UNCHANGED <<sent, state, net>> /\ wait \in WaitWope \cup WaitRope
        /\ calls[o] < MaxCalls /\ calls' = [calls EXCEPT ![o] = @ + 1]
        /\ call' = [call EXCEPT ![o] = wait]
    BY WaitsType DEF Enter
  <1>2. \/ /\ Satisfied(o, wait) /\ at' = [at EXCEPT ![o] = "idle"]
           /\ result' = [result EXCEPT ![o] = state[o]]
        \/ at' = [at EXCEPT ![o] = "blocked"] /\ result' = result
    BY DEF Enter, Leave
  <1>3. TypeOK'
    <2>1. /\ calls \in [Opes -> 0..MaxCalls] /\ call \in [Opes -> WaitWope \cup WaitRope]
          /\ at \in [Opes -> {"idle", "blocked", "woken"}] /\ result \in [Opes -> OpeState]
          /\ state \in [Opes -> OpeState]
      BY DEF ClientInv, TypeOK
    <2>2. calls' \in [Opes -> 0..MaxCalls]
      BY <1>1, <2>1, ClientAssumption
    <2>3. call' \in [Opes -> WaitWope \cup WaitRope]
      BY <1>1, <2>1
    <2>4. at' \in [Opes -> {"idle", "blocked", "woken"}] /\ result' \in [Opes -> OpeState]
      BY <1>2, <2>1
    <2> QED BY <1>1, <2>2, <2>3, <2>4 DEF ClientInv, TypeOK, net
  <1>4. WaitReturnsBe'
    BY <1>1, <1>2 DEF ClientInv, WaitReturnsBe, TypeOK, Satisfied
  <1> QED BY <1>1, <1>2, <1>3, <1>4, CallerStep

\* A woken caller returns or blocks again; a blocked one is woken for nothing or
\* runs out of time.
LEMMA WakeStep ==
    ASSUME ClientInv, NEW o \in Opes, SpuriousWakeup(o) \/ Resume(o) \/ TimeOut(o)
    PROVE  ClientInv'
  <1>1. UNCHANGED <<sent, state, net, call, calls>>
    BY DEF SpuriousWakeup, Resume, TimeOut
  <1>2. \/ /\ call[o].be = "any" \/ call[o].timed \/ Satisfied(o, call[o])
           /\ at' = [at EXCEPT ![o] = "idle"]
           /\ result' = [result EXCEPT ![o] = state[o]]
        \/ at' = [at EXCEPT ![o] = "blocked"] /\ result' = result
        \/ at' = [at EXCEPT ![o] = "woken"] /\ result' = result
    BY DEF SpuriousWakeup, Resume, TimeOut, Leave
  <1>3. TypeOK'
    BY <1>1, <1>2 DEF ClientInv, TypeOK, net
  <1>4. WaitReturnsBe'
    BY <1>1, <1>2 DEF ClientInv, WaitReturnsBe, TypeOK, Satisfied
  <1> QED BY <1>1, <1>2, <1>3, <1>4, CallerStep

LEMMA ClientNext == ClientInv /\ [Next]_vars => ClientInv'
  <1> SUFFICES ASSUME ClientInv, [Next]_vars PROVE ClientInv'
    OBVIOUS
  <1>1. CASE UNCHANGED vars
    BY <1>1 DEF ClientInv, TypeOK, JobsWerePosted, Posted, WaitReturnsBe,
                vars, net, caller
  <1>2. CASE \E o \in Opes : Request(o) \/ Post(o)
    BY <1>2, RequestStep, PostStep
  <1>3. CASE \E h \in Handlers : TakeReply(h) \/ Handle(h)
    BY <1>3, TakeReplyStep, HandleStep
  <1>4. CASE \E o \in Opes : \E wait \in Waits(o) : Enter(o, wait)
    BY <1>4, EnterStep
  <1>5. CASE \E o \in Opes : SpuriousWakeup(o) \/ Resume(o) \/ TimeOut(o)
    BY <1>5, WakeStep
  <1> QED BY <1>1, <1>2, <1>3, <1>4, <1>5 DEF Next

\* ClientInv is an invariant of the client.
THEOREM ClientInvariant == Spec => []ClientInv
  BY ClientInit, ClientNext, PTL DEF Spec

\* The maps, the pool and the callers keep their types.
THEOREM ClientTypeCorrect == Spec => []TypeOK
  <1>1. ClientInv => TypeOK
    BY DEF ClientInv
  <1> QED BY <1>1, ClientInvariant, PTL

\* What the client stores and returns of an operation was reported for it, in
\* whatever order the pool's threads handle the replies.
THEOREM StatesAlwaysReported == Spec => []StatesWereReported
  <1>1. ClientInv => StatesWereReported
    BY DEF ClientInv, StatesWereReported, Known, Reports
  <1> QED BY <1>1, ClientInvariant, PTL

\* waitWopeBe returns only what it was told to wait for.
THEOREM WaitAlwaysReturnsBe == Spec => []WaitReturnsBe
  <1>1. ClientInv => WaitReturnsBe
    BY DEF ClientInv
  <1> QED BY <1>1, ClientInvariant, PTL
=============================================================================
