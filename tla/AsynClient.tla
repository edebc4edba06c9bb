----------------------------- MODULE AsynClient -----------------------------
(***************************************************************************)
(* AsynClient: requests, the replies a server posts to it, and the calls   *)
(* that wait for them.                                                     *)
(*                                                                         *)
(* The handlers of /repWrite and /repRead enqueue a job in thread_pool for *)
(* each reply; a job stores the new state of its operation and notifies    *)
(* the operation's condition variable.  Callers wait on it with or without *)
(* a predicate, with or without a time limit.  A step is a critical        *)
(* section of access_to_wopestates or access_to_ropestates.                *)
(*                                                                         *)
(* The server is external: it answers a write onJournal and then onDisk, a *)
(* read once, each by a POST it waits for.                                 *)
(***************************************************************************)
EXTENDS Naturals, Sequences, FiniteSets

CONSTANTS
    Writes,        \* opeIds of writes
    Reads,         \* opeIds of reads
    Handlers,      \* the threads of thread_pool
    NoReply,       \* the reply of a handler that has none
    LossyReplies,  \* may a POST of the server fail?
    ShortTimeouts, \* may a time limit pass before the replies are handled?
    MaxCalls       \* bound on the waiting calls per operation

ASSUME ClientAssumption ==
    /\ Writes \cap Reads = {}
    /\ {LossyReplies, ShortTimeouts} \subseteq BOOLEAN
    /\ MaxCalls \in Nat

Opes      == Writes \cup Reads
OpeState  == {"other", "onJournal", "onDisk", "success"}
Replies   == [o \in Opes |-> IF o \in Writes THEN <<"onJournal", "onDisk">>
                                            ELSE <<"success">>]
Reply     == [ope : Opes, state : OpeState]

\* The waiting calls: be is "any" where there is no predicate.
WaitWope  == {[be |-> b, timed |-> t] : b \in {"onJournal", "onDisk"}, t \in BOOLEAN}
             \cup {[be |-> "any", timed |-> TRUE]}
WaitRope  == {[be |-> "any", timed |-> t] : t \in BOOLEAN}
Waits(o)  == IF o \in Writes THEN WaitWope ELSE WaitRope

VARIABLES
    sent,     \* the operations whose request was sent
    state,    \* wope_states and rope_states: operation |-> its state
    posted,   \* the server: how many replies it has posted for each operation
    handled,  \* how many of them were handled, or lost
    jobs,     \* thread_pool's jobs, in the order of the POSTs
    reply,    \* the reply each handler thread works on
    at,       \* per operation: where its caller is
    call,     \* per operation: the caller's last waiting call
    result,   \* per operation: what that call returned
    calls     \* per operation: the waiting calls so far

net    == <<posted, handled, jobs, reply>>
caller == <<at, call, result, calls>>
vars   == <<sent, state, net, caller>>

Init ==
    /\ sent = {}
    /\ state = [o \in Opes |-> "other"]
    /\ posted = [o \in Opes |-> 0] /\ handled = [o \in Opes |-> 0]
    /\ jobs = <<>> /\ reply = [h \in Handlers |-> NoReply]
    /\ at = [o \in Opes |-> "idle"]
    /\ call = [o \in Opes |-> [be |-> "any", timed |-> TRUE]]
    /\ result = [o \in Opes |-> "other"]
    /\ calls = [o \in Opes |-> 0]

----------------------------------------------------------------------------
\* asynWrite or asynRead has returned the opeId.
Request(o) ==
    /\ o \notin sent
    /\ sent' = sent \cup {o}
    /\ UNCHANGED <<state, net, caller>>

\* Mutant: the server posts the last reply once more.
Post_Again(o) ==
    /\ o \in sent /\ posted[o] <= Len(Replies[o])
    /\ posted' = [posted EXCEPT ![o] = @ + 1]
    /\ jobs' = Append(jobs, [ope |-> o, state |-> Replies[o][1]])
    /\ UNCHANGED <<sent, state, handled, reply, caller>>

\* The server posts its next reply, whose handler enqueues a job; or the POST
\* fails, and the server goes on.
Post(o) ==
    /\ o \in sent /\ posted[o] < Len(Replies[o])
    /\ posted' = [posted EXCEPT ![o] = @ + 1]
    /\ \/ /\ jobs' = Append(jobs, [ope |-> o, state |-> Replies[o][posted'[o]]])
          /\ handled' = handled
       \/ /\ LossyReplies
          /\ handled' = [handled EXCEPT ![o] = @ + 1]
          /\ jobs' = jobs
    /\ UNCHANGED <<sent, state, reply, caller>>

TakeReply(h) ==
    /\ reply[h] = NoReply /\ jobs # <<>>
    /\ reply' = [reply EXCEPT ![h] = Head(jobs)]
    /\ jobs' = Tail(jobs)
    /\ UNCHANGED <<sent, state, posted, handled, caller>>

\* What handling reply[h] does to everything but the state and the caller.
Handled(h) ==
    /\ reply[h] # NoReply
    /\ reply' = [reply EXCEPT ![h] = NoReply]
    /\ handled' = [handled EXCEPT ![reply[h].ope] = @ + 1]
    /\ UNCHANGED <<sent, posted, jobs, call, result, calls>>

NotifyAll(o) == at' = [at EXCEPT ![o] = IF @ = "blocked" THEN "woken" ELSE @]

\* Mutant: both kinds of reply store onDisk.
Handle_SameState(h) ==
    /\ Handled(h)
    /\ state' = [state EXCEPT ![reply[h].ope] =
                    IF reply[h].state = "success" THEN "success" ELSE "onDisk"]
    /\ NotifyAll(reply[h].ope)

\* Mutant: the condition variable is not notified.
Handle_Silent(h) ==
    /\ Handled(h)
    /\ state' = [state EXCEPT ![reply[h].ope] = reply[h].state]
    /\ at' = at

\* handleRepWrite, handleRepRead
Handle(h) ==
    /\ Handled(h)
    /\ state' = [state EXCEPT ![reply[h].ope] = reply[h].state]
    /\ NotifyAll(reply[h].ope)

----------------------------------------------------------------------------
(* The waiting calls. *)

Satisfied(o, wait) == wait.be # "any" /\ state[o] = wait.be

Leave(o) ==
    /\ at' = [at EXCEPT ![o] = "idle"]
    /\ result' = [result EXCEPT ![o] = state[o]]

\* The lock is taken and the predicate evaluated, if there is one.
Enter(o, wait) ==
    /\ o \in sent /\ at[o] = "idle" /\ calls[o] < MaxCalls
    /\ calls' = [calls EXCEPT ![o] = @ + 1]
    /\ call' = [call EXCEPT ![o] = wait]
    /\ IF Satisfied(o, wait) THEN Leave(o)
       ELSE at' = [at EXCEPT ![o] = "blocked"] /\ UNCHANGED result
    /\ UNCHANGED <<sent, state, net>>

SpuriousWakeup(o) ==
    /\ at[o] = "blocked"
    /\ at' = [at EXCEPT ![o] = "woken"]
    /\ UNCHANGED <<sent, state, net, call, result, calls>>

\* A caller that was woken has the lock again.
Resume(o) ==
    /\ at[o] = "woken"
    /\ IF call[o].be = "any" \/ Satisfied(o, call[o]) THEN Leave(o)
       ELSE at' = [at EXCEPT ![o] = "blocked"] /\ UNCHANGED result
    /\ UNCHANGED <<sent, state, net, call, calls>>

\* Mutant: wait instead of wait_for.
TimeOut_Never(o) ==
    /\ at[o] = "blocked" /\ call[o].timed /\ calls[o] > MaxCalls
    /\ Leave(o)
    /\ UNCHANGED <<sent, state, net, call, calls>>

TimeOut(o) ==
    /\ at[o] = "blocked" /\ call[o].timed
    /\ ShortTimeouts \/ handled[o] = Len(Replies[o])
    /\ Leave(o)
    /\ UNCHANGED <<sent, state, net, call, calls>>

Next ==
    \/ \E o \in Opes : Request(o) \/ Post(o)
    \/ \E h \in Handlers : TakeReply(h) \/ Handle(h)
    \/ \E o \in Opes : \E wait \in Waits(o) : Enter(o, wait)
    \/ \E o \in Opes : SpuriousWakeup(o) \/ Resume(o) \/ TimeOut(o)

Spec == Init /\ [][Next]_vars

\* Handler threads and woken callers keep being scheduled, and deadlines pass
\* for good: a caller that blocks again and again after its deadline returns
\* (hence SF).  The server need not answer.
Fairness ==
    /\ \A h \in Handlers : WF_vars(TakeReply(h) \/ Handle(h))
    /\ \A o \in Opes : WF_vars(Resume(o)) /\ SF_vars(TimeOut(o))
FairSpec == Spec /\ Fairness

----------------------------------------------------------------------------
(* Correctness. *)

\* Type invariant of the client, its handlers and its callers.
TypeOK ==
    /\ sent \subseteq Opes
    /\ state \in [Opes -> OpeState] /\ result \in [Opes -> OpeState]
    /\ posted \in [Opes -> 0..2] /\ handled \in [Opes -> Nat]
    /\ jobs \in Seq(Reply) /\ reply \in [Handlers -> Reply \cup {NoReply}]
    /\ at \in [Opes -> {"idle", "blocked", "woken"}]
    /\ call \in [Opes -> WaitWope \cup WaitRope] /\ calls \in [Opes -> 0..MaxCalls]

\* What the client knows of an operation, and what it has returned of it, is a
\* milestone the server has reported for this very operation, however replies
\* overtake one another.
StatesWereReported ==
    \A o \in Opes : \A s \in {state[o], result[o]} :
        s # "other" => \E i \in 1..posted[o] : Replies[o][i] = s

\* waitWopeBe returns what it was told to wait for, also when it is woken for
\* nothing or for another milestone.
WaitReturnsBe ==
    \A o \in Opes : at[o] = "idle" /\ calls[o] > 0 /\ call[o].be # "any" /\ ~call[o].timed =>
        result[o] = call[o].be

\* A call with a predicate that holds while it is blocked returns, unless
\* another reply changes the state first: no notification is lost between the
\* evaluation of the predicate and the wait.
NoLostNotification ==
    \A o \in Opes :
        at[o] # "idle" /\ Satisfied(o, call[o]) ~>
            at[o] = "idle" \/ ~Satisfied(o, call[o])

\* A call with a time limit returns.
TimedCallsReturn ==
    \A o \in Opes : at[o] # "idle" /\ call[o].timed ~> at[o] = "idle"

\* A wait for onDisk whose time limit outlasts both replies returns onDisk.
DiskWaitReturnsOnDisk ==
    \A w \in Writes :
        /\ at[w] = "idle" /\ calls[w] > 0
        /\ call[w] = [be |-> "onDisk", timed |-> TRUE]
        => result[w] = "onDisk"
=============================================================================
