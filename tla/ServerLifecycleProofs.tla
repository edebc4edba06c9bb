----------------------- MODULE ServerLifecycleProofs -----------------------
(***************************************************************************)
(* Theorems about ServerLifecycle, for any requests, any threads of the    *)
(* pool and any number of failures to bind or to open.                     *)
(***************************************************************************)
EXTENDS ServerLifecycle, ListLemmas

----------------------------------------------------------------------------
(* The inductive invariant.                                                *)

Constructing  == {"mount", "dispatch", "remount", "start"}
StoreOpen     == {"running", "stop", "join", "timers", "pool", "workers", "dispatcher",
                  "joinDispatcher", "destroy"}
ServerJoined  == {"timers", "pool", "workers", "dispatcher", "joinDispatcher", "destroy", "gone"}
WorkersJoined == {"dispatcher", "joinDispatcher", "destroy", "gone"}
ServerOnly    == {"mount", "dispatch", "remount", "exit", "timers", "dispatcher", "joinDispatcher"}

\* Before the server thread starts there are no requests, and once it has been
\* joined no handler is left: handlers run inside listen().
HandlersInv ==
    /\ main \in Constructing =>
          srv_t = "none" /\ wope_logs = <<>> /\ batch = <<>> /\ jobs = <<>>
    /\ main \in ServerJoined => srv_t = "exited"
    /\ handlers # {} => srv_t \in {"serving", "closing"}

\* A request is held by a thread of the pool that has not exited.
HoldersInv ==
    /\ \A k \in Workers : holds[k] # NoRequest => k \in up /\ main \notin Constructing
    /\ main \in WorkersJoined => up = {}

\* The client has no dispatcher; the store's has left before anything goes.
DispatcherInv ==
    /\ ~Server => dispatcher = "none" /\ batch = <<>>
    /\ Server /\ main \in {"destroy", "gone"} => dispatcher = "exited"

\* When the parts are there.
PartsInv ==
    /\ pool = "unbuilt" => ~Server /\ main \in {"start", "construct"}
    /\ pool = "destroyed" => main = "gone"
    /\ Server /\ main \in StoreOpen => db = "open"
    /\ main \in ServerOnly => Server

LifecycleInv ==
    /\ TypeOK /\ HandlersInv /\ HoldersInv /\ DispatcherInv /\ PartsInv
    /\ PartsOutliveTheirUsers

----------------------------------------------------------------------------
(* Types.                                                                  *)

LEMMA InitTyped == ASSUME Init PROVE TypeOK
<1>1. {srv_shut, missed, served, shut_handle_ope_thread, undefined} \subseteq BOOLEAN
  BY DEF Init
<1>2. /\ wope_logs \in Seq(Requests) /\ batch \in Seq(Requests) /\ jobs \in Seq(Requests)
      /\ stage \in [Requests -> 0 .. 2] /\ accepted \subseteq Requests
      /\ holds \in [Workers -> Requests \cup {NoRequest}]
      /\ refused \in 0 .. MaxRefused
  BY LifecycleAssumption, EmptySeq DEF Init
<1>3. /\ main \in {"mount", "start"} /\ pool \in {"up", "unbuilt"} /\ up \subseteq Workers
  BY DEF Init
<1> QED
  BY <1>1, <1>2, <1>3 DEF Init, TypeOK

LEMMA OwnerTyped == ASSUME TypeOK, Owner \/ Shutdown PROVE TypeOK'
<1>1. CASE FirstMount \/ StartDispatcher \/ SecondMount \/ StartServer \/ Construct
  BY <1>1, LifecycleAssumption
  DEF FirstMount, StartDispatcher, SecondMount, StartServer, Construct, Mount, At, GoTo, TypeOK,
      http, store, work, flow
<1>2. CASE Shutdown \/ Stop \/ Join \/ ShutTimers \/ ShutPool \/ JoinWorkers
  BY <1>2
  DEF Shutdown, Stop, Join, ShutTimers, ShutPool, JoinWorkers, At, GoTo, TypeOK,
      http, store, work, flow
<1>3. CASE ShutDispatcher \/ JoinDispatcher \/ Destroy
  BY <1>3 DEF ShutDispatcher, JoinDispatcher, Destroy, At, GoTo, TypeOK, http, store, work, flow
<1> QED
  BY <1>1, <1>2, <1>3 DEF Owner

LEMMA SrvMainTyped == ASSUME TypeOK, SrvMain PROVE TypeOK'
<1>1. /\ UNCHANGED <<kind, main, srv_shut, missed, db, dispatcher, shut_handle_ope_thread, timer,
                      pool, up, jobs, holds, flow, undefined>>
      /\ srv_t' \in {"check", "listen", "serving", "exited"}
      /\ served' = served \/ served' = TRUE
  BY DEF SrvMain, Setup, Check, Listen, PortTaken, Closed, store, work, flow
<1>2. refused' \in 0 .. MaxRefused
  BY LifecycleAssumption DEF SrvMain, Setup, Check, Listen, PortTaken, Closed, TypeOK
<1>3. {srv_shut, missed, served, shut_handle_ope_thread, undefined}' \subseteq BOOLEAN
  BY <1>1 DEF TypeOK
<1> QED
  BY <1>1, <1>2, <1>3 DEF TypeOK, flow

LEMMA RequestTyped ==
    ASSUME TypeOK, NEW r \in Requests, Request(r) \/ Handle(r)
    PROVE  TypeOK'
<1>1. /\ Append(wope_logs, r) \in Seq(Requests)
      /\ Append(jobs, r) \in Seq(Requests)
  BY AppendProperties DEF TypeOK
<1>2. CASE Request(r)
  BY <1>2, SMT DEF Request, TypeOK, http, store, work
<1>3. CASE Handle(r)
  <2>1. /\ wope_logs' \in Seq(Requests) /\ jobs' \in Seq(Requests)
        /\ undefined' \in BOOLEAN
    BY <1>1, <1>3 DEF Handle, Use, TypeOK
  <2> QED
    BY <1>3, <2>1 DEF Handle, TypeOK, http, store
<1> QED
  BY <1>2, <1>3

LEMMA DispatcherTyped == ASSUME TypeOK, HandleOpe \/ RunTimers PROVE TypeOK'
<1>1. batch # <<>> => Tail(batch) \in Seq(Requests) /\ Append(jobs, Head(batch)) \in Seq(Requests)
  BY HeadTailProperties, AppendProperties DEF TypeOK
<1> QED
  BY <1>1, EmptySeq DEF HandleOpe, Look, Swap, Enqueue, RunTimers, Use, TypeOK, http, work, flow

LEMMA WorkTyped ==
    ASSUME TypeOK, NEW k \in Workers, Work(k)
    PROVE  TypeOK'
<1>1. CASE Take(k)
  <2>1. Head(jobs) \in Requests /\ Tail(jobs) \in Seq(Requests)
    BY <1>1, HeadTailProperties DEF Take, TypeOK
  <2> QED
    BY <1>1, <2>1 DEF Take, TypeOK, http, store, flow
<1>2. CASE Do(k)
  <2>1. holds[k] \in Requests /\ Append(wope_logs, holds[k]) \in Seq(Requests)
    BY <1>2, AppendProperties DEF Do, TypeOK
  <2> QED
    <3>1. stage' \in [Requests -> 0 .. 2]
      <4>1. stage' = stage \/ (stage[holds[k]] # 2 /\ stage' = [stage EXCEPT ![holds[k]] = @ + 1])
        BY <1>2 DEF Do
      <4>2. stage[holds[k]] # 2 => stage[holds[k]] + 1 \in 0 .. 2
        BY <2>1 DEF TypeOK
      <4> QED
        BY <4>1, <4>2 DEF TypeOK
    <3> QED
      BY <1>2, <2>1, <3>1 DEF Do, TypeOK, http, store
<1>3. CASE Exit(k)
  BY <1>3 DEF Exit, TypeOK, http, store, flow
<1> QED
  BY <1>1, <1>2, <1>3 DEF Work

LEMMA NextTyped == ASSUME TypeOK, [Next]_vars PROVE TypeOK'
<1>1. CASE UNCHANGED vars
  BY <1>1 DEF vars, http, store, work, flow, TypeOK
<1> QED
  BY <1>1, OwnerTyped, SrvMainTyped, RequestTyped, DispatcherTyped, WorkTyped DEF Next

----------------------------------------------------------------------------
(* The rest of the invariant, action by action.                            *)

Rest == HandlersInv /\ HoldersInv /\ DispatcherInv /\ PartsInv /\ PartsOutliveTheirUsers

LEMMA InitRest == Init => Rest
BY DEF Init, Server, Rest, HandlersInv, HoldersInv, DispatcherInv, PartsInv,
       PartsOutliveTheirUsers, Constructing, StoreOpen, ServerJoined, WorkersJoined, ServerOnly

LEMMA OwnerRest == ASSUME LifecycleInv, Owner \/ Shutdown PROVE Rest'
<1> USE DEF At, GoTo, Server, Constructing, StoreOpen, ServerJoined, WorkersJoined, ServerOnly
<1>1. PartsOutliveTheirUsers'
  BY DEF Owner, Shutdown, FirstMount, StartDispatcher, SecondMount, StartServer, Construct, Stop,
         Join, ShutTimers, ShutPool, JoinWorkers, ShutDispatcher, JoinDispatcher, Destroy,
         PartsOutliveTheirUsers
<1>2. HandlersInv'
  BY DEF Owner, Shutdown, FirstMount, StartDispatcher, SecondMount, StartServer, Construct, Stop,
         Join, ShutTimers, ShutPool, JoinWorkers, ShutDispatcher, JoinDispatcher, Destroy,
         LifecycleInv, HandlersInv, http, store, work, flow
<1>3. HoldersInv'
  BY DEF Owner, Shutdown, FirstMount, StartDispatcher, SecondMount, StartServer, Construct, Stop,
         Join, ShutTimers, ShutPool, JoinWorkers, ShutDispatcher, JoinDispatcher, Destroy,
         LifecycleInv, HoldersInv, PartsInv, http, store, work, flow
<1>4. DispatcherInv'
  BY DEF Owner, Shutdown, FirstMount, StartDispatcher, SecondMount, StartServer, Construct, Stop,
         Join, ShutTimers, ShutPool, JoinWorkers, ShutDispatcher, JoinDispatcher, Destroy,
         LifecycleInv, DispatcherInv, PartsInv, http, store, work, flow
<1>5. PartsInv'
  BY DEF Owner, Shutdown, FirstMount, StartDispatcher, SecondMount, StartServer, Construct, Stop,
         Join, ShutTimers, ShutPool, JoinWorkers, ShutDispatcher, JoinDispatcher, Destroy, Mount,
         LifecycleInv, TypeOK, PartsInv, http, store, work, flow
<1> QED
  BY <1>1, <1>2, <1>3, <1>4, <1>5 DEF Rest

\* The server thread touches neither the parts nor the requests.
LEMMA SrvMainRest == ASSUME LifecycleInv, SrvMain PROVE Rest'
<1>1. /\ UNCHANGED <<kind, main, store, work, handlers, wope_logs, batch, undefined>>
      /\ srv_t \notin {"none", "exited", "serving"}
      /\ srv_t = "closing" => handlers = {}
  BY DEF SrvMain, Setup, Check, Listen, PortTaken, Closed, flow
<1>2. HandlersInv'
  BY <1>1 DEF LifecycleInv, HandlersInv, Constructing, work
<1> QED
  BY <1>1, <1>2 DEF Rest, LifecycleInv, HoldersInv, DispatcherInv, PartsInv,
     PartsOutliveTheirUsers, Server, store, work

\* A handler runs while the server serves or closes, so after the construction
\* has begun and before the join.
LEMMA RequestRest ==
    ASSUME LifecycleInv, NEW r \in Requests, Request(r) \/ Handle(r)
    PROVE  Rest'
<1>1. srv_t \in {"serving", "closing"} /\ UNCHANGED <<kind, main, http, store, pool, up, holds, batch>>
  BY DEF Request, Handle, LifecycleInv, HandlersInv, work
<1>2. main \notin Constructing /\ main \notin ServerJoined
  BY <1>1 DEF LifecycleInv, HandlersInv
<1>3. PartsOutliveTheirUsers'
  BY <1>1, <1>2 DEF Request, Handle, Use, Running, LifecycleInv, PartsInv,
     PartsOutliveTheirUsers, Server, Constructing, ServerJoined
<1> QED
  BY <1>1, <1>2, <1>3 DEF Rest, LifecycleInv, HandlersInv, HoldersInv, DispatcherInv, PartsInv,
     Server, store, http

\* What the dispatcher enqueues, it enqueues before it has left.
LEMMA DispatcherRest == ASSUME LifecycleInv, HandleOpe \/ RunTimers PROVE Rest'
<1>1. UNCHANGED <<kind, main, http, db, pool, up, holds, handlers>>
  BY DEF HandleOpe, Look, Swap, Enqueue, RunTimers, work, flow
<1>2. PartsOutliveTheirUsers'
  BY <1>1 DEF HandleOpe, Look, Swap, Enqueue, RunTimers, Use, Running, LifecycleInv, PartsInv,
     DispatcherInv, PartsOutliveTheirUsers, Server
<1>3. DispatcherInv'
  BY <1>1 DEF HandleOpe, Look, Swap, Enqueue, RunTimers, LifecycleInv, DispatcherInv, Server, flow
<1>4. HandlersInv'
  BY <1>1 DEF HandleOpe, Look, Swap, Enqueue, RunTimers, LifecycleInv, HandlersInv, http, work, flow
<1> QED
  BY <1>1, <1>2, <1>3, <1>4 DEF Rest, LifecycleInv, HoldersInv, PartsInv, Server

\* A worker finds a closed database only while the server is constructed: it
\* holds nothing before, and has left after.
LEMMA WorkRest ==
    ASSUME LifecycleInv, NEW k \in Workers, Work(k)
    PROVE  Rest'
<1>1. UNCHANGED <<kind, main, http, store, pool, handlers, batch>>
  BY DEF Work, Take, Do, Exit, flow
<1>2. k \in up /\ (Take(k) \/ Do(k) => main \notin Constructing)
  BY DEF Work, Take, Do, Exit, LifecycleInv, HoldersInv, HandlersInv
<1>3. PartsOutliveTheirUsers'
  <2>1. CASE Take(k) \/ Exit(k)
    BY <2>1 DEF Take, Exit, Running, PartsOutliveTheirUsers
  <2>2. CASE Do(k)
    <3>1. main \notin WorkersJoined /\ main # "exit" /\ main \notin Constructing
      BY <1>2, <2>2 DEF Do, Running, LifecycleInv, HoldersInv
    <3>2. Server /\ db = "closed" => main = "construct"
      BY <3>1 DEF LifecycleInv, TypeOK, PartsInv, Constructing, StoreOpen, WorkersJoined
    <3>3. undefined' => Server /\ db = "closed"
      BY <2>2 DEF Do
    <3> QED
      BY <1>1, <3>2, <3>3 DEF PartsOutliveTheirUsers, Server, store
  <2> QED
    BY <2>1, <2>2 DEF Work
<1>4. HoldersInv'
  <2>1. CASE Take(k) \/ Do(k)
    <3>1. \A l \in Workers : l # k => holds'[l] = holds[l]
      BY <2>1 DEF Take, Do, LifecycleInv, TypeOK
    <3>2. UNCHANGED <<main, up>>
      BY <2>1 DEF Take, Do
    <3> QED
      BY <1>2, <2>1, <3>1, <3>2 DEF LifecycleInv, HoldersInv, Constructing, WorkersJoined
  <2>2. CASE Exit(k)
    BY <2>2 DEF Exit, LifecycleInv, HoldersInv, Constructing, WorkersJoined
  <2> QED
    BY <2>1, <2>2 DEF Work
<1>5. HandlersInv'
  <2>1. CASE Take(k) \/ Do(k)
    BY <1>1, <1>2, <2>1 DEF LifecycleInv, HandlersInv, ServerJoined, http
  <2>2. CASE Exit(k)
    BY <2>2 DEF Exit, LifecycleInv, HandlersInv, Constructing, ServerJoined, http, flow
  <2> QED
    BY <2>1, <2>2 DEF Work
<1> QED
  BY <1>1, <1>3, <1>4, <1>5 DEF Rest, LifecycleInv, DispatcherInv, PartsInv, Server, store

LEMMA Inductive == ASSUME LifecycleInv, [Next]_vars PROVE LifecycleInv'
<1>1. TypeOK'
  BY NextTyped DEF LifecycleInv
<1>2. Rest'
  <2>1. CASE UNCHANGED vars
    BY <2>1 DEF vars, http, store, work, flow, LifecycleInv, Rest, HandlersInv, HoldersInv,
       DispatcherInv, PartsInv, PartsOutliveTheirUsers, Server
  <2> QED
    BY <2>1, OwnerRest, SrvMainRest, RequestRest, DispatcherRest, WorkRest DEF Next
<1> QED
  BY <1>1, <1>2 DEF LifecycleInv, Rest

----------------------------------------------------------------------------
(* A request is in one place.                                              *)

\* Lists that are empty: the dispatcher's, between two of its rounds; the queue
\* of the store, in a client; that of the client's pool, once a thread has left.
DrainedInv ==
    /\ dispatcher # "enqueue" => batch = <<>>
    /\ ~Server => wope_logs = <<>>
    /\ ~Server /\ up # Workers /\ pool # "unbuilt" => pool # "up" /\ jobs = <<>>
    /\ pool \in {"shut", "destroyed"} =>
          main \in {"workers", "dispatcher", "joinDispatcher", "destroy", "gone"}

\* How often a request is in each of the places that Places counts.
Held(r) == {k \in Workers : holds[k] = r}

InLogs(r)     == Cardinality(Occurrences(wope_logs, r))
InBatch(r)    == Cardinality(Occurrences(batch, r))
InJobs(r)     == Cardinality(Occurrences(jobs, r))
InHands(r)    == Cardinality(Held(r))
InHandlers(r) == Cardinality({r} \cap handlers)
InDone(r)     == Cardinality({r} \cap done)

\* Only finitely many workers hold a request: Workers itself may be infinite.
PlacesInv ==
    \A r \in Requests :
        /\ IsFiniteSet(Held(r))
        /\ Places(r) = IF r \in accepted THEN 1 ELSE 0

StagesInv == LifecycleInv /\ DrainedInv /\ PlacesInv

Summed(r) ==
    /\ Places(r) = InLogs(r) + InBatch(r) + InJobs(r) + InHands(r) + InHandlers(r) + InDone(r)
    /\ InLogs(r) \in Nat /\ InBatch(r) \in Nat /\ InJobs(r) \in Nat /\ InHands(r) \in Nat
    /\ InHandlers(r) = IF r \in handlers THEN 1 ELSE 0
    /\ InDone(r) = IF r \in done THEN 1 ELSE 0

LEMMA PlacesSum ==
    ASSUME NEW r \in Requests
    PROVE  TypeOK /\ IsFiniteSet(Held(r)) => Summed(r)
<1> SUFFICES ASSUME TypeOK, IsFiniteSet(Held(r)) PROVE Summed(r)
  OBVIOUS
<1>1. InLogs(r) \in Nat /\ InBatch(r) \in Nat /\ InJobs(r) \in Nat
  BY OccurrencesType DEF TypeOK, InLogs, InBatch, InJobs
<1>2. InHands(r) \in Nat
  BY FS_CardinalityType DEF InHands
<1>3. ASSUME NEW S PROVE Cardinality({r} \cap S) = IF r \in S THEN 1 ELSE 0
  <2>1. CASE r \in S
    <3>1. {r} \cap S = {r}
      BY <2>1
    <3> QED
      BY <2>1, <3>1, FS_Singleton
  <2>2. CASE r \notin S
    <3>1. {r} \cap S = {}
      BY <2>2
    <3> QED
      BY <2>2, <3>1, FS_EmptySet
  <2> QED
    BY <2>1, <2>2
<1>4. Places(r) = InLogs(r) + InBatch(r) + InJobs(r) + InHands(r) + InHandlers(r) + InDone(r)
  BY DEF Places, InLogs, InBatch, InJobs, InHands, InHandlers, InDone, Held, Occurrences
<1> QED
  BY <1>1, <1>2, <1>3, <1>4 DEF InHandlers, InDone, Summed

LEMMA PlacesSumNext ==
    ASSUME NEW r \in Requests
    PROVE  (TypeOK /\ IsFiniteSet(Held(r)) => Summed(r))'
BY PlacesSum, PTL

\* A worker that takes a request has one in hand more, one that has done it
\* one less.
LEMMA HandsChange ==
    ASSUME TypeOK, NEW k \in Workers, NEW r \in Requests, IsFiniteSet(Held(r)),
           NEW x \in Requests \cup {NoRequest}, holds' = [holds EXCEPT ![k] = x],
           holds[k] = NoRequest \/ x = NoRequest
    PROVE  /\ IsFiniteSet(Held(r))'
           /\ InHands(r)' = IF x = r THEN InHands(r) + 1
                            ELSE IF holds[k] = r THEN InHands(r) - 1 ELSE InHands(r)
<1>0. r # NoRequest /\ holds \in [Workers -> Requests \cup {NoRequest}]
  BY LifecycleAssumption DEF TypeOK
<1>1. CASE x = r
  <2>1. Held(r)' = Held(r) \cup {k} /\ k \notin Held(r)
    BY <1>0, <1>1 DEF Held
  <2> QED
    BY <1>1, <2>1, FS_AddElement DEF InHands
<1>2. CASE x # r /\ holds[k] = r
  <2>1. Held(r)' = Held(r) \ {k} /\ k \in Held(r)
    BY <1>0, <1>2 DEF Held
  <2> QED
    BY <1>2, <2>1, FS_RemoveElement DEF InHands
<1>3. CASE x # r /\ holds[k] # r
  <2>1. Held(r)' = Held(r)
    BY <1>0, <1>3 DEF Held
  <2> QED
    BY <1>3, <2>1 DEF InHands
<1> QED
  BY <1>1, <1>2, <1>3

LEMMA OwnerDrained == ASSUME StagesInv, Owner \/ Shutdown PROVE DrainedInv'
<1>1. UNCHANGED <<kind, wope_logs, batch, jobs>>
  BY DEF Owner, Shutdown, FirstMount, StartDispatcher, SecondMount, StartServer, Construct, Stop,
     Join, ShutTimers, ShutPool, JoinWorkers, ShutDispatcher, JoinDispatcher, Destroy, GoTo,
     work, flow
<1>2. dispatcher' = dispatcher \/ main = "dispatch"
  BY DEF Owner, Shutdown, FirstMount, StartDispatcher, SecondMount, StartServer, Construct, Stop,
     Join, ShutTimers, ShutPool, JoinWorkers, ShutDispatcher, JoinDispatcher, Destroy, At, GoTo,
     store
<1>3. main = "dispatch" => batch = <<>>
  BY DEF StagesInv, LifecycleInv, HandlersInv, Constructing
<1>4. \/ pool' = pool /\ up' = up
      \/ pool' = "up" /\ up' = Workers /\ ~Server
      \/ pool' = "shut" /\ up' = up /\ main = "pool" /\ main' = "workers"
      \/ pool' = "destroyed" /\ up' = up /\ main = "destroy" /\ main' = "gone"
  BY DEF Owner, Shutdown, FirstMount, StartDispatcher, SecondMount, StartServer, Construct, Stop,
     Join, ShutTimers, ShutPool, JoinWorkers, ShutDispatcher, JoinDispatcher, Destroy, At, GoTo,
     work
<1>5. pool \in {"shut", "destroyed"} =>
         main' \in {"workers", "dispatcher", "joinDispatcher", "destroy", "gone"}
  BY DEF StagesInv, DrainedInv, Owner, Shutdown, FirstMount, StartDispatcher, SecondMount,
     StartServer, Construct, Stop, Join, ShutTimers, ShutPool, JoinWorkers, ShutDispatcher,
     JoinDispatcher, Destroy, At, GoTo
<1>6. main \in {"pool", "destroy"} => pool # "unbuilt"
  BY DEF StagesInv, LifecycleInv, PartsInv
<1>7. dispatcher' # "enqueue" => batch' = <<>>
  BY <1>1, <1>2, <1>3 DEF StagesInv, DrainedInv
<1>8. ~Server /\ up' # Workers /\ pool' # "unbuilt" => pool' # "up" /\ jobs = <<>>
  BY <1>4, <1>6 DEF StagesInv, DrainedInv
<1>9. pool' \in {"shut", "destroyed"} =>
         main' \in {"workers", "dispatcher", "joinDispatcher", "destroy", "gone"}
  BY <1>4, <1>5
<1> QED
  BY <1>1, <1>7, <1>8, <1>9 DEF StagesInv, DrainedInv, Server

LEMMA RequestDrained ==
    ASSUME StagesInv, NEW r \in Requests, Request(r) \/ Handle(r)
    PROVE  DrainedInv'
<1>1. UNCHANGED <<kind, main, dispatcher, pool, up, batch>>
  BY DEF Request, Handle, store, work
<1>2. wope_logs' = wope_logs \/ Server
  BY DEF Request, Handle
<1>3. jobs' = jobs \/ pool = "up" \/ pool = "unbuilt"
  <2>1. CASE Request(r)
    BY <2>1 DEF Request, work
  <2>2. CASE Handle(r)
    <3>1. srv_t \in {"serving", "closing"}
      BY <2>2 DEF Handle, StagesInv, LifecycleInv, HandlersInv
    <3>2. main \notin ServerJoined
      BY <3>1 DEF StagesInv, LifecycleInv, HandlersInv
    <3>3. pool \notin {"shut", "destroyed"}
      BY <3>2 DEF StagesInv, DrainedInv, ServerJoined
    <3> QED
      BY <3>3 DEF StagesInv, LifecycleInv, TypeOK
  <2> QED
    BY <2>1, <2>2
<1> QED
  BY <1>1, <1>2, <1>3 DEF StagesInv, DrainedInv, Server

LEMMA ThreadsDrained ==
    ASSUME StagesInv, SrvMain \/ HandleOpe \/ RunTimers
    PROVE  DrainedInv'
<1>1. UNCHANGED <<kind, main, pool, up>>
  BY DEF SrvMain, Setup, Check, Listen, PortTaken, Closed, HandleOpe, Look, Swap, Enqueue,
     RunTimers, work
<1>2. dispatcher' # "enqueue" => batch' = <<>>
  BY DEF StagesInv, DrainedInv, SrvMain, Setup, Check, Listen, PortTaken, Closed, HandleOpe, Look,
     Swap, Enqueue, RunTimers, store, flow
<1>3. wope_logs' = wope_logs \/ wope_logs' = <<>>
  BY DEF SrvMain, Setup, Check, Listen, PortTaken, Closed, HandleOpe, Look, Swap, Enqueue,
     RunTimers, flow
<1>4. jobs' = jobs \/ dispatcher = "enqueue"
  BY DEF SrvMain, Setup, Check, Listen, PortTaken, Closed, HandleOpe, Look, Swap, Enqueue,
     RunTimers, work
<1>5. dispatcher = "enqueue" => Server
  BY DEF StagesInv, LifecycleInv, DispatcherInv
<1> QED
  BY <1>1, <1>2, <1>3, <1>4, <1>5 DEF StagesInv, DrainedInv, Server

LEMMA WorkDrained ==
    ASSUME StagesInv, NEW k \in Workers, Work(k)
    PROVE  DrainedInv'
<1>1. UNCHANGED <<kind, main, dispatcher, pool, batch>>
  BY DEF Work, Take, Do, Exit, store, flow
<1>2. ~Server => wope_logs' = wope_logs
  BY DEF Work, Take, Do, Exit, flow
<1>3. CASE Take(k)
  <2>1. jobs # <<>> /\ up' = up
    BY <1>3 DEF Take
  <2> QED
    BY <1>1, <1>2, <2>1 DEF StagesInv, DrainedInv, Server
<1>4. CASE Do(k)
  <2>1. jobs' = jobs /\ up' = up
    BY <1>4 DEF Do
  <2> QED
    BY <1>1, <1>2, <2>1 DEF StagesInv, DrainedInv, Server
<1>5. CASE Exit(k)
  <2>1. jobs' = <<>> /\ pool = "shut"
    BY <1>5 DEF Exit
  <2> QED
    BY <1>1, <1>2, <2>1 DEF StagesInv, DrainedInv, Server
<1> QED
  BY <1>3, <1>4, <1>5 DEF Work

LEMMA HeldFinite ==
    ASSUME StagesInv, [Next]_vars, NEW r \in Requests
    PROVE  IsFiniteSet(Held(r))'
<1>1. TypeOK /\ IsFiniteSet(Held(r))
  BY DEF StagesInv, LifecycleInv, PlacesInv
<1>2. ASSUME NEW k \in Workers, Take(k) PROVE IsFiniteSet(Held(r))'
  <2>1. /\ Head(jobs) \in Requests /\ holds' = [holds EXCEPT ![k] = Head(jobs)]
        /\ holds[k] = NoRequest
    BY <1>1, <1>2, HeadTailProperties DEF Take, TypeOK
  <2> QED
    BY <1>1, <2>1, HandsChange
<1>3. ASSUME NEW k \in Workers, Do(k) PROVE IsFiniteSet(Held(r))'
  <2>1. holds' = [holds EXCEPT ![k] = NoRequest]
    BY <1>3 DEF Do
  <2> QED
    BY <1>1, <2>1, HandsChange
<1>4. CASE holds' = holds
  BY <1>1, <1>4 DEF Held
<1>5. \/ holds' = holds
      \/ \E k \in Workers : Take(k) \/ Do(k)
  BY DEF Next, Owner, Shutdown, FirstMount, StartDispatcher, SecondMount, StartServer, Construct,
     Stop, Join, ShutTimers, ShutPool, JoinWorkers, ShutDispatcher, JoinDispatcher, Destroy,
     SrvMain, Setup, Check, Listen, PortTaken, Closed, HandleOpe, Look, Swap, Enqueue, RunTimers,
     Request, Handle, Work, Exit, vars, work
<1> QED
  BY <1>2, <1>3, <1>4, <1>5

\* What moves a request takes it from one place and puts it in another; only
\* an arrival finds it in none.
LEMMA PlacesStep ==
    ASSUME StagesInv, [Next]_vars, NEW r \in Requests
    PROVE  \/ Places(r)' = Places(r) /\ (r \in accepted' <=> r \in accepted)
           \/ Places(r)' = Places(r) + 1 /\ r \in accepted' /\ r \notin accepted
<1>0. /\ TypeOK /\ TypeOK' /\ Places(r) \in 0 .. 1
      /\ IsFiniteSet(Held(r)) /\ IsFiniteSet(Held(r))'
  BY Inductive, HeldFinite DEF StagesInv, LifecycleInv, PlacesInv
<1>1. Summed(r) /\ Summed(r)'
  BY <1>0, PlacesSum, PlacesSumNext
<1>2. /\ wope_logs' = wope_logs => InLogs(r)' = InLogs(r)
      /\ batch' = batch => InBatch(r)' = InBatch(r)
      /\ jobs' = jobs => InJobs(r)' = InJobs(r)
      /\ holds' = holds => InHands(r)' = InHands(r)
  BY DEF InLogs, InBatch, InJobs, InHands, Held, Occurrences
<1>11. /\ wope_logs \in Seq(Requests) /\ batch \in Seq(Requests) /\ jobs \in Seq(Requests)
      /\ batch' \in Seq(Requests) /\ jobs' \in Seq(Requests)
  BY <1>0 DEF TypeOK
<1>12. /\ InLogs(r) = Cardinality(Occurrences(wope_logs, r))
      /\ InLogs(r)' = Cardinality(Occurrences(wope_logs', r))
      /\ InBatch(r) = Cardinality(Occurrences(batch, r))
      /\ InBatch(r)' = Cardinality(Occurrences(batch', r))
      /\ InJobs(r) = Cardinality(Occurrences(jobs, r))
      /\ InJobs(r)' = Cardinality(Occurrences(jobs', r))
  BY DEF InLogs, InBatch, InJobs
<1>3. CASE UNCHANGED <<wope_logs, batch, jobs, holds, handlers, done, accepted>>
  BY <1>1, <1>2, <1>3 DEF Summed
<1>4. ASSUME NEW q \in Requests, Request(q)
      PROVE  \/ Places(r)' = Places(r) /\ (r \in accepted' <=> r \in accepted)
             \/ Places(r)' = Places(r) + 1 /\ r \in accepted' /\ r \notin accepted
  <2>1. /\ UNCHANGED <<wope_logs, batch, jobs, holds, done>> /\ q \notin accepted
        /\ handlers' = handlers \cup {q} /\ accepted' = accepted \cup {q}
    BY <1>4 DEF Request, work
  <2>2. CASE q # r
    BY <1>1, <1>2, <2>1, <2>2 DEF Summed
  <2>3. CASE q = r
    <3>1. r \notin handlers
      <4>1. Places(r) = 0
        BY <2>1, <2>3 DEF StagesInv, PlacesInv
      <4> QED
        BY <1>1, <4>1 DEF Summed
    <3> QED
      BY <1>1, <1>2, <2>1, <2>3, <3>1 DEF Summed
  <2> QED
    BY <2>1, <2>2, <2>3
<1>5. ASSUME NEW q \in Requests, Handle(q) PROVE Places(r)' = Places(r) /\ accepted' = accepted
  <2>1. /\ UNCHANGED <<batch, holds, done, accepted>>
        /\ handlers' = handlers \ {q} /\ q \in handlers
        /\ \/ wope_logs' = Append(wope_logs, q) /\ jobs' = jobs
           \/ jobs' = Append(jobs, q) /\ wope_logs' = wope_logs
    BY <1>5 DEF Handle
  <2>2. /\ wope_logs' = Append(wope_logs, q) => InLogs(r)' = InLogs(r) + (IF r = q THEN 1 ELSE 0)
        /\ jobs' = Append(jobs, q) => InJobs(r)' = InJobs(r) + (IF r = q THEN 1 ELSE 0)
    <3>1. ASSUME NEW s \in Seq(Requests)
          PROVE  Cardinality(Occurrences(Append(s, q), r))
                     = Cardinality(Occurrences(s, r)) + (IF r = q THEN 1 ELSE 0)
      BY OccurrencesAppend
    <3> QED
      BY <1>11, <1>12, <3>1
  <2>3. InHandlers(r) = InHandlers(r)' + (IF r = q THEN 1 ELSE 0)
    <3>1. /\ InHandlers(r) = IF r \in handlers THEN 1 ELSE 0
          /\ InHandlers(r)' = IF r \in handlers' THEN 1 ELSE 0
      BY <1>1 DEF Summed
    <3>2. q \in handlers /\ (r \in handlers' <=> r \in handlers /\ r # q)
      BY <2>1
    <3> QED
      BY <3>1, <3>2
  <2>4. \/ InLogs(r)' = InLogs(r) + (IF r = q THEN 1 ELSE 0) /\ InJobs(r)' = InJobs(r)
        \/ InJobs(r)' = InJobs(r) + (IF r = q THEN 1 ELSE 0) /\ InLogs(r)' = InLogs(r)
    BY <1>2, <2>1, <2>2
  <2>5. InBatch(r)' = InBatch(r) /\ InHands(r)' = InHands(r) /\ InDone(r)' = InDone(r)
    BY <1>1, <1>2, <2>1 DEF Summed
  <2>6. Places(r)' = Places(r)
    BY <1>1, <2>3, <2>4, <2>5 DEF Summed
  <2> QED
    BY <2>1, <2>6
<1>6. CASE Swap
  <2>1. /\ UNCHANGED <<jobs, holds, done, accepted, handlers>>
        /\ batch = <<>> /\ batch' = wope_logs /\ wope_logs' = <<>>
    BY <1>6 DEF Swap, StagesInv, DrainedInv, work
  <2>2. InBatch(r) = 0 /\ InLogs(r)' = 0
    BY <1>11, <1>12, <2>1, OccurrencesType, EmptySeq
  <2>3. InBatch(r)' = InLogs(r)
    BY <1>12, <2>1
  <2> QED
    BY <1>1, <1>2, <2>1, <2>2, <2>3 DEF Summed
<1>7. CASE Enqueue /\ batch # <<>>
  <2>1. PICK q : q = Head(batch)
    OBVIOUS
  <2>2. /\ UNCHANGED <<wope_logs, holds, done, accepted, handlers>>
        /\ batch' = Tail(batch) /\ jobs' = Append(jobs, q) /\ q \in Requests
    BY <1>0, <1>7, <2>1, HeadTailProperties DEF Enqueue, TypeOK
  <2>3. InJobs(r)' = InJobs(r) + (IF r = q THEN 1 ELSE 0)
    BY <1>11, <1>12, <2>2, OccurrencesAppend
  <2>4. InBatch(r) = InBatch(r)' + (IF r = q THEN 1 ELSE 0)
    BY <1>7, <1>11, <1>12, <2>1, <2>2, OccurrencesTail
  <2> QED
    BY <1>1, <1>2, <2>2, <2>3, <2>4 DEF Summed
<1>8. ASSUME NEW k \in Workers, Take(k) PROVE Places(r)' = Places(r) /\ accepted' = accepted
  <2>1. PICK q : q = Head(jobs)
    OBVIOUS
  <2>2. /\ UNCHANGED <<wope_logs, batch, done, accepted, handlers>>
        /\ jobs # <<>> /\ jobs' = Tail(jobs) /\ q \in Requests
        /\ holds[k] = NoRequest /\ holds' = [holds EXCEPT ![k] = q]
    BY <1>0, <1>8, <2>1, HeadTailProperties DEF Take, TypeOK, flow
  <2>3. InJobs(r) = InJobs(r)' + (IF r = q THEN 1 ELSE 0)
    BY <1>11, <1>12, <2>1, <2>2, OccurrencesTail
  <2>4. InHands(r)' = InHands(r) + (IF r = q THEN 1 ELSE 0)
    <3>1. /\ InHands(r)' = IF q = r THEN InHands(r) + 1
                             ELSE IF holds[k] = r THEN InHands(r) - 1 ELSE InHands(r)
      BY <1>0, <2>2, HandsChange
    <3>2. holds[k] # r
      BY <2>2, LifecycleAssumption
    <3>3. InHands(r) \in Nat
      BY <1>1 DEF Summed
    <3> QED
      BY <3>1, <3>2, <3>3
  <2> QED
    BY <1>1, <1>2, <2>2, <2>3, <2>4 DEF Summed
<1>9. ASSUME NEW k \in Workers, Do(k) PROVE Places(r)' = Places(r) /\ accepted' = accepted
  <2>1. PICK q : q = holds[k]
    OBVIOUS
  <2>2. /\ UNCHANGED <<batch, jobs, handlers, accepted>>
        /\ q \in Requests /\ holds' = [holds EXCEPT ![k] = NoRequest]
        /\ \/ wope_logs' = Append(wope_logs, q) /\ done' = done
           \/ wope_logs' = wope_logs /\ done' = done \cup {q}
    BY <1>0, <1>9, <2>1 DEF Do, TypeOK
  <2>3. InHands(r)' = InHands(r) - (IF r = q THEN 1 ELSE 0)
    <3>1. NoRequest # r
      BY LifecycleAssumption
    <3>2. InHands(r)' = IF NoRequest = r THEN InHands(r) + 1
                        ELSE IF holds[k] = r THEN InHands(r) - 1 ELSE InHands(r)
      BY <1>0, <2>2, HandsChange
    <3>3. InHands(r) \in Nat
      BY <1>1 DEF Summed
    <3> QED
      BY <2>1, <3>1, <3>2, <3>3
  <2>4. wope_logs' = Append(wope_logs, q) => InLogs(r)' = InLogs(r) + (IF r = q THEN 1 ELSE 0)
    BY <1>11, <1>12, <2>2, OccurrencesAppend
  <2>5. r = q => InHands(r) > 0 /\ Places(r) = 1 /\ r \notin done
    BY <1>0, <1>1, <2>3 DEF Summed
  <2>6. InBatch(r)' = InBatch(r) /\ InJobs(r)' = InJobs(r) /\ InHandlers(r)' = InHandlers(r)
    BY <1>1, <1>2, <2>2 DEF Summed
  <2>7. CASE q # r
    <3>1. InLogs(r)' = InLogs(r) /\ InHands(r)' = InHands(r) /\ InDone(r)' = InDone(r)
      BY <1>1, <1>2, <2>2, <2>3, <2>4, <2>7 DEF Summed
    <3> QED
      BY <1>1, <2>2, <2>6, <2>7, <3>1 DEF Summed
  <2>8. CASE q = r
    <3>1. /\ InHands(r)' = InHands(r) - 1 /\ InDone(r) = 0
          /\ \/ InLogs(r)' = InLogs(r) + 1 /\ InDone(r)' = 0
             \/ InLogs(r)' = InLogs(r) /\ InDone(r)' = 1
      BY <1>1, <1>2, <2>2, <2>3, <2>4, <2>5, <2>8 DEF Summed
    <3>2. /\ Places(r) = InLogs(r) + InBatch(r) + InJobs(r) + InHands(r) + InHandlers(r) + InDone(r)
          /\ Places(r)' = InLogs(r)' + InBatch(r)' + InJobs(r)' + InHands(r)'
                          + InHandlers(r)' + InDone(r)'
          /\ InLogs(r) \in Nat /\ InBatch(r) \in Nat /\ InJobs(r) \in Nat /\ InHands(r) \in Nat
          /\ InHandlers(r) \in Nat
      BY <1>1 DEF Summed
    <3>3. Places(r)' = Places(r)
      BY <2>6, <3>1, <3>2
    <3> QED
      BY <2>2, <3>3
  <2> QED
    BY <2>7, <2>8
<1>10. \/ UNCHANGED <<wope_logs, batch, jobs, holds, handlers, done, accepted>>
       \/ \E q \in Requests : Request(q) \/ Handle(q)
       \/ Swap \/ (Enqueue /\ batch # <<>>)
       \/ \E k \in Workers : Take(k) \/ Do(k)
  <2>1. Owner \/ Shutdown => UNCHANGED <<jobs, holds, flow>>
    BY DEF Owner, Shutdown, FirstMount, StartDispatcher, SecondMount, StartServer, Construct,
       Stop, Join, ShutTimers, ShutPool, JoinWorkers, ShutDispatcher, JoinDispatcher, Destroy, work
  <2>2. SrvMain \/ RunTimers => UNCHANGED <<jobs, holds, flow>>
    BY DEF SrvMain, Setup, Check, Listen, PortTaken, Closed, RunTimers, work, flow
  <2>3. Look \/ (Enqueue /\ batch = <<>>) => UNCHANGED <<jobs, holds, flow>>
    BY DEF Look, Enqueue, work, flow
  <2>4. \A k \in Workers : Exit(k) => UNCHANGED <<jobs, holds, flow>>
    BY DEF Exit
  <2> QED
    BY <2>1, <2>2, <2>3, <2>4 DEF Next, HandleOpe, Work, vars, work, flow
<1> QED
  BY <1>3, <1>4, <1>5, <1>6, <1>7, <1>8, <1>9, <1>10 DEF Swap, Enqueue, flow

LEMMA StagesInductive == ASSUME StagesInv, [Next]_vars PROVE StagesInv'
<1>1. LifecycleInv'
  BY Inductive DEF StagesInv
<1>2. DrainedInv'
  <2>1. CASE UNCHANGED vars
    BY <2>1 DEF StagesInv, DrainedInv, vars, store, work, flow, Server
  <2> QED
    BY <2>1, OwnerDrained, RequestDrained, ThreadsDrained, WorkDrained DEF Next
<1>3. PlacesInv'
  <2>1. ASSUME NEW r \in Requests
        PROVE  Places(r)' = IF r \in accepted' THEN 1 ELSE 0
    BY <2>1, PlacesStep DEF StagesInv, PlacesInv
  <2> QED
    BY <2>1, HeldFinite DEF PlacesInv
<1> QED
  BY <1>1, <1>2, <1>3 DEF StagesInv

LEMMA InitStages == ASSUME Init PROVE DrainedInv /\ PlacesInv
<1>1. TypeOK
  BY InitTyped
<1>2. DrainedInv
  BY DEF Init, DrainedInv, Server
<1>3. ASSUME NEW r \in Requests
      PROVE  /\ IsFiniteSet(Held(r)) /\ Places(r) = 0 /\ r \notin accepted
  <2>1. Held(r) = {}
    BY LifecycleAssumption DEF Init, Held
  <2>2. IsFiniteSet(Held(r)) /\ InHands(r) = 0
    BY <2>1, FS_EmptySet DEF InHands
  <2>3. Summed(r)
    BY <1>1, <2>2, PlacesSum
  <2>4. InLogs(r) = 0 /\ InBatch(r) = 0 /\ InJobs(r) = 0
    BY OccurrencesType, EmptySeq DEF Init, InLogs, InBatch, InJobs
  <2>5. r \notin handlers /\ r \notin done /\ r \notin accepted
    BY DEF Init
  <2> QED
    BY <2>2, <2>3, <2>4, <2>5 DEF Summed
<1> QED
  BY <1>2, <1>3 DEF PlacesInv

----------------------------------------------------------------------------
(* Theorems.                                                               *)

\* LifecycleInv holds in every state of every behaviour.
THEOREM LifecycleInvariant == Spec => []LifecycleInv
<1>1. Init => LifecycleInv
  BY InitTyped, InitRest DEF LifecycleInv, Rest
<1> QED
  BY <1>1, Inductive, PTL DEF Spec

\* Type correctness of the lifecycle of server and client.
THEOREM LifecycleTypeCorrect == Spec => []TypeOK
<1>1. LifecycleInv => TypeOK
  BY DEF LifecycleInv
<1> QED
  BY <1>1, LifecycleInvariant, PTL

\* No thread meets a part that is not there, but in the two gaps of the
\* constructors: the destructors join every thread before what it uses goes.
THEOREM PartsAlwaysOutlive == Spec => []PartsOutliveTheirUsers
<1>1. LifecycleInv => PartsOutliveTheirUsers
  BY DEF LifecycleInv
<1> QED
  BY <1>1, LifecycleInvariant, PTL

\* StagesInv holds in every state of every behaviour.
THEOREM StagesInvariant == Spec => []StagesInv
<1>1. Init => StagesInv
  BY InitTyped, InitRest, InitStages DEF StagesInv, LifecycleInv, Rest
<1> QED
  BY <1>1, StagesInductive, PTL DEF Spec

\* A request that was accepted, a write or a client's reply, is in exactly one
\* place, so that it is neither lost nor doubled; and the destructors leave
\* nothing half done.  Of a pool without threads, which hardware_concurrency() may ask for,
\* nothing is said: the client's replies would stay in its list.
THEOREM AlwaysStoppedBetweenStages ==
    ASSUME Workers # {}
    PROVE  Spec => []StoppedBetweenStages
<1>1. ASSUME StagesInv PROVE StoppedBetweenStages
  <2>1. \A r \in Requests : Places(r) = IF r \in accepted THEN 1 ELSE 0
    BY <1>1 DEF StagesInv, PlacesInv
  <2>2. ASSUME main = "gone"
        PROVE  /\ handlers = {} /\ batch = <<>> /\ \A k \in Workers : holds[k] = NoRequest
               /\ ~Server => wope_logs = <<>> /\ jobs = <<>>
    <3>1. handlers = {}
      BY <1>1, <2>2 DEF StagesInv, LifecycleInv, HandlersInv, ServerJoined
    <3>2. up = {} /\ \A k \in Workers : holds[k] = NoRequest
      BY <1>1, <2>2 DEF StagesInv, LifecycleInv, HoldersInv, WorkersJoined
    <3>3. batch = <<>>
      BY <1>1, <2>2 DEF StagesInv, LifecycleInv, DispatcherInv, DrainedInv
    <3>4. pool # "unbuilt"
      BY <1>1, <2>2 DEF StagesInv, LifecycleInv, PartsInv
    <3> QED
      BY <1>1, <3>1, <3>2, <3>3, <3>4 DEF StagesInv, DrainedInv
  <2> QED
    BY <2>1, <2>2 DEF StoppedBetweenStages
<1> QED
  BY <1>1, StagesInvariant, PTL
=============================================================================
