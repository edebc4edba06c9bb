--------------------------- MODULE ServerLifecycle ---------------------------
(***************************************************************************)
(* From construction to destruction: an AsynServer with its GDFileStore,   *)
(* or an AsynClient with the server that takes its replies.                *)
(*                                                                         *)
(* Both run an httplib::Server in a thread srv_t, which listens again      *)
(* until srv_shut; both are shut down by setting srv_shut, srv.stop(), a   *)
(* join, and the shutdown of what the handlers feed.  The server's         *)
(* handlers append to wope_logs, which a dispatcher thread empties into    *)
(* write_tp; the client's enqueue in thread_pool.  The store is shut down  *)
(* by its own destructor, and the database after it.                       *)
(*                                                                         *)
(* httplib is external: listen() returns when it cannot bind, or when it   *)
(* was stopped and its handlers have returned; stop() does nothing to a    *)
(* server that is not accepting yet.                                       *)
(***************************************************************************)
EXTENDS Naturals, Sequences, FiniteSets

CONSTANTS
    Requests,   \* writes sent to the server, replies sent to the client
    Workers,    \* the threads of write_tp, or of the client's thread_pool
    NoRequest,  \* what an idle worker holds
    MaxRefused  \* bound on the times listen() or the database does not open

ASSUME LifecycleAssumption == NoRequest \notin Requests /\ MaxRefused \in Nat

VARIABLES
    kind,       \* "AsynServer" or "AsynClient"
    main,       \* the owner, in its constructor, at work, or in its destructor
    srv_t,      \* the server thread
    srv_shut,
    refused,    \* failures to bind or to open so far
    missed,     \* history: stop() found srv_t on its way into listen()
    served,     \* history: the server has accepted connections
    db,         \* RocksDB of the store: "closed" or "open"
    dispatcher, \* handle_ope_thread
    shut_handle_ope_thread,
    timer,      \* universal_tp's job, timercaller.run()
    pool,       \* write_tp or thread_pool: "unbuilt", "up", "shut", "destroyed"
    up,         \* the pool's threads that have not exited
    accepted,   \* requests the server has accepted so far
    handlers,   \* those whose handler has not done its work yet
    wope_logs, batch, jobs, \* the store's queue, the dispatcher's list, the pool's
    holds,      \* worker |-> the request it works on
    stage,      \* request |-> stages of do_wope that have run
    done,       \* requests that need nothing more
    undefined   \* a part was used that is not there

http   == <<srv_t, srv_shut, refused, missed, served>>
store  == <<db, dispatcher, shut_handle_ope_thread, timer>>
work   == <<pool, up, jobs, holds>>
flow   == <<accepted, handlers, wope_logs, batch, stage, done>>
vars   == <<kind, main, http, store, work, flow, undefined>>

Server == kind = "AsynServer"

\* The client starts srv_t before srv_shut and thread_pool, its next members.
Init ==
    /\ kind \in {"AsynServer", "AsynClient"}
    /\ main = IF Server THEN "mount" ELSE "start"
    /\ srv_t = "none" /\ srv_shut = FALSE /\ refused = 0
    /\ missed = FALSE /\ served = FALSE
    /\ db = "closed" /\ dispatcher = "none" /\ shut_handle_ope_thread = FALSE
    /\ timer = "none"
    /\ pool = IF Server THEN "up" ELSE "unbuilt"
    /\ up = IF Server THEN Workers ELSE {}
    /\ jobs = <<>> /\ holds = [k \in Workers |-> NoRequest]
    /\ accepted = {} /\ handlers = {} /\ wope_logs = <<>> /\ batch = <<>>
    /\ stage = [r \in Requests |-> 0] /\ done = {} /\ undefined = FALSE

At(place)    == main = place /\ ~undefined
GoTo(place)  == main' = place /\ UNCHANGED kind

----------------------------------------------------------------------------
(* Construction.                                                           *)

\* Mount: nothing is done to a database that is loaded.  Its failure is logged.
Mount ==
    \/ db' = "open" /\ UNCHANGED refused
    \/ db = "closed" /\ refused < MaxRefused /\ refused' = refused + 1 /\ UNCHANGED db

\* GDFileStore's constructor: Mount, the dispatcher, timercaller in
\* universal_tp, and Mount again.
FirstMount ==
    /\ At("mount") /\ Mount /\ GoTo("dispatch")
    /\ UNCHANGED <<srv_t, srv_shut, missed, served, dispatcher, shut_handle_ope_thread, timer,
                   work, flow, undefined>>
StartDispatcher ==
    /\ At("dispatch") /\ dispatcher' = "check" /\ timer' = "queued" /\ GoTo("remount")
    /\ UNCHANGED <<http, db, shut_handle_ope_thread, work, flow, undefined>>
SecondMount ==
    /\ At("remount") /\ Mount /\ GoTo("start")
    /\ UNCHANGED <<srv_t, srv_shut, missed, served, dispatcher, shut_handle_ope_thread, timer,
                   work, flow, undefined>>

\* srv_t runs from here on; the object is not finished.
StartServer ==
    /\ At("start") /\ srv_t' = "setup" /\ GoTo("construct")
    /\ UNCHANGED <<srv_shut, refused, missed, served, store, work, flow, undefined>>

\* The server mounts its store once more, and exits if that fails.  The client
\* comes to srv_shut and thread_pool.
Construct ==
    /\ At("construct")
    /\ IF Server
       THEN /\ Mount /\ GoTo(IF db' = "open" THEN "running" ELSE "exit")
            /\ UNCHANGED <<pool, up>>
       ELSE /\ pool' = "up" /\ up' = Workers /\ GoTo("running")
            /\ UNCHANGED <<db, refused>>
    /\ UNCHANGED <<srv_t, srv_shut, missed, served, dispatcher, shut_handle_ope_thread, timer,
                   jobs, holds, flow, undefined>>

----------------------------------------------------------------------------
(* srvMain in srv_t, and the handlers it runs.                             *)

Running == main # "exit" /\ ~undefined

Setup ==
    /\ Running /\ srv_t = "setup" /\ srv_t' = "check"
    /\ UNCHANGED <<kind, main, srv_shut, refused, missed, served, store, work, flow, undefined>>

\* while (!srv_shut): before the client has constructed it, it is anything.
Check ==
    /\ Running /\ srv_t = "check"
    /\ \/ ~srv_shut /\ srv_t' = "listen"
       \/ (srv_shut \/ (~Server /\ main = "construct")) /\ srv_t' = "exited"
    /\ UNCHANGED <<kind, main, srv_shut, refused, missed, served, store, work, flow, undefined>>

Listen ==
    /\ Running /\ srv_t = "listen" /\ srv_t' = "serving" /\ served' = TRUE
    /\ UNCHANGED <<kind, main, srv_shut, refused, missed, store, work, flow, undefined>>

\* Mutant: listen() gives up for good.
PortTaken_GivesUp ==
    /\ Running /\ srv_t = "listen" /\ refused < MaxRefused
    /\ refused' = refused + 1 /\ srv_t' = "exited"
    /\ UNCHANGED <<kind, main, srv_shut, missed, served, store, work, flow, undefined>>

PortTaken ==
    /\ Running /\ srv_t = "listen" /\ refused < MaxRefused
    /\ refused' = refused + 1 /\ srv_t' = "check"
    /\ UNCHANGED <<kind, main, srv_shut, missed, served, store, work, flow, undefined>>

Closed ==
    /\ Running /\ srv_t = "closing" /\ handlers = {} /\ srv_t' = "check"
    /\ UNCHANGED <<kind, main, srv_shut, refused, missed, served, store, work, flow, undefined>>

\* A request that has not been sent before.
Request(r) ==
    /\ Running /\ srv_t = "serving" /\ r \notin accepted
    /\ accepted' = accepted \cup {r} /\ handlers' = handlers \cup {r}
    /\ UNCHANGED <<kind, main, http, store, work, wope_logs, batch, stage, done, undefined>>

\* add_wope in the server, thread_pool.enqueue in the client.
Use(q)  == IF q \in {"unbuilt", "destroyed"} THEN undefined' = TRUE ELSE UNCHANGED undefined
Handle(r) ==
    /\ Running /\ r \in handlers /\ handlers' = handlers \ {r}
    /\ IF Server THEN /\ wope_logs' = Append(wope_logs, r)
                      /\ UNCHANGED <<jobs, undefined>>
                 ELSE /\ jobs' = Append(jobs, r) /\ Use(pool)
                      /\ UNCHANGED wope_logs
    /\ UNCHANGED <<kind, main, http, store, pool, up, holds, accepted, batch, stage, done>>

----------------------------------------------------------------------------
(* The dispatcher, the pool, and the job of universal_tp.                  *)

Look ==
    /\ Running /\ dispatcher = "check"
    /\ dispatcher' = IF shut_handle_ope_thread THEN "exited" ELSE "swap"
    /\ UNCHANGED <<kind, main, http, db, shut_handle_ope_thread, timer, work, flow, undefined>>

Swap ==
    /\ Running /\ dispatcher = "swap" /\ dispatcher' = "enqueue"
    /\ batch' = wope_logs /\ wope_logs' = <<>>
    /\ UNCHANGED <<kind, main, http, db, shut_handle_ope_thread, timer, work,
                   accepted, handlers, stage, done, undefined>>

Enqueue ==
    /\ Running /\ dispatcher = "enqueue"
    /\ IF batch = <<>>
       THEN dispatcher' = "check" /\ UNCHANGED <<jobs, batch, undefined>>
       ELSE /\ jobs' = Append(jobs, Head(batch)) /\ batch' = Tail(batch) /\ Use(pool)
            /\ UNCHANGED dispatcher
    /\ UNCHANGED <<kind, main, http, db, shut_handle_ope_thread, timer, pool, up, holds,
                   accepted, handlers, wope_logs, stage, done>>

Take(k) ==
    /\ Running /\ k \in up /\ holds[k] = NoRequest /\ jobs # <<>>
    /\ holds' = [holds EXCEPT ![k] = Head(jobs)] /\ jobs' = Tail(jobs)
    /\ UNCHANGED <<kind, main, http, store, pool, up, flow, undefined>>

\* Mutant: do_wope queues the log again after its last stage, too.
Do_FourStages(k) ==
    /\ Running /\ holds[k] # NoRequest
    /\ LET r == holds[k] last == ~Server \/ stage[r] = 3
       IN  /\ stage' = IF last THEN stage ELSE [stage EXCEPT ![r] = @ + 1]
           /\ wope_logs' = IF last THEN wope_logs ELSE Append(wope_logs, r)
           /\ done' = IF last THEN done \cup {r} ELSE done
    /\ holds' = [holds EXCEPT ![k] = NoRequest]
    /\ undefined' = (Server /\ db = "closed")
    /\ UNCHANGED <<kind, main, http, store, pool, up, jobs, accepted, handlers,
                   batch>>

\* do_wope runs one of three stages and, but for the last, queues the log again.
\* A reply is handled by one job.
Do(k) ==
    /\ Running /\ holds[k] # NoRequest
    /\ LET r == holds[k] last == ~Server \/ stage[r] = 2
       IN  /\ stage' = IF last THEN stage ELSE [stage EXCEPT ![r] = @ + 1]
           /\ wope_logs' = IF last THEN wope_logs ELSE Append(wope_logs, r)
           /\ done' = IF last THEN done \cup {r} ELSE done
    /\ holds' = [holds EXCEPT ![k] = NoRequest]
    /\ undefined' = (Server /\ db = "closed")
    /\ UNCHANGED <<kind, main, http, store, pool, up, jobs, accepted, handlers,
                   batch>>

\* Mutant: the workers leave as soon as the pool is shut.
Exit_Early(k) ==
    /\ Running /\ k \in up /\ pool = "shut" /\ up' = up \ {k}
    /\ UNCHANGED <<kind, main, http, store, pool, jobs, holds, flow, undefined>>

Exit(k) ==
    /\ Running /\ k \in up /\ holds[k] = NoRequest /\ pool = "shut" /\ jobs = <<>>
    /\ up' = up \ {k}
    /\ UNCHANGED <<kind, main, http, store, pool, jobs, holds, flow, undefined>>

\* run() of a caller that nobody made active returns at once.
RunTimers ==
    /\ Running /\ timer = "queued" /\ timer' = "returned"
    /\ UNCHANGED <<kind, main, http, db, dispatcher, shut_handle_ope_thread, work, flow, undefined>>

----------------------------------------------------------------------------
(* Destruction.                                                            *)

\* Mutant: srv_shut is not set.
Shutdown_NoFlag ==
    /\ At("running") /\ GoTo("stop")
    /\ UNCHANGED <<http, store, work, flow, undefined>>

Shutdown ==
    /\ At("running") /\ srv_shut' = TRUE /\ GoTo("stop")
    /\ UNCHANGED <<srv_t, refused, missed, served, store, work, flow, undefined>>

Stop ==
    /\ At("stop") /\ GoTo("join")
    /\ srv_t' = IF srv_t = "serving" THEN "closing" ELSE srv_t
    /\ missed' = (srv_t = "listen")
    /\ UNCHANGED <<srv_shut, refused, served, store, work, flow, undefined>>

\* After the join the client shuts thread_pool down; the server, whose own
\* thread_pool has no jobs, destroys the store: the timers, universal_tp,
\* write_tp, and last the dispatcher.
Join ==
    /\ At("join") /\ srv_t = "exited" /\ GoTo(IF Server THEN "timers" ELSE "pool")
    /\ UNCHANGED <<http, store, work, flow, undefined>>

ShutTimers ==
    /\ At("timers") /\ timer = "returned" /\ GoTo("pool")
    /\ UNCHANGED <<http, store, work, flow, undefined>>

ShutPool ==
    /\ At("pool") /\ pool' = "shut" /\ GoTo("workers")
    /\ UNCHANGED <<http, store, up, jobs, holds, flow, undefined>>

JoinWorkers ==
    /\ At("workers") /\ up = {} /\ GoTo(IF Server THEN "dispatcher" ELSE "destroy")
    /\ UNCHANGED <<http, store, work, flow, undefined>>

ShutDispatcher ==
    /\ At("dispatcher") /\ shut_handle_ope_thread' = TRUE /\ GoTo("joinDispatcher")
    /\ UNCHANGED <<http, db, dispatcher, timer, work, flow, undefined>>

\* Mutant: the dispatcher is told to leave and not waited for.
JoinDispatcher_Detached ==
    /\ At("joinDispatcher") /\ GoTo("destroy")
    /\ UNCHANGED <<http, store, work, flow, undefined>>

JoinDispatcher ==
    /\ At("joinDispatcher") /\ dispatcher = "exited" /\ GoTo("destroy")
    /\ UNCHANGED <<http, store, work, flow, undefined>>

\* The members, the pool before the database.
Destroy ==
    /\ At("destroy") /\ pool' = "destroyed" /\ db' = "closed" /\ GoTo("gone")
    /\ UNCHANGED <<http, dispatcher, shut_handle_ope_thread, timer, up, jobs, holds,
                   flow, undefined>>

----------------------------------------------------------------------------
Owner ==
    \/ FirstMount \/ StartDispatcher \/ SecondMount \/ StartServer \/ Construct
    \/ Stop \/ Join \/ ShutTimers \/ ShutPool \/ JoinWorkers
    \/ ShutDispatcher \/ JoinDispatcher \/ Destroy
SrvMain   == Setup \/ Check \/ Listen \/ PortTaken \/ Closed
HandleOpe == Look \/ Swap \/ Enqueue
Work(k)   == Take(k) \/ Do(k) \/ Exit(k)

Next ==
    \/ Owner \/ Shutdown \/ SrvMain \/ HandleOpe \/ RunTimers
    \/ \E r \in Requests : Request(r) \/ Handle(r)
    \/ \E k \in Workers : Work(k)

Spec == Init /\ [][Next]_vars

\* Threads keep running; nobody has to send a request or to shut down.
FairSpec ==
    /\ Spec
    /\ WF_vars(Owner) /\ WF_vars(SrvMain) /\ WF_vars(HandleOpe) /\ WF_vars(RunTimers)
    /\ \A r \in Requests : WF_vars(Handle(r))
    /\ \A k \in Workers : WF_vars(Work(k))

----------------------------------------------------------------------------
TypeOK ==
    /\ kind \in {"AsynServer", "AsynClient"}
    /\ main \in {"mount", "dispatch", "remount", "start", "construct", "exit", "running",
                 "stop", "join", "timers", "pool", "workers", "dispatcher", "joinDispatcher",
                 "destroy", "gone"}
    /\ srv_t \in {"none", "setup", "check", "listen", "serving", "closing", "exited"}
    /\ {srv_shut, missed, served, shut_handle_ope_thread, undefined} \subseteq BOOLEAN
    /\ refused \in 0 .. MaxRefused
    /\ db \in {"closed", "open"} /\ dispatcher \in {"none", "check", "swap", "enqueue", "exited"}
    /\ timer \in {"none", "queued", "returned"}
    /\ pool \in {"unbuilt", "up", "shut", "destroyed"} /\ up \subseteq Workers
    /\ wope_logs \in Seq(Requests) /\ batch \in Seq(Requests) /\ jobs \in Seq(Requests)
    /\ holds \in [Workers -> Requests \cup {NoRequest}]
    /\ stage \in [Requests -> 0 .. 2] /\ accepted \subseteq Requests
    /\ handlers \subseteq Requests /\ done \subseteq Requests

\* No thread meets a part that is not there, but for two gaps in the
\* constructors: the client's server thread runs before the pool its handlers
\* feed is constructed (ConnectionClient.h:106), and the server accepts requests
\* before it has found out that its database does not open
\* (ConnectionServer.h:119).  So the destructors join every thread before what
\* it uses goes.
PartsOutliveTheirUsers ==
    undefined => /\ main = "construct"
                 /\ IF Server THEN db = "closed" ELSE pool = "unbuilt"

\* A request that was accepted, a write or a client's reply, is at every moment
\* in exactly one place: it is never lost or doubled on its way.  When the
\* store or the client is gone its threads have left nothing half done: a reply
\* was handled; a write is complete, or waits between two stages in wope_logs or
\* in the jobs that came after the pool's workers had left.
Places(r) ==
    Cardinality({i \in DOMAIN wope_logs : wope_logs[i] = r})
    + Cardinality({i \in DOMAIN batch : batch[i] = r})
    + Cardinality({i \in DOMAIN jobs : jobs[i] = r})
    + Cardinality({k \in Workers : holds[k] = r})
    + Cardinality({r} \cap handlers) + Cardinality({r} \cap done)
StoppedBetweenStages ==
    /\ \A r \in Requests : Places(r) = IF r \in accepted THEN 1 ELSE 0
    /\ main = "gone" =>
         /\ handlers = {} /\ batch = <<>> /\ \A k \in Workers : holds[k] = NoRequest
         /\ ~Server => wope_logs = <<>> /\ jobs = <<>>

\* The destructor returns, unless srv.stop() came between the server thread's
\* look at srv_shut and its accepting connections (ConnectionServer.h:132).
ShutdownReturns == (main = "stop") ~> (main = "gone" \/ missed)

\* Once the port and the database are free, a started server serves: srvMain
\* tries again until it does.  The client's may read an srv_shut that is not
\* constructed yet, and leave.
StartedServes ==
    (main = "running") ~> (served \/ main # "running" \/ (~Server /\ srv_t = "exited"))

=============================================================================
