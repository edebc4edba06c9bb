# GDFileStore in TLA+

TLA+ models of GDFileStore: a file store whose clients send writes and reads
over HTTP, whose server journals them in RocksDB and in block files, and which
answers by posting replies to a small server inside the client. The models are
checked with TLC on small instances; the theorems about them are checked with
TLAPS for every value of the constants.

Paths are relative to the repository (`src/` holds the code, `test/` the tests).
`PROJECT.json` lists the components, the runs, the source lines every definition
translates, the mutants each property is known to reject, the places where the
code and its documents disagree, the hazards, and the theorems.

## 1. The system

### Parts

| part | code | state | operations |
|---|---|---|---|
| asynchronous write and read path | `src/GDFileStore.cpp`, `src/GDFileJournal.cpp` (`do_WOPE`), `src/deps/referedBlock.h` | `wope_logs`, `rope_logs`; RocksDB records `ObjectWithRB` (version -> serials) and `ReferedBlock` (serial -> refer_count); block files under the journal root and the disk root | `add_wope`, `add_rope`, `handle_ope_threadMain`, `do_wope`, `do_rope`, `Mount` |
| attribute store | `src/GDKeyValue.h` (`SetAttr`, `GetAttr`) | RocksDB, the cache of type headers | put and get of one record |
| object and header maps | `src/GDKeyValue.cpp`, `src/GDMutex.h` | `objCacheHeader`, `reverse_objCacheHeader`; RocksDB records description -> header, header -> description, and `header_count` | `GetHeader`, `GetObj`, `EraseHeader`, `EraseObj`, `GetNewHeader` |
| synchronous journal | `src/GDFileJournal.cpp` | `wOpes`, two mutexes | `HandleWriteOperation`, `_flushProcessor`, `flushJouranl` |
| operation combining | `src/deps/object.cpp` | none (pure) | `CombineOperationsForOneSameObject` |
| thread pool | `src/deps/thread_pool.h` | job list, `shutdown_`, `busyCount`, threads | `enqueue`, `shutdown`, `active`, `workerRunning` |
| timers | `src/deps/timer.h`, `timer.cpp` | sorted list of timers with a sentinel | `AddTimer`, `Tick`, `SetTerminationAtEnd`, `RestJobs`, `shutdown` |
| asynchronous client | `src/deps/ConnectionClient.*` | `wope_states`, `rope_states`, each with mutex and condition variable; its own server thread and pool | `asynWrite`, `asynRead`, `waitWopeBe`, `waitWopeBe_for`, `waitRope`, `waitRope_for`, reply handlers |
| asynchronous server, and the lifecycle of store, server and client | `src/deps/ConnectionServer.*`, `src/GDFileStore.cpp` | `srv`, `srv_t`, `srv_shut`; the store's database, dispatcher and pools | constructors, `srvMain`, `shutdown`, destructors |
| synchronous server and client, serialisation, file cache, configuration, logging, replicas, empty files | `src/deps/...` | see `PROJECT.json` | |

### How they interact

A client picks a new version name and posts `/reqWrite` (base version, new
version, edits). The handler appends a log to `wope_logs` and returns. The
dispatcher thread swaps the list out, and gives each log to the write pool. A
worker runs `do_wope` for the log's state and appends it again with the next
state, so a write makes three trips:

    init       do_WOPE: edit a copy of the base's list, new block files under the
               journal root, records, refer_counts, bind the new version;
               POST /repWrite onJournal; queue again
    onJournal  copy the version's new blocks (refer_count 1) to the disk root;
               queue again
    onDisk     POST /repWrite onDisk

Versions share the blocks their edits do not touch: hence the counts. A read
makes one trip through `rope_logs` and the read pool, reads the block files
under the disk root, and is answered by POST `/repRead`. In the client, the
handler of a reply gives it to a pool; the job stores the new state of the
operation and notifies the threads that wait for it.

RocksDB and the files outlive the process. The queues do not, and nothing is
read back into them by `Mount`.

### What is hard, and what would make it correct

- **Overlapping writes.** Several workers run `do_wope` at once, on versions
  that share blocks; nothing is locked between the steps of one operation.
  Correct: a version appears whole and never changes; an acknowledged version
  is complete where the acknowledgement says; blocks are never rewritten.
- **Crashes.** Between files, records, counts and binding. Correct: what was
  acknowledged `onJournal` survives; a bound version lists only stored blocks.
- **Lost replies, failing writes and copies.** All are ignored by the code: a
  block whose file could not be written is recorded, bound and acknowledged.
  Correct: no stored state depends on a reply, and nothing is missing but for a
  write that failed.
- **Serials** come from the clock, and the code does not see to it that no two
  blocks share one. Correct, where they differ: a refer_count of 1 means one
  version, which is what the copy to disk relies on.
- **Pool.** Wakeups, shutdown while jobs arrive, activation after it, a counter
  outside the lock. Correct: no job is lost or repeated, none waits for ever,
  `shutdown` returns and leaves nothing behind, "idle" means done.
- **Client.** Replies handled by several threads overtake one another; waiting
  calls race with notifications and with time limits. Correct: a state is one
  the server reported; a wait for a milestone returns that milestone; a call
  with a limit returns; no notification is lost.
- **Timers.** Tasks that add timers while the list is walked, timers that move
  between list, pool and workers, a shutdown while a worker waits for the list's
  mutex. Correct: no run is lost, doubled or early; `RestJobs() = 0` means done;
  `shutdown` returns.
- **Synchronous journal.** One queue under two mutexes; a handler's operation
  flushed by another handler; a crash between two files; a write that fails,
  whose result is dropped, or that throws with the operations of others in hand;
  list surgery with positions that shift. Correct: what is answered is in its file,
  or was lost to a write that failed; a file is what its operations mean, in their order.
- **Header maps.** Two caches and two kinds of records that mirror one another,
  keyed by two notions of an object's identity; a counter that several threads
  take numbers from; a restart that forgets the caches only. Correct: numbers
  are unique; the caches are inverse and agree with the database; a record that
  cannot be read back is never read back while the process lives.
- **Lifecycle.** Threads start before the object they belong to is finished;
  `stop()` may find a server that does not listen yet; the pools are shut down
  before the dispatcher that feeds them. Correct: no thread meets a part that is
  not there; nothing is left half done; the destructor returns; a started
  server serves.

## 2. The modules

| module | models | extends |
|---|---|---|
| `BlockHistory` | the writes: base, target, edits, and what edits mean | |
| `VersionStore` | abstract specification: what the write path promises | `BlockHistory` |
| `WopePipeline` | the asynchronous write and read path, with its refinement of `VersionStore` | `BlockHistory` |
| `MCWopePipeline` | three small histories for TLC, whose writes and reads address blocks that are there | `WopePipeline` |
| `ListLemmas` | lemmas on lists: counting, removing, inserting, cutting and joining; induction | |
| `WopePipelineProofs` | theorems about what `WopePipeline` stores (types, blocks and records, versions, refer_counts), what it promises its clients, and its refinement of `VersionStore` | `WopePipeline`, `ListLemmas` |
| `ThreadPool`, `MCThreadPool`, `ThreadPoolProofs` | `GD::ThreadPool` | |
| `AsynClient`, `MCAsynClient`, `AsynClientProofs` | requests, replies and waiting calls of `AsynClient` | |
| `Timers`, `MCTimers`, `TimersProofs` | `TimerCaller` and `ConcTimerCaller` | (proofs) `ListLemmas` |
| `SliceCombine` | `Operation::CombineOperationsForOneSameObject`, and what operations mean | |
| `SyncJournal`, `MCSyncJournal`, `SyncJournalProofs` | `Journal::HandleWriteOperation` as `POST /write` calls it | `SliceCombine`, (proofs) `ListLemmas` |
| `HeaderMap`, `MCHeaderMap`, `HeaderMapProofs` | the projection of objects to headers in `RocksKV` | |
| `ServerLifecycle`, `MCServerLifecycle`, `ServerLifecycleProofs` | construction, serving and destruction of `AsynServer` with its `GDFileStore`, and of `AsynClient` | (proofs) `ListLemmas` |

### WopePipeline

State. `gh_attr` and `rb_attr` are the two kinds of RocksDB records; `journal_rb`
and `disk_rb` the block files; `clock` the source of serials. `wope_logs` is the
queue, `jobs` the write pool's list. Each worker has a program counter `pc`, its
operation `cur`, and the locals of `do_WOPE`/`do_wope`: its block list `orb`, its
loop index `idx`, and the value between a `GetAttr` and a `SetAttr`, `held`.
`told` is what each client was told. `drawn` is a history: which blocks a serial
was given to, and whether the file of one of them could not be written.

A step is one access to shared state: one RocksDB get or put, one file, one
queue operation, one POST. Two workers interleave between any two of them. A
block's data is the pair of the write and the edit that created it.

| action | code |
|---|---|
| `Submit`, `Dispatch`, `Take` | `/reqWrite`, `handle_ope_threadMain`, the pool's fetch |
| `ReadBase`, `DeleteBlock`, `NewBlock`, `PutBlockAttr`, `EditPastEnd`, `EndEdits`, `ReadCount`, `WriteCount`, `Bind` | `Journal::do_WOPE` and `addNewReferedBlock` |
| `TellJournal`, `RequeueOnJournal` | end of stage init |
| `ReadTarget`, `CopyBlock`, `CopyFails`, `RequeueOnDisk` | stage onJournal |
| `TellDisk` | stage onDisk |
| `Ask`, `ReadSerials`, `ReadBlock`, `ReadPastEnd`, `Answer` | `/reqRead`, `do_rope`, `ReadReferedBlock` |
| `CrashRestart` | the process dies and is mounted again |

`NewBlock` draws a serial from the clock and calls `WriteBlock`, the `WriteFile` of the
block: it may return false, which the code drops, and leaves the file as it was or
torn (`Torn`). The block is recorded and bound all the same.

`EditPastEnd` and `ReadPastEnd` set `undefined`: an iterator or index has passed
the end of its container, and nothing is said of the run after it.

Assumptions are constants: `Wait` is what a client waits to be told of a version
before it uses it ("onDisk", as `test/asyn_http_.cpp` does, "onJournal", or
"none"); `TickPerBlock` whether the clock advances between two blocks, or may stand still and be
set back; `WriteMayFail`, `CopyMayFail` and `LossyReplies` the faults; `MaxCrashes`
bounds the crashes. In the histories each write has a target of its own.

### ThreadPool

A step is a critical section of `mutex_`, or an effect outside of it:
the return of a job (`Return`), `busyCount--` (`Release`), `notify_all`, the
joins. `at[t]` is `waiting` inside `cond_.wait`, `ready` before the predicate is
evaluated; a notification, or a spurious wakeup, moves it to `ready`. Any thread
may `Enqueue` at any time. One owner calls `shutdown()` and `active(n)`, as the
constructors and destructors do; `roster` is what `active` will start.

### AsynClient

A step is a critical section of `access_to_wopestates` or
`access_to_ropestates`. `state` is both maps; `at` is `blocked` inside the wait
and `woken` after a notification or a spurious wakeup, before the lock is taken
again. A waiting call is a pair of a predicate (or "any") and whether it has a
limit. The server is external: it posts onJournal and then onDisk to a write,
one answer to a read; `jobs` and `reply` are the client's thread pool.

### Timers

`timers` is the list without the sentinel, which is always last. `pooled` chooses
between the two classes at the start. The mutex is recursive: a task that
`Tick()` of a `TimerCaller` is calling may `Add`, and the iterator, `cursor`,
stays at its timer. `Enqueue` and `Call` are the bodies of the two `Tick()`s;
`Fetch`, `RunTask`, `After`, `Release`, `Exit` are a pool's worker, abstracted to
what `ThreadPool` shows of it; `After` is the `afterTask` that adds the next run.
One owner polls `RestJobs()` and shuts down, as `test/tmp2.cpp` does, or, with a
`TimerCaller`, calls `SetTerminationAtEnd()`.

### SyncJournal and SliceCombine

Each request has a handler thread of the HTTP server, which adds its operation
under one mutex and flushes all operations under another. A step is an addition,
the taking up of one operation by the flush's loop (the first one on an object
reads its file), the clearing of `wOpes`, or the writing of one file. `Refuse` is the
request that `HandleWriteOperation` turns down. With `WriteMayFail`, `WriteFails` is a
`WriteFile` that returns false, which the flush does not look at: the file is as it was
or torn, and "success" is answered. `WriteThrows` is an exception: it leaves the
flush after `wOpes` was cleared, its handler answers no "success", and the operations
of the others are lost. A crash may tear the file that is being written. The
histories: `added` in order, `applied` per object since its file was last torn,
`origin` its text then, `dropped` what failed writes have lost. `Racing`
says whether an operation may be added while a flush is in its loop: then either
the vector moves and the behaviour is undefined, or the loop ends where it would
have, and the operation is cleared.

`SliceCombine` translates the loop body as `FoldOperation`: `Locate` is where the
loops over the list stop, `Splice` what they replace, `Indexed` the indices they
use; an index past the end, or a position before the start (an offset from the end may
be negative), sets `past`. `Admissible` is the contract of `object.h:207-208`. `Edit` cuts and joins the whole text and
is the reference. A slice is the text it stands for.

### HeaderMap

An object has two identities: its description (`GetObjUniqueStrDesc` joins owner,
pool, name, time, generation and shard without separators), which keys its record,
and its slot (`operator<` compares name and generation), which keys the caches.
`Uni` and `Slot` are constants, and two objects may share either. A record that is
0 is missing. A step is one RocksDB get or put with what the thread does to its own maps
until the next one; `GetNewHeader` is two steps under `header_lock`, which any
thread may take. `CrashRestart` forgets the caches. `GetHeader` writes a header as
text and decodes it as four bytes: `Misread` is the number that results, and
what a restarted process caches. `GetObj` decodes the description as an object,
which it is not, and `EraseHeader` and `EraseObj` read an iterator before they
compare it with `end()`: both set `undefined`.

### ServerLifecycle

`main` is where the owner is in its constructor, its work or its destructor; `kind`
chooses server or client, whose code differs in what the handlers feed. `srv_t`
is `srvMain`: `check` before `while (!srv_shut)`, `listen` on the way into
`srv.listen()`, `serving`, and `closing` when it was stopped with handlers left.
The dispatcher, the pool and the workers are those of the store or of the
client; requests pass through them as in `WopePipeline` and `ThreadPool`, whose
detail is left out; `accepted` are those a handler has taken. A
mount or a bind may fail `MaxRefused` times. `undefined` is set when a handler, the dispatcher or a worker uses a pool or a database that
is not there.

## 3. The runs

| run | configuration | shows |
|---|---|---|
| `pipeline_disk` | a fork (v0 -> v1 -> {v2, v3}, v2 -> v4), inserts, deletes and overwrites; 2 write threads; 2 reads; clients wait for onDisk | `AckedOnDiskIsReadable`, `ReadsReturnWritten`, `NothingUndefined`, `SharedBlocksCounted`; `ImplementsVersionStore`; `EveryRequestAnswered` |
| `pipeline_faults` | a pair of overlapping writes whose clients never wait; block files that are not written or torn, a clock that stands still or is set back, failing copies, lost replies, 1 crash | `BoundBlocksStored`, `JournalAckSurvives` |
| `pipeline_eager` (violation) | a chain of 3 writes; clients go on after onJournal | `AckedOnDiskIsReadable` fails: finding 1 |
| `thread_pool` | 3 jobs, 3 threads, rosters of 3 and of 1, up to 3 calls of shutdown or active | `JobsConserved`, `ShutdownDrains`, `IdleMeansDone`, `EveryJobRuns`, `ShutdownReturns` |
| `client` | a write, a read, 2 handler threads, 2 waiting calls for each, limits that pass at any time, replies that are lost | `StatesWereReported`, `NoLostNotification`, `TimedCallsReturn` |
| `client_order` (violation) | a write whose caller's limit outlasts both replies | `DiskWaitReturnsOnDisk` fails: finding 2 |
| `timers` | 3 timers, one that repeats, one of the same time, an earlier one; a `TimerCaller`, or a `ConcTimerCaller` with 2 workers; clock up to 2 | `TimersConserved`, `PolledIsDone`, `CalledInOrder` (never early, the same time in order, the end last), `EveryTimerRuns`, `ShutdownReturns` |
| `journal` | 3 concurrent requests, each refused or one of 10 operations on 2 objects; writes that fail, tear a file or throw; 1 crash; no addition races with a flush | `FilesAreEdited`, `AppliedInOrder`, `AnsweredIsFlushed`, `OnlyEndsLeaveTheList` |
| `journal_race` (violation) | 2 requests, `Racing` | `AnsweredIsFlushed` fails: finding 3 |
| `journal_delete` (violation) | 2 requests, no faults | `ContractIsEnough` fails: finding 4 |
| `headers` | 4 objects, two with one slot and two with one description; a second thread that takes numbers; 4 headers from a new store and from one at 99; 1 restart | `FreshHeadersUnique`, `CachesAgree`, `LifeRecordsCached` |
| `lifecycle` | a server, or a client; 2 requests, 2 workers, 2 failures to bind or to open; shut down at any time | `PartsOutliveTheirUsers`, `StoppedBetweenStages`, `ShutdownReturns`, `StartedServes` |

Every module's `TypeOK` is checked by one run. A mutant of the code (the
operators `X_...` next to an action `X`) breaks each property, which shows that
the run reaches the case the property is about.

**Why the bounds suffice.** The interesting cases of the pipeline need two
workers on versions that share a block, an operation that overtakes another
between two of its three trips, and a version derived from a derived one. Two
workers, a fork whose branches run at once, and a chain of three provide them
(`pipeline_disk` and `pipeline_eager`). A stored block is lost to a step between a worker's
file, record, counts and binding, or to a second block of its serial; the pair has two workers
with three new blocks, any two of which may share a serial, and any of whose files may fail.
The fork's edits insert at the front and the end, overwrite, and delete before
they insert, so that positions shift. One crash covers every point between two
steps, and a restart forgets everything but the stored state, so a second crash
starts from a state of the same kind. In the pool, three jobs and three threads
give a worker that waits, one that runs and one that is about to fetch; three
calls give shutdown, activation and shutdown again. In the client, two handlers
are enough for one reply to overtake the other, and two calls for a caller that
waits again after it has returned. The timers' clock lets the repeating timer run
twice and one timer become due before another that was added first. In the journal, three
operations are what it takes to cut a text, to cut it again and to delete across
the cuts; ten operations are an insertion before every character, an append, deletions
from the first and the second character to the last and to the end, and, on the empty
object, an insertion at the end and one before its start. Requests are interchangeable
(`SYMMETRY`), as are the workers of `pipeline_faults`; both runs check safety only. In the header maps,
four objects are one for each way to share an identity with another or with
none; numbers of two and of three digits are read back in different ways; four
headers are enough to give one to each object or to give an object a second one
after an erasure. In the lifecycle, two requests let one wait in a queue while
the other is worked on, and a write's three trips let the shutdown fall before,
between and after its stages; two failures let a server be refused twice, or
once each by database and port.

**Fairness.** Weak fairness of the dispatcher (it loops for ever), of every pool
thread (it keeps being scheduled, and the jobs of this code return), and of the
owner of a pool once it has begun a call. Clients are not obliged to send, to
wait, to shut down. A deadline in the client is absolute: a caller that was
woken and blocks again after it has passed returns at once, which is strong
fairness of `TimeOut`. A server in the client's model need not answer.
`pipeline_disk` assumes replies arrive; a lost one is never sent again, and its
client is never told. In `timers`, the thread in `run()` and the workers are
strongly fair: they ask for the mutex again and again, and get it in the end. The
journal's and the header maps' properties are safety. In `lifecycle` the owner, once
its constructor or destructor has begun, the server thread, the dispatcher, the
handlers and the workers are weakly fair; nobody has to send or to shut down.

**Deadlock** is not an error in any run: a system whose clients have asked for
everything in the bounded history may stop.

## 4. What the checks found

1. `GDFileStore.cpp:220` copies a block only while its refer_count is 1. A
   second write, derived from the version after onJournal and before the copy,
   raises the count to 2. No write ever copies the block, and onDisk is
   acknowledged for both (`pipeline_eager`).
2. `ConnectionClient.cpp:167` stores the milestones in the order in which pool
   threads get there: onJournal may overwrite onDisk (`client_order`).
3. `GDFileJournal.cpp:95` adds under another mutex than the flush takes: an
   operation added while a flush is in its loop is cleared unwritten and answered
   "success" (`journal_race`).
4. `object.cpp:91` indexes past the list when a Delete that spans slices ends where
   the object ends (`journal_delete`: of "abc", delete "b" and then "ac"). `OnlyEndsLeaveTheList`
   says that no other operation within its contract does.

The first depends on how a client uses the store: the test client, which waits
for onDisk before it goes on, does not meet it (`pipeline_disk`).

What the models have besides:

- `referedBlock.h:10-11` calls a serial "unique in range of whole storage system";
  `:17` takes it from the clock's tick count. Two blocks drawn within a tick, or after the
  clock was set back, share a serial, a file and a record, and the later data replaces the
  earlier. `TickPerBlock = FALSE` allows it: `BoundBlocksStored` and `JournalAckSurvives`
  say what holds all the same, and claim a block's data only where its serial was
  given once. No run is made for the disagreement alone.
- `GDFileStore.cpp:276` goes on after `WriteReferedBlock`, which drops the false of
  `WriteFile` (`referedBlock.h:58-61`): a version may be bound and acknowledged onJournal, and
  onDisk too, with a block that is in no file, or torn. The same two properties except such
  blocks by name.
- `GDFileJournal.cpp:82` does not look at the result of `Write`: "success" may be answered for an
  operation that is in no file. An exception of `WriteFile` leaves the flush after
  `wOpes.clear()` (`:77`); `ConnectionServer.cpp:92-97` catches it and answers its own
  request, but the other handlers' operations are gone, and they answer "success".
  `AnsweredIsFlushed` permits these losses and no other.
- `ConnectionClient.cpp:140`: `waitRope` waits without looking at the state. In
  `AsynClient` a read's call without a limit is woken by a notification only,
  so an answer that was handled before the call is waited for in vain.
- `ConnectionClient.h:106` starts the server thread before `srv_shut` and
  `thread_pool` are constructed: the thread may leave at once, or a handler may
  enqueue into a pool that is not there. `PartsOutliveTheirUsers` and
  `StartedServes` name these cases.
- `ConnectionServer.h:119` starts it before the constructor's last `Mount`: a
  write may reach a worker of a store whose database did not open.
- `ConnectionServer.h:132`: `stop()` does nothing to a server that is between its look
  at `srv_shut` and its accepting connections, and the join then waits for ever.
  `ShutdownReturns` excepts it (`missed`).
- `GDFileStore.cpp:45`: `write_tp` is shut down before the dispatcher. A write
  may stay in the pool's list between two stages for good; none is cut within
  a stage (`StoppedBetweenStages`).
- `GDKeyValue.cpp:56`: a header read back after a restart is not the one that
  was stored. `LifeRecordsCached` says when this is hidden.

## 5. What is proved

All constants are arbitrary within the modules' named assumptions. Each theorem
follows from an inductive invariant, which the paragraphs below name; each of
these was checked by TLC on the run of its property before it was proved.

`ListLemmas` holds what the proofs need of lists: what `InsertAtIndices`,
`RemoveAtIndices` and `ReplaceAtIndices` do to lengths, elements and the images
of a map, how often an element occurs after an append or a removal at the head,
how texts are cut and joined and lists of slices flattened, and induction over
the natural numbers (`NatSetInduction`: a set that holds 0 and with `n` also
`n + 1` holds all of them; it takes no operator as a parameter).

**WopePipeline** (`PipelineAssumption`, `HistoryAssumption`). For any writes,
edits, threads, reads, waiting discipline, faults and number of crashes:

- `TypeCorrect`: `Spec => []TypeOK`.
- `BoundBlocksAlwaysStored`: every block of a bound version has its record and,
  unless writing it failed, its journal file; the file, and its copy under the disk
  root, hold the block's own data unless its serial was given twice.
- `JournalAckAlwaysSurvives`: what was acknowledged onJournal is bound and
  stored in this sense, whatever crashes. Neither theorem assumes anything of the clock
  or the files, and neither property is inductive. A worker binds the list it carries,
  so `JournalInv` adds that the blocks of bound lists, and of every list that is carried, are
  recorded but for the one just created (`BoundRecorded`, `ListsRecorded`), what the
  files of a serial hold given the blocks it was given to (`FilesDrawn`), and
  that a worker about to reply has bound its target (`ToldBound`). All rest on records and
  serials never being forgotten (`DomainsGrow`).

When the clock advances between two blocks (`TickPerBlock`), for any overlap of any
writes:

- `SharedBlocksAlwaysCounted`: a block that two versions list has a `refer_count` of
  at least 2, although `refer_count++` is an unlocked get and put and increments may
  be lost. So a count of 1, on which stage onJournal decides to copy, means one
  version. `SharedInv` adds to `JournalInv` that new serials are above those given out
  (`SerialsFresh`), and for a worker that is building a list which counts are already
  raised (`CountsInHand`): a block that it has put into its list itself is
  nobody else's until it binds (`Private`), and one that it has found in a bound
  list has at least 1 there already, so that a put makes it 2 or more, however old
  the value that was read.

When each write has a target of its own (`OneTarget`). This is the clients' part, and
the server does not look whether a name is in use: `test/asyn_http_.cpp:14-15` makes one
write, of one fixed name, and meets it on a fresh store; `test/benchmark/syn_asyn.cpp:136-145`
posts the same targets in every iteration, and does not:

- `VersionsNeverChange`: once bound, a version's list never changes. A write's
  log is in one place, the queue, the pool, or a worker, and never with a
  worker before its binding once it has left stage init (`OrderInv`): this is
  what three trips through a queue, taken by any worker, amount to.

When clients wait for onDisk before they go on from a version, as
`test/asyn_http_.cpp` does, no write and no copy of a block file fails, and
`TickPerBlock` and `OneTarget` hold (`DiskAssumption`):

- `AckedOnDiskAlwaysReadable`: after onDisk every block of the version is under
  the disk root. Stage onJournal copies only blocks with a count of 1, so the
  proof is that a block not yet on disk has count 1 and is in the list of one
  version, whose write is still to copy it (`DiskInv`): others start from
  versions whose blocks are all on disk. Without the waiting it is false
  (finding 1).
- `ReadsAlwaysReturnWritten`: a read of a version that is on disk returns what
  its write meant, as `BlockHistory` defines it. `EditsInv` says that the list a
  worker carries after `n` edits is, block by block, the base edited up to
  the `n`-th; `EditedUpToEquation` is the recursion it goes along.
- `PipelineImplementsVersionStore`: `Spec` implies `Store!Spec`, under the mapping that
  takes bound lists to contents. The steps that bind, complete a version on disk, and
  tell a client are the abstract actions; every other step, a crash included, is a
  stutter.

When clients wait, for the journal or for the disk, targets are distinct
(`OneTarget`), and the writes and reads address positions that their versions have
(`AddressesFit`):

- `NothingEverUndefined`: no iterator and no index passes the end of a block list,
  whatever fails or crashes. The server checks no position, so `AddressesFit` is
  the clients' part: a version has as many blocks as its history leaves, each
  edit falls inside the list the edits before it left, and a read names
  blocks of its version. All histories of `MCWopePipeline` satisfy it
  (`HistoriesFit`). What is proved is that it is enough: a worker reads its base
  only when that is bound, to a list of the length it is said to have, and after
  `n` edits its own list has the `n`-th length (`SizesInv`, from `OrderInv`).
  Without the waiting a write may read a base that is not bound, and edit
  the empty list.

`DiskAssumption` is what `pipeline_disk` instantiates. Failing files, equal serials
and clients that wait for less are the subject of `pipeline_faults` and
`pipeline_eager`.

**ThreadPool** (`PoolAssumption`: finitely many threads; no roster is empty, as
`hardware_concurrency()` may be 0 and such a pool runs nothing), for any jobs,
threads and number of calls:

- `PoolTypeCorrect`, `JobsAlwaysConserved`, `ShutdownAlwaysDrains`,
  `IdleAlwaysMeansDone`, all from the inductive invariant `PoolInv`: a thread that
  has exited saw the flag set and the list empty, so no job due at that shutdown
  is in the list any more (`ExitedDrained`); when all have exited none holds one
  either, so all due jobs have returned (`ClearedDrained`); `busyCount` is the
  number of threads with a job (`BusyCounted`).

**Timers** (`TimersAssumption`: first times are numbers, each timer is to run at least
once, the workers are finitely many), for either class, any timers, times,
repetitions and workers, and tasks that add timers while the list is walked:

- `TimersTypeCorrect`: no step leaves the iterator past the sentinel. With it go
  `LockInv` (who holds the mutex, and that what `Look` and `RestJobs` read under it
  is still so when they use it) and `WorkersInv`.
- `TimersAlwaysConserved`, `PolledAlwaysDone`: from `ConservedInv`. A timer is in
  one place only (`ApartInv`), with the runs that are left to it and the time of the
  next one (`OwesInv`); one that is nowhere has done them all (`DoneInv`); and what
  is in the pool is due (`DueInv`). `TimersConserved` speaks of the set of places;
  it follows, but says nothing of times, which `NeverEarly` needs.
  `PolledIsDone` rests on the mutex: while `RestJobs` holds it no worker can add a
  next run, so an empty list and an idle pool are empty together although they
  are looked at in two steps.
- `CalledAlwaysInOrder`: from `CallInv`. The list is sorted, and what the iterator
  has passed is strictly earlier than all that is left (`SortedInv`): a task may
  add a timer behind the iterator, and it is then left for the next `Tick()`, but
  no timer of its time is called before it. So timers of one time that have
  not run stay in the order of their addition (`FirstRuns`), and while the end
  timer waits, the flag is not set and what has to run before it comes before it and is
  not passed (`EndInv`).

**AsynClient** (`ClientAssumption`: no operation is both a write and a read), for
any operations, handler threads, losses, time limits and number of calls:

- `ClientTypeCorrect`, `StatesAlwaysReported` and `WaitAlwaysReturnsBe` (waitWopeBe
  returns only what it was told to wait for; this one no run checks), from the
  inductive invariant `ClientInv`. What the client stores comes out of its thread
  pool, in any order, so `ClientInv` adds that every reply queued or held by a
  thread is one the server has posted (`JobsWerePosted`), and that no more are
  posted than there are; posting more only reports more (`MoreReports`). That
  the stored milestones never go back is not among the theorems: it is false
  (finding 2).

**HeaderMap** (`HeaderAssumption`: the numbers that can be given out are none that
a record is misread as; it takes three million headers to get there), for any
objects, slots, descriptions, threads, stored counts and number of restarts:

- `HeadersTypeCorrect`, `HeadersAlwaysUnique`, `CachesAlwaysAgree`,
  `LifeRecordsAlwaysCached`, from the inductive invariant `HeaderInv`. The count
  is above every number given out and every recorded one (`NumbersInv`). A
  thread between its get and its put of the count holds the lock, so what it
  has read is the count (`LockInv`). The owner of the maps relies on what it
  read two steps ago: while it takes a number, its object has neither record
  nor place in the cache, and the number it carries is nobody else's
  (`UserInv`). What the reverse cache holds was given out in this life
  (`CachedInv`): misread headers never enter it.

**ServerLifecycle** (`LifecycleAssumption`), for any requests, workers and number of
failures:

- `LifecycleTypeCorrect` and `PartsAlwaysOutlive`, from the inductive invariant
  `LifecycleInv`: handlers run only while the server thread is inside
  `listen()`, so none is left after the join (`HandlersInv`); a request is held
  by a worker that has not exited, and all have before the dispatcher is told to
  leave (`HoldersInv`); the dispatcher has left before the pool goes
  (`DispatcherInv`); and the database is open from the end of the constructor to
  the end of the destructor (`PartsInv`).
- `AlwaysStoppedBetweenStages`, when there is a worker (`hardware_concurrency()` may
  be 0, and a client's pool would keep its jobs): from `StagesInv`, which adds
  that a request is in exactly one place once it was accepted, and in none before
  (`PlacesInv`), and that the destructors find the queues drained
  (`DrainedInv`). A place may be a list, so a request's places are counted with
  `Occurrences`, and each action moves one occurrence (`HandsChange`).

**SyncJournal and SliceCombine** (`JournalAssumption`), for any requests, objects,
texts, operations and number of crashes:

- `CombiningEdits`: for every text and list of operations, combining writes down
  the text that the operations, done one after another, make, unless it leaves
  the list of slices. TLC checks operations of two sizes on short texts; this is
  for all. `Combine` is a fold, so its lemmas are about the fold's values after
  each number of operations: `FoldStep` shows one loop body to do what `Edit`
  does, by where `Locate` stops (`InsertSlice`, and `DeleteSpan` within a slice or
  across several), and `CombinedSteps` goes along the operations with
  `NatSetInduction`.
- `JournalTypeCorrect` and `AlwaysAppliedInOrder`, from the inductive invariant
  `JournalInv`. Its `FlushInv` says where the handlers are and that the flush's loop
  goes through `wOpes`. `OrderInv` says that what an object's file contains,
  followed by what the flush has taken for it, is in the order of `added`, and
  that all of it comes before what is left in `wOpes`. Both hold with racing
  additions too.
- `FilesAlwaysEdited`: a file is what the operations written since it was last torn
  make of what was left of it then; from `FilesInv`, which adds that the file a flush has
  read for an object is still the object's file when it is written.
- `AnsweredAlwaysFlushed`, when no operation is added while a flush is in its loop:
  what is answered is in its file or was lost to a write that failed. From `AnswerInv`:
  an entry whose handler is alive is in `wOpes`, in the flush, or written or dropped; and once its handler's own flush has cleared `wOpes` it is no longer in
  `wOpes`. With racing additions it is false (finding 3).
- `OnlyEndsAlwaysLeave`, under the same hypothesis (a racing addition is undefined
  by itself): leaving the list at one operation means that this operation broke
  its contract or is a Delete up to the end (`CombinedLeaves`), whatever
  was combined before it (finding 4).

Every invariant and action property of a passing run is stated by a theorem, under
the hypotheses given above. Only model-checked, since the prover does not reason
about `ENABLED` and fairness: `EveryRequestAnswered`, `EveryJobRuns`,
`EveryTimerRuns`, `StartedServes`, `NoLostNotification`, `TimedCallsReturn`, and
`ShutdownReturns` of the three modules that have one. What a violation run checks
is false, and what is true in its place is among the theorems.

## 6. What the models leave out

- The order of `rope_logs` and the number of read threads: a read changes
  nothing another operation sees.
- The unlocked lookup in the cache of type headers (a data race on the first
  use of a type), and RocksDB's own behaviour: single gets and puts are atomic
  and survive a crash of the process.
- The inside of `WriteFile`, which is one step: two writes that overlap on the file of one
  serial given twice could mix their data; data is claimed only for a serial given
  once. An exception of it in a pool worker ends the process (`std::terminate`), and is
  a `CrashRestart`.
- Failed puts of RocksDB, and copies that fail half-way.
- A client that repeats a write under the same version name; two threads that
  shut one pool down.
- `TimerCallerGroup`. `SetTerminationAtEnd` of a `ConcTimerCaller`: its end timer
  would shut the pool down from one of the pool's own workers, and an empty list
  would shut it down under the timers' mutex; nothing calls it.
- The synchronous journal's map is keyed by `operator<`, which ignores the owner:
  the model's objects differ in name or generation. `flushJouranl` is not called.
- Replicas: `tos` is sent and ignored, and no code sends a replica message.
- The lifecycle leaves out the read path (`rope_logs`, `read_tp`), which is that
  of the writes with one stage, `AsynServer`'s own `thread_pool`, which gets no jobs, and
  the timers, which the store never activates: `timercaller.run()` returns at
  once. A reply that reaches a client under construction can only come from a
  request of a predecessor at the same address. `UnMount` has no caller.
- In the header maps, a hit in a cache changes nothing and is a stutter. Their
  functions are called by `flushJouranl` only, which nothing calls, on one thread;
  so one thread owns the maps. `GetHeader` does not use `Header::FromTo_string`,
  which would read a header back. `GetMatchPrefix` reads only.
- `FSConnnectionServer`: `listen` runs one server thread and joins it. Its
  `GET /stop` stops the server and leaves `is_running` set, so that a second
  `listen` returns at once; nothing calls it a second time.
- Synchronous HTTP request plumbing, configuration lookup, logging, random
  names, the heap recorder and the empty files `GDTransaction.h` and
  `projection.h` have no state of interest.

## 7. Plan

Next modules, the most important first:

1. `AsynSystem`: `AsynClient` over `VersionStore`, with retried requests.
2. `FSConnnectionServer`, `TimerCallerGroup` and the cache of type headers: small
   parts next to modelled ones.
3. `FileCache`, `Serialize`: parts that nothing else uses, or that are pure.

Theorems that would come with them: that `AsynSystem` implements `VersionStore` with
the client's states, from the clients' theorems and `PipelineImplementsVersionStore`.
