---------------------------- MODULE SyncJournal ----------------------------
(***************************************************************************)
(* Journal::HandleWriteOperation as POST /write calls it (emergency): each *)
(* request is handled by a thread of the HTTP server, which adds its       *)
(* operation to wOpes and then flushes all of them, object by object, into *)
(* the objects' journal files.                                             *)
(*                                                                         *)
(* wOpes is added to under one mutex, GetMutex(this, "wOpes"), and flushed *)
(* under another, access_to_wOpes.  A step is an addition, or, in a flush, *)
(* the taking up of one operation, the clearing of wOpes or the writing of *)
(* one file.                                                               *)
(*                                                                         *)
(* Writing a file can fail in two ways.  WriteFile returns false, which is *)
(* dropped, so that the flush goes on and "success" is answered; or it     *)
(* throws, which ends the flush, with wOpes already cleared of the         *)
(* operations of other handlers.                                           *)
(***************************************************************************)
EXTENDS SliceCombine, FiniteSets

CONSTANTS
    Requests,   \* the requests to /write, each with its handler thread
    Objects,    \* the GHObject_t; operator< tells them apart
    Char,       \* the characters of texts
    Text,       \* the journal files' texts at the start
    Inputs,     \* what a request may ask for
    None,       \* no request
    Racing,     \* may a request be added while a flush goes through wOpes?
    WriteMayFail, \* may writing a file fail, or a crash cut it off?
    MaxCrashes  \* bound on the crashes

ASSUME JournalAssumption ==
    /\ Text \in [Objects -> Seq(Char)]
    /\ Inputs \subseteq [obj : Objects, ope : Operation(Char)]
    /\ None \notin Requests
    /\ {Racing, WriteMayFail} \subseteq BOOLEAN /\ MaxCrashes \in Nat

\* An operation in wOpes, with the request it came from.
Entry == [from : Requests, obj : Objects, ope : Operation(Char)]

VARIABLES
    wOpes,      \* the operations that are not flushed yet
    at,         \* per request: where its handler is
    flusher,    \* the request whose handler holds access_to_wOpes
    end,        \* how many operations the flush's loop goes through
    next,       \* the one it has come to
    base,       \* g2os, the first operations: object |-> the file as it was read
    g2os,       \* g2os, the others: object |-> entries of wOpes
    files,      \* the journal files
    undefined,  \* has the behaviour become undefined?
    crashes,
    added,      \* history: the entries that were added, in this order
    origin,     \* history: per object, its file at the start or as it was torn
    applied,    \* history: per object, the entries written to it since
    dropped     \* history: the entries that a failed write has lost

flush   == <<flusher, end, next, base, g2os>>
written == <<origin, applied, dropped>>
history == <<added, written>>
vars    == <<wOpes, at, flush, files, undefined, crashes, history>>

Empty == [o \in {} |-> <<>>]

Init ==
    /\ wOpes = <<>> /\ at = [r \in Requests |-> "new"]
    /\ flusher = None /\ end = 0 /\ next = 1 /\ base = Empty /\ g2os = Empty
    /\ files = Text /\ undefined = FALSE /\ crashes = 0
    /\ added = <<>> /\ origin = Text /\ applied = [o \in Objects |-> <<>>] /\ dropped = {}

Move(r, place) == at' = [at EXCEPT ![r] = place]

\* HandleWriteOperation refuses a request that names no server, or not this one.
Refuse(r) ==
    /\ at[r] = "new"
    /\ Move(r, "refused")
    /\ UNCHANGED <<wOpes, flush, files, undefined, crashes, history>>

\* Is a flush in its loop over wOpes?
Gathering == flusher # None /\ at[flusher] = "gather"

\* _AddWriteOperation.  The two mutexes do not exclude each other: with a flush
\* in its loop, the vector may have been moved away from under the loop, or it
\* was not, and the loop ends where it would have ended before.
Add(r) ==
    /\ at[r] = "new"
    /\ Gathering => Racing
    /\ \E input \in Inputs :
           LET entry == [from |-> r, obj |-> input.obj, ope |-> input.ope]
           IN  wOpes' = Append(wOpes, entry) /\ added' = Append(added, entry)
    /\ Move(r, "added")
    /\ \/ undefined' = undefined
       \/ Gathering /\ undefined' = TRUE
    /\ UNCHANGED <<flush, files, crashes, written>>

\* Mutant: the loop goes one too far.
Lock_PastEnd(r) ==
    /\ at[r] = "added" /\ flusher = None
    /\ flusher' = r /\ end' = Len(wOpes) + 1 /\ next' = 1
    /\ base' = Empty /\ g2os' = Empty
    /\ Move(r, "gather")
    /\ UNCHANGED <<wOpes, files, undefined, crashes, history>>

\* _flushProcessor
Lock(r) ==
    /\ at[r] = "added" /\ flusher = None
    /\ flusher' = r /\ end' = Len(wOpes) /\ next' = 1
    /\ base' = Empty /\ g2os' = Empty
    /\ Move(r, "gather")
    /\ UNCHANGED <<wOpes, files, undefined, crashes, history>>

With(map, o, value) == [x \in DOMAIN map \cup {o} |-> IF x = o THEN value ELSE map[x]]

\* Mutant: the file is read for every operation, and the map starts anew.
Gather_StartsAnew(r) ==
    LET entry == wOpes[next]
    IN  /\ at[r] = "gather" /\ next <= end
        /\ base' = With(base, entry.obj, files[entry.obj])
        /\ g2os' = With(g2os, entry.obj, <<entry>>)
        /\ next' = next + 1
        /\ UNCHANGED <<wOpes, at, flusher, end, files, undefined, crashes, history>>

\* The first operation on an object reads its file.
Gather(r) ==
    LET entry == wOpes[next]
        first == entry.obj \notin DOMAIN g2os
    IN  /\ at[r] = "gather" /\ next <= end
        /\ base' = IF first THEN With(base, entry.obj, files[entry.obj]) ELSE base
        /\ g2os' = With(g2os, entry.obj,
                        Append(IF first THEN <<>> ELSE g2os[entry.obj], entry))
        /\ next' = next + 1
        /\ UNCHANGED <<wOpes, at, flusher, end, files, undefined, crashes, history>>

\* Mutant: wOpes is not cleared.
Clear_Not(r) ==
    /\ at[r] = "gather" /\ next > end
    /\ wOpes' = wOpes
    /\ Move(r, "write")
    /\ UNCHANGED <<flush, files, undefined, crashes, history>>

Clear(r) ==
    /\ at[r] = "gather" /\ next > end
    /\ wOpes' = <<>>
    /\ Move(r, "write")
    /\ UNCHANGED <<flush, files, undefined, crashes, history>>

Without(map, o) == [x \in DOMAIN map \ {o} |-> map[x]]

Opes(entries) == [i \in DOMAIN entries |-> entries[i].ope]

\* What the flush makes of the file of o.
Result(o) == Combine(<<WriteWrapper(base[o])>> \o Opes(g2os[o]))

\* The operations on one object are combined and its file is written.
WriteObject(r) ==
    /\ at[r] = "write"
    /\ \E o \in DOMAIN g2os :
           LET ret == Result(o)
           IN  /\ undefined' = ret.past
               /\ files' = IF ret.past THEN files
                           ELSE [files EXCEPT ![o] = GetBufferFromSlices(ret.list)]
               /\ applied' = [applied EXCEPT ![o] = @ \o g2os[o]]
               /\ base' = Without(base, o) /\ g2os' = Without(g2os, o)
    /\ UNCHANGED <<wOpes, at, flusher, end, next, crashes, added, origin, dropped>>

\* The entries that the flush has for the objects.
EntriesOf(objects) == UNION {Range(g2os[o]) : o \in objects}

\* The file of o is truncated and written in part: what was in it is lost.
Tear(o, objects) ==
    \E part \in Prefixes(GetBufferFromSlices(Result(o).list)) :
        /\ files' = [files EXCEPT ![o] = part] /\ origin' = [origin EXCEPT ![o] = part]
        /\ applied' = [applied EXCEPT ![o] = <<>>]
        /\ dropped' = dropped \cup EntriesOf(objects) \cup Range(applied[o])

\* The file of o is not opened.
LeaveAlone(objects) ==
    dropped' = dropped \cup EntriesOf(objects) /\ UNCHANGED <<files, origin, applied>>

\* WriteFile returns false, which the flush does not look at.
WriteFails(r) ==
    /\ WriteMayFail /\ at[r] = "write"
    /\ \E o \in DOMAIN g2os :
           /\ ~Result(o).past
           /\ LeaveAlone({o}) \/ Tear(o, {o})
           /\ base' = Without(base, o) /\ g2os' = Without(g2os, o)
    /\ UNCHANGED <<wOpes, at, flusher, end, next, undefined, crashes, added>>

\* WriteFile throws before it opens the file.  The exception leaves the flush and
\* releases the lock; the handler catches it and answers no "success".
WriteThrows(r) ==
    /\ WriteMayFail /\ at[r] = "write"
    /\ \E o \in DOMAIN g2os : ~Result(o).past
    /\ LeaveAlone(DOMAIN g2os)
    /\ flusher' = None /\ base' = Empty /\ g2os' = Empty
    /\ Move(r, "failed")
    /\ UNCHANGED <<wOpes, end, next, undefined, crashes, added>>

\* The lock is released and "success" is answered.
Answer(r) ==
    /\ at[r] = "write" /\ DOMAIN g2os = {}
    /\ flusher' = None
    /\ Move(r, "answered")
    /\ UNCHANGED <<wOpes, end, next, base, g2os, files, undefined, crashes, history>>

\* The process dies and starts again: the files are left, one of them torn if it
\* was being written.
CrashRestart ==
    /\ crashes < MaxCrashes /\ ~undefined
    /\ crashes' = crashes + 1
    /\ wOpes' = <<>> /\ flusher' = None /\ end' = 0 /\ next' = 1
    /\ base' = Empty /\ g2os' = Empty
    /\ at' = [r \in Requests |->
                 IF at[r] \in {"added", "gather", "write"} THEN "lost" ELSE at[r]]
    /\ \/ UNCHANGED <<files, written>>
       \/ /\ WriteMayFail /\ \E r \in Requests : at[r] = "write"
          /\ \E o \in DOMAIN g2os : ~Result(o).past /\ Tear(o, {})
    /\ UNCHANGED <<undefined, added>>

Handle(r) ==
    \/ Lock(r) \/ Gather(r) \/ Clear(r)
    \/ WriteObject(r) \/ WriteFails(r) \/ WriteThrows(r) \/ Answer(r)

Next ==
    \/ ~undefined /\ \E r \in Requests : Add(r) \/ Refuse(r) \/ Handle(r)
    \/ CrashRestart

Spec == Init /\ [][Next]_vars

----------------------------------------------------------------------------
(* Correctness.  Nothing is said once the behaviour is undefined. *)

\* Type invariant of the journal, the flush and the handlers.
TypeOK ==
    /\ wOpes \in Seq(Entry) /\ added \in Seq(Entry)
    /\ at \in [Requests -> {"new", "refused", "added", "gather", "write", "answered",
                           "failed", "lost"}]
    /\ flusher \in Requests \cup {None} /\ end \in 0..Len(added) /\ next \in 1..end + 1
    /\ DOMAIN g2os \subseteq Objects /\ DOMAIN base = DOMAIN g2os
    /\ \A o \in DOMAIN g2os : base[o] \in Seq(Char) /\ g2os[o] \in Seq(Entry)
    /\ files \in [Objects -> Seq(Char)] /\ origin \in [Objects -> Seq(Char)]
    /\ applied \in [Objects -> Seq(Entry)] /\ dropped \subseteq Entry
    /\ undefined \in BOOLEAN /\ crashes \in 0..MaxCrashes

\* A file is what the operations written to it make of its text, at the start or
\* since it was last torn, whatever was combined with what and however many
\* flushes, failed writes and crashes came between.
FilesAreEdited ==
    ~undefined => \A o \in Objects : files[o] = EditAll(origin[o], Opes(applied[o]))

\* The operations of an object are written in the order in which they were
\* added, none of them twice.
AppliedInOrder ==
    \A o \in Objects :
        \A i, j \in DOMAIN applied[o] :
            i < j => \E k, l \in DOMAIN added :
                         k < l /\ added[k] = applied[o][i] /\ added[l] = applied[o][j]

\* What was answered "success" is in the object's file, also when another
\* handler's flush has taken it, and after a crash.  The code permits one kind of
\* loss, and no other: a write that failed, by an ignored false, by an exception
\* in the flush of another handler that had taken the operation, or by a write
\* cut short that emptied the file.
AnsweredIsFlushed ==
    \A i \in DOMAIN added :
        at[added[i].from] = "answered" /\ ~undefined =>
            \/ \E o \in Objects : \E j \in DOMAIN applied[o] : applied[o][j] = added[i]
            \/ added[i] \in dropped

\* The text as entry i of applied[o] met it.
Before(o, i) == EditAll(origin[o], Opes(SubSeq(applied[o], 1, i - 1)))

Breaks(o, i) == ~Admissible(Before(o, i), applied[o][i].ope)
EndsAtEnd(o, i) ==
    LET text == Before(o, i)  ope == applied[o][i].ope
    IN  /\ ope.type = "Delete"
        /\ GetFilePos(ope, Len(text)) + ope.start + ope.size = Len(text)

\* The list of slices is left only by an operation that breaks its contract, or
\* by a Delete that ends where the object ends.
OnlyEndsLeaveTheList ==
    undefined => \E o \in Objects : \E i \in DOMAIN applied[o] :
        Breaks(o, i) \/ EndsAtEnd(o, i)

\* Operations within their contract never lead out of the list of slices.
ContractIsEnough ==
    undefined => \E o \in Objects : \E i \in DOMAIN applied[o] : Breaks(o, i)
=============================================================================
