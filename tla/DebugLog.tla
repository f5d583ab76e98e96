------------------------------ MODULE DebugLog ------------------------------
(***************************************************************************)
(* The debug log of zenwinx (dbg.c), with the locks (lock.c) and the out of*)
(* memory handler (mem.c) it depends on.  Every thread collects messages in*)
(* a list under one lock, and may flush the list to the log file under     *)
(* another one; the main thread also changes the path of the file.  An     *)
(* allocation which fails calls the killer of the program, which flushes   *)
(* the log and ends the program, or asks for another attempt.              *)
(***************************************************************************)
EXTENDS Naturals, Sequences, SequencesExt

CONSTANTS
    Threads, Main,   \* the threads of the program, and the main one
    Paths,           \* the paths of log files
    RootPaths,       \* those of files in the root directory of a volume
    NoPath, Nobody,  \* NULL as a path, and as the owner of a lock
    MaxMessages,     \* bound on the messages collected
    MaxCalls         \* bound on flushes, changes of the path and failures

ASSUME LogAssumption ==
    /\ Main \in Threads /\ Nobody \notin Threads
    /\ RootPaths \subseteq Paths /\ NoPath \notin Paths
    /\ MaxMessages \in Nat /\ MaxCalls \in Nat

VARIABLES
    hListLock, hFileLock,  \* the thread which holds the lock
    logging_enabled, log_path,
    dbg_log,               \* the list of collected messages
    old_dbg_log,           \* the list a thread has detached
    path,                  \* the argument of the change of the path
    files,                 \* the messages in the log files
    at,                    \* what a thread does
    traced, flushed,       \* what it does after a message, after a flush
    aim,                   \* the paths in force when it began its message
    running,               \* the program has not ended
    collected, calls,      \* counters for the bounds
    unset,                 \* paths memory did not suffice to set (history)
    lost,                  \* messages thrown away by a flush (history)
    unopened,              \* those for want of a file, not of a path (history)
    erased                 \* messages in files which have been deleted (history)

locks == <<hListLock, hFileLock>>
settings == <<logging_enabled, log_path, path, unset>>
flow == <<at, traced, flushed, aim>>
counters == <<running, collected, calls>>
fate == <<lost, unopened, erased>>
lists == <<dbg_log, old_dbg_log, files, fate>>
vars == <<locks, settings, flow, counters, lists>>

Init ==
    /\ hListLock = Nobody /\ hFileLock = Nobody
    /\ logging_enabled = FALSE /\ log_path = NoPath /\ path = NoPath
    /\ dbg_log = <<>> /\ old_dbg_log = [t \in Threads |-> <<>>]
    /\ files = [p \in Paths |-> <<>>] /\ unset = {}
    /\ lost = {} /\ unopened = {} /\ erased = {}
    /\ at = [t \in Threads |-> "idle"]
    /\ traced = [t \in Threads |-> "idle"] /\ flushed = [t \in Threads |-> "idle"]
    /\ aim = [t \in Threads |-> {}]
    /\ running = TRUE /\ collected = 0 /\ calls = 0

\* The steps of a change of the path which are made under the file lock.
Changing == {"create", "flush old", "replace", "duplicate", "release"}

At(t, step) == running /\ at[t] = step
Go(t, step) == at' = [at EXCEPT ![t] = step] /\ UNCHANGED <<traced, flushed, aim>>
\* A call of winx_dbg_print, after which the thread goes on with step.
TraceThen(t, step) ==
    /\ at' = [at EXCEPT ![t] = "trace"] /\ traced' = [traced EXCEPT ![t] = step]
    /\ UNCHANGED <<flushed, aim>>
Traced(t) ==
    /\ at' = [at EXCEPT ![t] = traced[t]] /\ traced' = [traced EXCEPT ![t] = "idle"]
    /\ aim' = [aim EXCEPT ![t] = {}] /\ UNCHANGED flushed
\* A call of winx_flush_dbg_log which begins with the step first.
FlushThen(t, first, step) ==
    /\ at' = [at EXCEPT ![t] = first] /\ flushed' = [flushed EXCEPT ![t] = step]
    /\ UNCHANGED <<traced, aim>>
Call == calls < MaxCalls /\ calls' = calls + 1 /\ UNCHANGED <<running, collected>>

-----------------------------------------------------------------------------
(* add_dbg_log_entry.                                                      *)

Trace(t) ==
    /\ At(t, "idle") /\ collected < MaxMessages /\ TraceThen(t, "idle")
    /\ UNCHANGED <<locks, settings, counters, lists>>

\* The steps of a thread which has taken the file lock.
Flushing == {"detach", "open", "write", "end of flush"}
Current(t) == IF at[t] \in {"trace", "insert"} THEN traced[t] ELSE at[t]
\* A path is being put in force, and the paths which are.
ChangeUnderWay ==
    hFileLock = Main /\ ~(Current(Main) \in Flushing /\ flushed[Main] # "replace")
InForce == {log_path} \cup (IF ChangeUnderWay THEN {path} ELSE {})

\* The flag is read under the lock of the list.
BeginAdd(t) ==
    /\ At(t, "trace") /\ hListLock = Nobody
    /\ IF logging_enabled
       THEN /\ at' = [at EXCEPT ![t] = "insert"] /\ aim' = [aim EXCEPT ![t] = InForce]
            /\ hListLock' = t /\ UNCHANGED <<traced, flushed>>
       ELSE Traced(t) /\ UNCHANGED hListLock
    /\ UNCHANGED <<hFileLock, settings, counters, lists>>

\* Mutant: the entry becomes the head of the list.
MutInsert(t) ==
    /\ At(t, "insert") /\ collected < MaxMessages /\ collected' = collected + 1
    /\ dbg_log' = <<[number |-> collected + 1, paths |-> aim[t]]>> \o dbg_log
    /\ hListLock' = Nobody /\ Traced(t)
    /\ UNCHANGED <<hFileLock, settings, running, calls, old_dbg_log, files, fate>>
\* The entry is put behind the last one, unless memory is exhausted.
Insert(t) ==
    /\ At(t, "insert")
    /\ \/ /\ collected < MaxMessages /\ collected' = collected + 1
          /\ dbg_log' = Append(dbg_log, [number |-> collected + 1, paths |-> aim[t]])
       \/ UNCHANGED <<collected, dbg_log>>
    /\ hListLock' = Nobody /\ Traced(t)
    /\ UNCHANGED <<hFileLock, settings, running, calls, old_dbg_log, files, fate>>

-----------------------------------------------------------------------------
(* winx_flush_dbg_log.                                                     *)

Flush(t) ==
    /\ At(t, "idle") /\ Call /\ FlushThen(t, "lock", "idle")
    /\ UNCHANGED <<locks, settings, lists>>

LockFile(t) ==
    /\ At(t, "lock") /\ hFileLock = Nobody /\ hFileLock' = t /\ Go(t, "detach")
    /\ UNCHANGED <<hListLock, settings, counters, lists>>

\* The list is taken over before it is known whether it can be saved.
Detach(t) ==
    /\ At(t, "detach") /\ hListLock = Nobody
    /\ dbg_log' = <<>>
    /\ IF dbg_log = <<>> \/ log_path = NoPath
       THEN /\ lost' = lost \cup ToSet(dbg_log) /\ Go(t, "end of flush")
            /\ UNCHANGED old_dbg_log
       ELSE /\ old_dbg_log' = [old_dbg_log EXCEPT ![t] = dbg_log] /\ Go(t, "open")
            /\ UNCHANGED lost
    /\ UNCHANGED <<locks, settings, counters, files, unopened, erased>>

Open(t) == At(t, "open") /\ Go(t, "write") /\ UNCHANGED <<locks, settings, counters, lists>>

\* winx_fbopen and winx_fopen fail: the messages are thrown away.
OpenFails(t) ==
    /\ At(t, "open") /\ TraceThen(t, "end of flush")
    /\ old_dbg_log' = [old_dbg_log EXCEPT ![t] = <<>>]
    /\ lost' = lost \cup ToSet(old_dbg_log[t])
    /\ unopened' = unopened \cup ToSet(old_dbg_log[t])
    /\ UNCHANGED <<locks, settings, counters, dbg_log, files, erased>>

Write(t) ==
    /\ At(t, "write")
    /\ IF old_dbg_log[t] = <<>>
       THEN Go(t, "end of flush") /\ UNCHANGED <<files, old_dbg_log>>
       ELSE /\ files' = [files EXCEPT ![log_path] = Append(@, Head(old_dbg_log[t]))]
            /\ old_dbg_log' = [old_dbg_log EXCEPT ![t] = Tail(@)]
            /\ UNCHANGED flow
    /\ UNCHANGED <<locks, settings, counters, dbg_log, fate>>

\* A change of the path, which holds the lock, flushes without taking it.
EndFlush(t) ==
    /\ At(t, "end of flush")
    /\ at' = [at EXCEPT ![t] = flushed[t]] /\ flushed' = [flushed EXCEPT ![t] = "idle"]
    /\ hFileLock' = IF flushed[t] = "replace" THEN hFileLock ELSE Nobody
    /\ UNCHANGED <<hListLock, settings, traced, aim, counters, lists>>

-----------------------------------------------------------------------------
(* udefrag_set_log_file_path and winx_set_dbg_log.                         *)

\* The old file is deleted, unless a flush has it open.
SetPath(t, p) ==
    /\ t = Main /\ At(t, "idle") /\ Call /\ path' = p /\ Go(t, "lock to change")
    /\ IF p = NoPath \/ (p = log_path /\ \E u \in Threads : at[u] = "write")
       THEN UNCHANGED <<files, erased>>
       ELSE files' = [files EXCEPT ![p] = <<>>] /\ erased' = erased \cup ToSet(files[p])
    /\ UNCHANGED <<locks, logging_enabled, log_path, unset, dbg_log, old_dbg_log, lost, unopened>>

\* Mutant: the old path is given up before the log is flushed to it.
MutLockToChange(t) ==
    /\ At(t, "lock to change") /\ hFileLock = Nobody /\ hFileLock' = t
    /\ logging_enabled' = (path # NoPath) /\ log_path' = NoPath
    /\ Go(t, IF path = NoPath THEN "flush old" ELSE "create")
    /\ UNCHANGED <<hListLock, path, unset, counters, lists>>
LockToChange(t) ==
    /\ At(t, "lock to change") /\ hFileLock = Nobody /\ hFileLock' = t
    /\ logging_enabled' = (path # NoPath)
    /\ Go(t, IF path = NoPath THEN "flush old" ELSE "create")
    /\ UNCHANGED <<hListLock, log_path, path, unset, counters, lists>>

\* winx_create_path: for a root directory the volume is examined, which
\* takes memory by winx_malloc.
CreatePath(t) ==
    /\ At(t, "create")
    /\ \/ Go(t, "flush old") \/ TraceThen(t, "flush old")
       \/ path \in RootPaths /\ Go(t, "killer")
    /\ UNCHANGED <<locks, settings, counters, lists>>

\* A path which is set again is not flushed.
FlushOld(t) ==
    /\ At(t, "flush old")
    /\ IF path # log_path THEN FlushThen(t, "detach", "replace") ELSE Go(t, "replace")
    /\ UNCHANGED <<locks, settings, counters, lists>>

Replace(t) ==
    /\ At(t, "replace") /\ log_path' = NoPath
    /\ IF logging_enabled
       THEN TraceThen(t, "duplicate")
       ELSE Go(t, "release")
    /\ UNCHANGED <<locks, logging_enabled, path, unset, counters, lists>>

\* winx_wcsdup may fail.
Duplicate(t) ==
    /\ At(t, "duplicate")
    /\ \/ log_path' = path /\ UNCHANGED unset /\ Go(t, "release")
       \/ log_path' = NoPath /\ unset' = unset \cup {path} /\ TraceThen(t, "release")
    /\ UNCHANGED <<locks, logging_enabled, path, counters, lists>>

\* Mutant: the lock is not released.
MutRelease(t) ==
    /\ At(t, "release") /\ Go(t, "idle") /\ UNCHANGED <<locks, settings, counters, lists>>
Release(t) ==
    /\ At(t, "release") /\ hFileLock' = Nobody /\ Go(t, "idle")
    /\ UNCHANGED <<hListLock, settings, counters, lists>>

-----------------------------------------------------------------------------
(* winx_heap_alloc with MALLOC_ABORT_ON_FAILURE, and the end of a program. *)

OutOfMemory(t) ==
    /\ At(t, "idle") /\ Call /\ Go(t, "killer") /\ UNCHANGED <<locks, settings, lists>>

\* The handler gives up, or the user retries with success.
Killer(t) ==
    /\ At(t, "killer")
    /\ \/ FlushThen(t, "lock", "exit")
       \/ Go(t, IF hFileLock = t THEN "flush old" ELSE "idle")
    /\ UNCHANGED <<locks, settings, counters, lists>>

Finish(t) ==
    /\ t = Main /\ At(t, "idle") /\ FlushThen(t, "lock", "exit")
    /\ UNCHANGED <<locks, settings, counters, lists>>

Exit(t) ==
    /\ At(t, "exit") /\ running' = FALSE
    /\ UNCHANGED <<locks, settings, flow, collected, calls, lists>>

-----------------------------------------------------------------------------
\* A thread goes on with what it has begun.
Step(t) ==
    \/ BeginAdd(t) \/ Insert(t)
    \/ LockFile(t) \/ Detach(t) \/ Open(t) \/ OpenFails(t) \/ Write(t) \/ EndFlush(t)
    \/ LockToChange(t) \/ CreatePath(t) \/ FlushOld(t) \/ Replace(t) \/ Duplicate(t)
    \/ Release(t) \/ Killer(t) \/ Exit(t)

Next ==
    \E t \in Threads :
        \/ Step(t) \/ Trace(t) \/ Flush(t) \/ OutOfMemory(t) \/ Finish(t)
        \/ \E p \in Paths \cup {NoPath} : SetPath(t, p)

Spec == Init /\ [][Next]_vars
\* The system schedules every thread, and gives a lock to those who wait for
\* it in the order in which they came: however often the others take it, a
\* thread gets it (an auto-reset event of the kernel wakes its first waiter).
FairSpec == Spec /\ \A t \in Threads : SF_vars(Step(t))

-----------------------------------------------------------------------------
Messages == [number : 1 .. MaxMessages, paths : SUBSET (Paths \cup {NoPath})]

Owns(t) == Current(t) \in Changing \cup Flushing

\* Types, and locks: a thread in the midst of a flush or of a change of the
\* path holds the file lock, so no two of them are (dbg.c, whose flush within a
\* change of the path neither takes nor releases it).
TypeOK ==
    /\ logging_enabled \in BOOLEAN /\ {log_path, path} \subseteq Paths \cup {NoPath}
    /\ dbg_log \in Seq(Messages) /\ lost \cup erased \subseteq Messages /\ unopened \subseteq lost
    /\ \A t \in Threads : old_dbg_log[t] \in Seq(Messages)
    /\ \A p \in Paths : files[p] \in Seq(Messages)
    /\ \A t \in Threads : Owns(t) => hFileLock = t

\* The messages of a file are in the order in which all threads have collected
\* them, none twice, however flushes and changes of the path come together
\* (winx_flush_dbg_log, which detaches the list long before it is saved).
InOrder ==
    \A p \in Paths : \A i, j \in DOMAIN files[p] :
        i < j => files[p][i].number < files[p][j].number

\* A message is saved only to a file which was in force, or was being put in
\* force, when the message was made (winx_set_dbg_log, which flushes the old
\* log first and releases the list lock before it replaces the path).
OwnFile ==
    \A p \in Paths : \A m \in ToSet(files[p]) : p \in m.paths

\* No two threads are in the midst of a flush or a change, and each file holds
\* its own messages, each once, in the order in which they were collected.
LogSound == TypeOK /\ InOrder /\ OwnFile

\* A message made while one path was in force, and memory never lacked to set
\* that path: a path set again is not flushed to, and is lost with its messages
\* when winx_wcsdup fails.
Settled(m) == \E p \in Paths \ unset : m.paths = {p}

\* winx_flush_dbg_log throws messages away when there is no path, and when the
\* file cannot be opened.  Without the latter none of them was made while a path
\* was in force and was not being changed.
LostOnlyWithoutPath == \A m \in lost \ unopened : ~Settled(m)

\* When logging is off (and its path is not just being changed), no message
\* made while a path was in force is left in the list, where a log opened
\* later would throw it away (the flag is set without the list lock).
NothingLeftBehind ==
    (hFileLock = Nobody /\ ~logging_enabled) => \A m \in ToSet(dbg_log) : ~Settled(m)

\* What becomes of a message: it is on its way, saved, thrown away by a flush,
\* or was in a file which has been deleted.
Kept(m) ==
    \/ m \in ToSet(dbg_log) \cup lost \cup erased
    \/ \E t \in Threads : m \in ToSet(old_dbg_log[t])
    \/ \E p \in Paths : m \in ToSet(files[p])
Accounted == \A n \in 1 .. collected : \E m \in Messages : m.number = n /\ Kept(m)

\* No message vanishes, whatever order flushes, changes of the path and messages
\* of other threads come in: what is not on its way, saved or deleted with its
\* file has been thrown away by a flush, and none which belongs to a path has,
\* nor is one left behind, except by a flush whose file could not be opened
\* (winx_flush_dbg_log, which detaches the list before it opens the file).
NothingLost == Accounted /\ LostOnlyWithoutPath /\ NothingLeftBehind

\* A thread whose allocation failed under the file lock, and whose killer
\* waits for that lock.
WaitsForItself(t) == at[t] = "lock" /\ hFileLock = t

\* Whatever a thread begins comes to an end, or the program does: nobody
\* waits for a lock for ever, except when memory is exhausted in
\* winx_create_path (mem.c, winx_heap_alloc; dbg.c, winx_set_dbg_log).
EveryCallReturns ==
    \A t \in Threads :
        at[t] # "idle" ~> (at[t] = "idle" \/ ~running \/ \E u \in Threads : WaitsForItself(u))
=============================================================================
