--------------------------- MODULE DebugLogProofs ---------------------------
(***************************************************************************)
(* What module DebugLog promises of the log, for every set of threads and  *)
(* of paths: messages are saved in order, each to a file of its own paths, *)
(* and none which belongs to one path is thrown away.                      *)
(***************************************************************************)
EXTENDS DebugLog, TLAPS

Steps ==
    Changing \cup Flushing \cup
    {"idle", "trace", "insert", "lock", "lock to change", "killer", "exit"}

Types ==
    /\ logging_enabled \in BOOLEAN
    /\ {log_path, path} \subseteq Paths \cup {NoPath} /\ unset \subseteq Paths
    /\ {hListLock, hFileLock} \subseteq Threads \cup {Nobody}
    /\ at \in [Threads -> Steps]
    /\ traced \in [Threads -> {"idle", "end of flush", "flush old", "duplicate", "release"}]
    /\ flushed \in [Threads -> {"idle", "exit", "replace"}]
    /\ aim \in [Threads -> SUBSET (Paths \cup {NoPath})]
    /\ collected \in 0 .. MaxMessages
    /\ dbg_log \in Seq(Messages)
    /\ lost \subseteq Messages /\ erased \subseteq Messages /\ unopened \subseteq lost
    /\ old_dbg_log \in [Threads -> Seq(Messages)]
    /\ files \in [Paths -> Seq(Messages)]

\* The step of a change of the path, or of the flush it makes.
Replacing(t) == Current(t) \in Flushing /\ flushed[t] = "replace"

\* Who holds the locks, and where.  Only the main thread changes the path, and
\* only it can be caught by the killer with the lock in hand.
HoldsRight(t) ==
    /\ at[t] = "insert" <=> hListLock = t
    /\ Owns(t) => hFileLock = t
    /\ hFileLock = t => Owns(t) \/ (t = Main /\ Current(t) \in {"killer", "lock"})
    /\ Current(t) \in Changing \/ at[t] = "lock to change" => t = Main
    /\ flushed[t] = "replace" => t = Main /\ Replacing(t)
    /\ old_dbg_log[t] # <<>> => at[t] \in {"open", "write"}
    /\ at[t] \in {"open", "write"} => log_path # NoPath

Locks == \A t \in Threads : HoldsRight(t)

\* The settings agree, but for a change of the path on its way.
Settings ==
    /\ ChangeUnderWay => (logging_enabled <=> path # NoPath)
    /\ Current(Main) = "duplicate" => path # NoPath
    /\ ~logging_enabled =>
        \/ log_path = NoPath
        \/ hFileLock = Main /\ (Replacing(Main) \/ Current(Main) \in {"flush old", "replace"})

\* The numbers of the messages in the order of their way to a file.
Ascends(s) == \A i, j \in DOMAIN s : i < j => s[i].number < s[j].number
Before(s, u) == \A i \in DOMAIN s, j \in DOMAIN u : s[i].number < u[j].number

Order ==
    /\ Ascends(dbg_log)
    /\ \A i \in DOMAIN dbg_log : dbg_log[i].number <= collected
    /\ \A t \in Threads :
        /\ Ascends(old_dbg_log[t]) /\ Before(old_dbg_log[t], dbg_log)
        /\ \A i \in DOMAIN old_dbg_log[t] : old_dbg_log[t][i].number <= collected
    /\ \A p \in Paths :
        /\ Ascends(files[p]) /\ Before(files[p], dbg_log)
        /\ \A i \in DOMAIN files[p] : files[p][i].number <= collected
        /\ \A t \in Threads : Before(files[p], old_dbg_log[t])

\* The change has passed the flush of the old log, or that flush its Detach.
Late ==
    \/ Current(Main) \in {"replace", "duplicate"}
    \/ Current(Main) \in {"open", "write", "end of flush"} /\ flushed[Main] = "replace"

Belongs(S) == \E p \in Paths \ unset : S = {p}

\* What holds of the paths of a message in the list, or about to be there.
Fits(S) ==
    /\ log_path # NoPath => log_path \in S
    /\ log_path = NoPath /\ Current(Main) # "duplicate" => ~Belongs(S)
    /\ Late => path \in S \/ (path = NoPath /\ log_path = NoPath)

Aimed ==
    /\ \A i \in DOMAIN dbg_log : Fits(dbg_log[i].paths)
    /\ \A t \in Threads : at[t] = "insert" => Fits(aim[t])
    /\ \A t \in Threads : \A i \in DOMAIN old_dbg_log[t] :
            log_path \in old_dbg_log[t][i].paths
    /\ \A p \in Paths : \A i \in DOMAIN files[p] : p \in files[p][i].paths
    /\ \A m \in lost \ unopened : ~Settled(m)

IInv == Types /\ Locks /\ Settings /\ Order /\ Aimed

-----------------------------------------------------------------------------
(* Lists of messages.                                                      *)

LEMMA NoMessages == <<>> \in Seq(Messages)
    OBVIOUS

\* A message put behind a list.
LEMMA Appended ==
    ASSUME NEW s \in Seq(Messages), NEW m \in Messages
    PROVE  /\ Append(s, m) \in Seq(Messages) /\ DOMAIN Append(s, m) = 1 .. Len(s) + 1
           /\ DOMAIN s = 1 .. Len(s) /\ Len(s) \in Nat
           /\ Append(s, m)[Len(s) + 1] = m
           /\ \A i \in 1 .. Len(s) : Append(s, m)[i] = s[i]
    OBVIOUS

\* A list without its first message.
LEMMA WithoutHead ==
    ASSUME NEW s \in Seq(Messages), s # <<>>
    PROVE  /\ Head(s) \in Messages /\ Head(s) = s[1] /\ 1 \in DOMAIN s
           /\ Tail(s) \in Seq(Messages)
           /\ \A i \in DOMAIN Tail(s) : i + 1 \in DOMAIN s /\ Tail(s)[i] = s[i + 1] /\ i \in 1 .. Len(s) - 1
           /\ DOMAIN s = 1 .. Len(s) /\ Len(s) \in Nat
    OBVIOUS

LEMMA ToSetOf ==
    ASSUME NEW s \in Seq(Messages)
    PROVE  /\ ToSet(s) \subseteq Messages
           /\ \A i \in DOMAIN s : s[i] \in Messages
           /\ \A m : m \in ToSet(s) <=> \E i \in DOMAIN s : s[i] = m
    BY DEF ToSet

LEMMA Numbers ==
    ASSUME NEW m \in Messages
    PROVE  m.number \in 1 .. MaxMessages /\ m.paths \subseteq Paths \cup {NoPath}
    BY DEF Messages

-----------------------------------------------------------------------------
(* The initial state, and the locks.                                       *)

USE LogAssumption
USE DEF At, Call, Go, TraceThen, Traced, FlushThen, locks, settings, flow, counters, fate

LEMMA InitIInv == Init => IInv
<1> SUFFICES ASSUME Init PROVE IInv
    OBVIOUS
<1>1. Types
    <2>1. /\ dbg_log \in Seq(Messages) /\ old_dbg_log \in [Threads -> Seq(Messages)]
          /\ files \in [Paths -> Seq(Messages)] /\ lost \subseteq Messages
        BY NoMessages DEF Init
    <2>2. /\ collected \in 0 .. MaxMessages /\ aim \in [Threads -> SUBSET (Paths \cup {NoPath})]
          /\ at \in [Threads -> Steps]
        BY LogAssumption DEF Init, Steps
    <2> QED
        BY <2>1, <2>2, LogAssumption DEF Init, Types
<1>2. Locks /\ Settings
    BY LogAssumption DEF Init, Locks, HoldsRight, Settings, Current, Owns, Replacing, Changing,
        Flushing, ChangeUnderWay
<1>3. Order
    BY DEF Init, Order, Ascends, Before
<1>4. Aimed
    BY DEF Init, Aimed
<1> QED
    BY <1>1, <1>2, <1>3, <1>4 DEF IInv

LEMMA TraceLocks ==
    ASSUME IInv, NEW t \in Threads, Trace(t)
    PROVE  Types' /\ Locks' /\ Settings'
<1> USE DEF Trace, lists
<1>1. Types'
    BY DEF IInv, Types, Steps, Changing, Flushing
<1>2. Locks'
    <2> SUFFICES ASSUME NEW u \in Threads PROVE HoldsRight(u)'
        BY DEF Locks
    <2> USE DEF IInv, Types, Locks, HoldsRight, Owns, Replacing, Current, Steps, Changing,
            Flushing
    <2> QED
        OBVIOUS
<1>3. Settings'
    BY DEF IInv, Types, Locks, HoldsRight, Settings, ChangeUnderWay, Owns, Replacing, Current,
        Steps, Changing, Flushing
<1> QED
    BY <1>1, <1>2, <1>3

LEMMA BeginAddLocks ==
    ASSUME IInv, NEW t \in Threads, BeginAdd(t)
    PROVE  Types' /\ Locks' /\ Settings'
<1> USE DEF BeginAdd, lists
<1>1. Types'
    <2>1. InForce \subseteq Paths \cup {NoPath}
        BY DEF IInv, Types, InForce
    <2>2. aim' \in [Threads -> SUBSET (Paths \cup {NoPath})]
        BY ZenonT(40), <2>1 DEF IInv, Types
    <2>3. at' \in [Threads -> Steps]
        BY ZenonT(40) DEF IInv, Types, Steps, Flushing, Changing
    <2> QED
        BY <2>2, <2>3 DEF IInv, Types
<1>2. Locks'
    <2> SUFFICES ASSUME NEW u \in Threads PROVE HoldsRight(u)'
        BY DEF Locks
    <2> USE DEF IInv, Types, Locks, HoldsRight, Owns, Replacing, Current, Steps, Changing,
            Flushing
    <2>1. CASE u = t
        BY ZenonT(40), <2>1
    <2>2. CASE u # t
        BY ZenonT(40), <2>2
    <2> QED
        BY <2>1, <2>2
<1>3. Settings'
    <2> USE DEF IInv, Types, Locks, HoldsRight, Settings, ChangeUnderWay, Owns, Replacing, Current,
        Steps, Changing, Flushing
    <2>1. CASE t = Main
        BY ZenonT(40), <2>1
    <2>2. CASE t # Main
        BY ZenonT(40), <2>2
    <2> QED
        BY <2>1, <2>2
<1> QED
    BY <1>1, <1>2, <1>3

LEMMA InsertLocks ==
    ASSUME IInv, NEW t \in Threads, Insert(t)
    PROVE  Types' /\ Locks' /\ Settings'
<1> USE DEF Insert, lists
<1>1. Types'
    <2> DEFINE m == [number |-> collected + 1, paths |-> aim[t]]
    <2>1. collected < MaxMessages => m \in Messages
        <3>1. aim[t] \in SUBSET (Paths \cup {NoPath}) /\ collected \in 0 .. MaxMessages
            BY DEF IInv, Types
        <3> QED
            BY <3>1, LogAssumption DEF Messages
    <2>2. dbg_log' \in Seq(Messages) /\ collected' \in 0 .. MaxMessages
        <3>1. CASE collected < MaxMessages /\ dbg_log' = Append(dbg_log, m) /\ collected' = collected + 1
            <4>1. m \in Messages /\ dbg_log \in Seq(Messages) /\ collected \in 0 .. MaxMessages
                BY <2>1, <3>1 DEF IInv, Types
            <4>2. Append(dbg_log, m) \in Seq(Messages)
                BY ONLY <4>1, Appended
            <4> QED
                BY ONLY <3>1, <4>1, <4>2, LogAssumption
        <3> QED
            BY <3>1 DEF IInv, Types
    <2> QED
        BY <2>2 DEF IInv, Types, Steps, Changing, Flushing
<1>2. Locks'
    <2> SUFFICES ASSUME NEW u \in Threads PROVE HoldsRight(u)'
        BY DEF Locks
    <2> USE DEF IInv, Types, Locks, HoldsRight, Owns, Replacing, Current, Steps, Changing,
            Flushing
    <2> QED
        BY ZenonT(40)
<1>3. Settings'
    BY DEF IInv, Types, Locks, HoldsRight, Settings, ChangeUnderWay, Owns, Replacing, Current,
        Steps, Changing, Flushing
<1> QED
    BY <1>1, <1>2, <1>3

LEMMA FlushLocks ==
    ASSUME IInv, NEW t \in Threads, Flush(t)
    PROVE  Types' /\ Locks' /\ Settings'
<1> USE DEF Flush, lists
<1>1. Types'
    BY DEF IInv, Types, Steps, Changing, Flushing
<1>2. Locks'
    <2> SUFFICES ASSUME NEW u \in Threads PROVE HoldsRight(u)'
        BY DEF Locks
    <2> USE DEF IInv, Types, Locks, HoldsRight, Owns, Replacing, Current, Steps, Changing,
            Flushing
    <2> QED
        OBVIOUS
<1>3. Settings'
    BY DEF IInv, Types, Locks, HoldsRight, Settings, ChangeUnderWay, Owns, Replacing, Current,
        Steps, Changing, Flushing
<1> QED
    BY <1>1, <1>2, <1>3

LEMMA LockFileLocks ==
    ASSUME IInv, NEW t \in Threads, LockFile(t)
    PROVE  Types' /\ Locks' /\ Settings'
<1> USE DEF LockFile, lists
<1>1. Types'
    BY DEF IInv, Types, Steps, Changing, Flushing
<1>2. Locks'
    <2> SUFFICES ASSUME NEW u \in Threads PROVE HoldsRight(u)'
        BY DEF Locks
    <2> USE DEF IInv, Types, Locks, HoldsRight, Owns, Replacing, Current, Steps, Changing,
            Flushing
    <2> QED
        OBVIOUS
<1>3. Settings'
    BY DEF IInv, Types, Locks, HoldsRight, Settings, ChangeUnderWay, Owns, Replacing, Current,
        Steps, Changing, Flushing
<1> QED
    BY <1>1, <1>2, <1>3

LEMMA DetachLocks ==
    ASSUME IInv, NEW t \in Threads, Detach(t)
    PROVE  Types' /\ Locks' /\ Settings'
<1> USE DEF Detach, lists
<1>1. Types'
    <2>1. /\ dbg_log' \in Seq(Messages) /\ lost' \subseteq Messages
          /\ old_dbg_log' \in [Threads -> Seq(Messages)]
        <3>1. dbg_log \in Seq(Messages) /\ ToSet(dbg_log) \subseteq Messages
            BY ToSetOf DEF IInv, Types
        <3> QED
            BY ZenonT(40), <3>1, NoMessages DEF IInv, Types
    <2> QED
        BY ZenonT(40), <2>1 DEF IInv, Types, Steps, Changing, Flushing
<1>2. Locks'
    <2> SUFFICES ASSUME NEW u \in Threads PROVE HoldsRight(u)'
        BY DEF Locks
    <2> USE DEF IInv, Types, Locks, HoldsRight, Owns, Replacing, Current, Steps, Changing,
            Flushing
    <2>1. CASE u = t /\ (dbg_log = <<>> \/ log_path = NoPath)
        BY ZenonT(40), <2>1
    <2>2. CASE u = t /\ ~(dbg_log = <<>> \/ log_path = NoPath)
        BY ZenonT(40), <2>2
    <2>3. CASE u # t
        BY ZenonT(40), <2>3
    <2> QED
        BY <2>1, <2>2, <2>3
<1>3. Settings'
    <2> USE DEF IInv, Types, Locks, HoldsRight, Settings, ChangeUnderWay, Owns, Replacing, Current,
        Steps, Changing, Flushing
    <2>1. CASE t = Main
        <3>1. CASE dbg_log = <<>> \/ log_path = NoPath
            BY ZenonT(40), <2>1, <3>1
        <3>2. CASE ~(dbg_log = <<>> \/ log_path = NoPath)
            BY ZenonT(40), <2>1, <3>2
        <3> QED
            BY <3>1, <3>2
    <2>2. CASE t # Main
        BY ZenonT(40), <2>2
    <2> QED
        BY <2>1, <2>2
<1> QED
    BY <1>1, <1>2, <1>3

LEMMA OpenLocks ==
    ASSUME IInv, NEW t \in Threads, Open(t)
    PROVE  Types' /\ Locks' /\ Settings'
<1> USE DEF Open, lists
<1>1. Types'
    BY DEF IInv, Types, Steps, Changing, Flushing
<1>2. Locks'
    <2> SUFFICES ASSUME NEW u \in Threads PROVE HoldsRight(u)'
        BY DEF Locks
    <2> USE DEF IInv, Types, Locks, HoldsRight, Owns, Replacing, Current, Steps, Changing,
            Flushing
    <2> QED
        OBVIOUS
<1>3. Settings'
    BY DEF IInv, Types, Locks, HoldsRight, Settings, ChangeUnderWay, Owns, Replacing, Current,
        Steps, Changing, Flushing
<1> QED
    BY <1>1, <1>2, <1>3

LEMMA OpenFailsLocks ==
    ASSUME IInv, NEW t \in Threads, OpenFails(t)
    PROVE  Types' /\ Locks' /\ Settings'
<1> USE DEF OpenFails, lists
<1>1. Types'
    <2>1. old_dbg_log' \in [Threads -> Seq(Messages)]
        BY NoMessages DEF IInv, Types
    <2>2. ToSet(old_dbg_log[t]) \subseteq Messages
        BY ToSetOf DEF IInv, Types
    <2>3. lost' \subseteq Messages /\ erased' \subseteq Messages /\ unopened' \subseteq lost'
        BY <2>2 DEF IInv, Types
    <2> QED
        BY <2>1, <2>3 DEF IInv, Types, Steps, Changing, Flushing
<1>2. Locks'
    <2> SUFFICES ASSUME NEW u \in Threads PROVE HoldsRight(u)'
        BY DEF Locks
    <2> USE DEF IInv, Types, Locks, HoldsRight, Owns, Replacing, Current, Steps, Changing,
            Flushing
    <2> QED
        OBVIOUS
<1>3. Settings'
    BY DEF IInv, Types, Locks, HoldsRight, Settings, ChangeUnderWay, Owns, Replacing, Current,
        Steps, Changing, Flushing
<1> QED
    BY <1>1, <1>2, <1>3

LEMMA WriteLocks ==
    ASSUME IInv, NEW t \in Threads, Write(t)
    PROVE  Types' /\ Locks' /\ Settings'
<1> USE DEF Write, lists
<1>1. Types'
    <2>1. /\ old_dbg_log' \in [Threads -> Seq(Messages)]
          /\ files' \in [Paths -> Seq(Messages)]
        <3>1. CASE old_dbg_log[t] = <<>>
            BY <3>1 DEF IInv, Types
        <3>2. CASE old_dbg_log[t] # <<>>
            <4>1. log_path \in Paths
                BY DEF IInv, Types, Locks, HoldsRight
            <4>2. Head(old_dbg_log[t]) \in Messages /\ Tail(old_dbg_log[t]) \in Seq(Messages)
                BY <3>2, WithoutHead DEF IInv, Types
            <4>3. Append(files[log_path], Head(old_dbg_log[t])) \in Seq(Messages)
                BY <4>1, <4>2, Appended DEF IInv, Types
            <4> QED
                BY ZenonT(40), <3>2, <4>1, <4>2, <4>3 DEF IInv, Types
        <3> QED
            BY <3>1, <3>2
    <2> QED
        BY <2>1 DEF IInv, Types, Steps, Changing, Flushing
<1>2. Locks'
    <2> SUFFICES ASSUME NEW u \in Threads PROVE HoldsRight(u)'
        BY DEF Locks
    <2> USE DEF IInv, Types, Locks, HoldsRight, Owns, Replacing, Current, Steps, Changing,
            Flushing
    <2>1. CASE u = t
        BY ZenonT(40), <2>1
    <2>2. CASE u # t
        BY ZenonT(40), <2>2
    <2> QED
        BY <2>1, <2>2
<1>3. Settings'
    <2> USE DEF IInv, Types, Locks, HoldsRight, Settings, ChangeUnderWay, Owns, Replacing, Current,
        Steps, Changing, Flushing
    <2>1. CASE t = Main
        BY ZenonT(40), <2>1
    <2>2. CASE t # Main
        BY ZenonT(40), <2>2
    <2> QED
        BY <2>1, <2>2
<1> QED
    BY <1>1, <1>2, <1>3

LEMMA EndFlushLocks ==
    ASSUME IInv, NEW t \in Threads, EndFlush(t)
    PROVE  Types' /\ Locks' /\ Settings'
<1> USE DEF EndFlush, lists
<1>1. Types'
    BY DEF IInv, Types, Steps, Changing, Flushing
<1>2. Locks'
    <2> SUFFICES ASSUME NEW u \in Threads PROVE HoldsRight(u)'
        BY DEF Locks
    <2> USE DEF IInv, Types, Locks, HoldsRight, Owns, Replacing, Current, Steps, Changing,
            Flushing
    <2> QED
        BY ZenonT(40)
<1>3. Settings'
    BY DEF IInv, Types, Locks, HoldsRight, Settings, ChangeUnderWay, Owns, Replacing, Current,
        Steps, Changing, Flushing
<1> QED
    BY <1>1, <1>2, <1>3

LEMMA SetPathLocks ==
    ASSUME IInv, NEW t \in Threads, NEW p \in Paths \cup {NoPath}, SetPath(t, p)
    PROVE  Types' /\ Locks' /\ Settings'
<1> USE DEF SetPath, lists
<1>1. Types'
    <2>1. files' \in [Paths -> Seq(Messages)]
        BY NoMessages DEF IInv, Types
    <2>2. \A q \in Paths : ToSet(files[q]) \subseteq Messages
        BY ToSetOf DEF IInv, Types
    <2>3. erased' \subseteq Messages
        BY <2>2 DEF IInv, Types
    <2> QED
        BY <2>1, <2>3 DEF IInv, Types, Steps, Changing, Flushing
<1>2. Locks'
    <2> SUFFICES ASSUME NEW u \in Threads PROVE HoldsRight(u)'
        BY DEF Locks
    <2> USE DEF IInv, Types, Locks, HoldsRight, Owns, Replacing, Current, Steps, Changing,
            Flushing
    <2> QED
        OBVIOUS
<1>3. Settings'
    BY DEF IInv, Types, Locks, HoldsRight, Settings, ChangeUnderWay, Owns, Replacing, Current,
        Steps, Changing, Flushing
<1> QED
    BY <1>1, <1>2, <1>3

LEMMA LockToChangeLocks ==
    ASSUME IInv, NEW t \in Threads, LockToChange(t)
    PROVE  Types' /\ Locks' /\ Settings'
<1> USE DEF LockToChange, lists
<1>1. Types'
    BY DEF IInv, Types, Steps, Changing, Flushing
<1>2. Locks'
    <2> SUFFICES ASSUME NEW u \in Threads PROVE HoldsRight(u)'
        BY DEF Locks
    <2> USE DEF IInv, Types, Locks, HoldsRight, Owns, Replacing, Current, Steps, Changing,
            Flushing
    <2> QED
        OBVIOUS
<1>3. Settings'
    BY DEF IInv, Types, Locks, HoldsRight, Settings, ChangeUnderWay, Owns, Replacing, Current,
        Steps, Changing, Flushing
<1> QED
    BY <1>1, <1>2, <1>3

LEMMA CreatePathLocks ==
    ASSUME IInv, NEW t \in Threads, CreatePath(t)
    PROVE  Types' /\ Locks' /\ Settings'
<1> USE DEF CreatePath, lists
<1>1. Types'
    BY DEF IInv, Types, Steps, Changing, Flushing
<1>2. Locks'
    <2> SUFFICES ASSUME NEW u \in Threads PROVE HoldsRight(u)'
        BY DEF Locks
    <2> USE DEF IInv, Types, Locks, HoldsRight, Owns, Replacing, Current, Steps, Changing,
            Flushing
    <2> QED
        BY ZenonT(40)
<1>3. Settings'
    BY DEF IInv, Types, Locks, HoldsRight, Settings, ChangeUnderWay, Owns, Replacing, Current,
        Steps, Changing, Flushing
<1> QED
    BY <1>1, <1>2, <1>3

LEMMA FlushOldLocks ==
    ASSUME IInv, NEW t \in Threads, FlushOld(t)
    PROVE  Types' /\ Locks' /\ Settings'
<1> USE DEF FlushOld, lists
<1>1. Types'
    BY ZenonT(40) DEF IInv, Types, Steps, Changing, Flushing
<1>2. Locks'
    <2> SUFFICES ASSUME NEW u \in Threads PROVE HoldsRight(u)'
        BY DEF Locks
    <2> USE DEF IInv, Types, Locks, HoldsRight, Owns, Replacing, Current, Steps, Changing,
            Flushing
    <2>1. CASE u = t
        BY ZenonT(40), <2>1
    <2>2. CASE u # t
        BY ZenonT(40), <2>2
    <2> QED
        BY <2>1, <2>2
<1>3. Settings'
    BY ZenonT(40) DEF IInv, Types, Locks, HoldsRight, Settings, ChangeUnderWay, Owns, Replacing, Current,
        Steps, Changing, Flushing
<1> QED
    BY <1>1, <1>2, <1>3

LEMMA ReplaceLocks ==
    ASSUME IInv, NEW t \in Threads, Replace(t)
    PROVE  Types' /\ Locks' /\ Settings'
<1> USE DEF Replace, lists
<1>1. Types'
    BY DEF IInv, Types, Steps, Changing, Flushing
<1>2. Locks'
    <2> SUFFICES ASSUME NEW u \in Threads PROVE HoldsRight(u)'
        BY DEF Locks
    <2> USE DEF IInv, Types, Locks, HoldsRight, Owns, Replacing, Current, Steps, Changing,
            Flushing
    <2>1. CASE u = t
        BY ZenonT(40), <2>1
    <2>2. CASE u # t
        BY ZenonT(40), <2>2
    <2> QED
        BY <2>1, <2>2
<1>3. Settings'
    BY ZenonT(40) DEF IInv, Types, Locks, HoldsRight, Settings, ChangeUnderWay, Owns, Replacing, Current,
        Steps, Changing, Flushing
<1> QED
    BY <1>1, <1>2, <1>3

LEMMA DuplicateLocks ==
    ASSUME IInv, NEW t \in Threads, Duplicate(t)
    PROVE  Types' /\ Locks' /\ Settings'
<1> USE DEF Duplicate, lists
<1>1. Types'
    <2>1. path \in Paths
        BY DEF IInv, Types, Locks, HoldsRight, Settings, Current, Changing
    <2> QED
        BY <2>1 DEF IInv, Types, Steps, Changing, Flushing
<1>2. Locks'
    <2> SUFFICES ASSUME NEW u \in Threads PROVE HoldsRight(u)'
        BY DEF Locks
    <2> USE DEF IInv, Types, Locks, HoldsRight, Owns, Replacing, Current, Steps, Changing,
            Flushing
    <2> QED
        BY ZenonT(40)
<1>3. Settings'
    BY DEF IInv, Types, Locks, HoldsRight, Settings, ChangeUnderWay, Owns, Replacing, Current,
        Steps, Changing, Flushing
<1> QED
    BY <1>1, <1>2, <1>3

LEMMA ReleaseLocks ==
    ASSUME IInv, NEW t \in Threads, Release(t)
    PROVE  Types' /\ Locks' /\ Settings'
<1> USE DEF Release, lists
<1>1. Types'
    BY DEF IInv, Types, Steps, Changing, Flushing
<1>2. Locks'
    <2> SUFFICES ASSUME NEW u \in Threads PROVE HoldsRight(u)'
        BY DEF Locks
    <2> USE DEF IInv, Types, Locks, HoldsRight, Owns, Replacing, Current, Steps, Changing,
            Flushing
    <2> QED
        OBVIOUS
<1>3. Settings'
    BY DEF IInv, Types, Locks, HoldsRight, Settings, ChangeUnderWay, Owns, Replacing, Current,
        Steps, Changing, Flushing
<1> QED
    BY <1>1, <1>2, <1>3

LEMMA OutOfMemoryLocks ==
    ASSUME IInv, NEW t \in Threads, OutOfMemory(t)
    PROVE  Types' /\ Locks' /\ Settings'
<1> USE DEF OutOfMemory, lists
<1>1. Types'
    BY DEF IInv, Types, Steps, Changing, Flushing
<1>2. Locks'
    <2> SUFFICES ASSUME NEW u \in Threads PROVE HoldsRight(u)'
        BY DEF Locks
    <2> USE DEF IInv, Types, Locks, HoldsRight, Owns, Replacing, Current, Steps, Changing,
            Flushing
    <2> QED
        OBVIOUS
<1>3. Settings'
    BY DEF IInv, Types, Locks, HoldsRight, Settings, ChangeUnderWay, Owns, Replacing, Current,
        Steps, Changing, Flushing
<1> QED
    BY <1>1, <1>2, <1>3

LEMMA KillerLocks ==
    ASSUME IInv, NEW t \in Threads, Killer(t)
    PROVE  Types' /\ Locks' /\ Settings'
<1> USE DEF Killer, lists
<1>1. Types'
    BY DEF IInv, Types, Steps, Changing, Flushing
<1>2. Locks'
    <2> SUFFICES ASSUME NEW u \in Threads PROVE HoldsRight(u)'
        BY DEF Locks
    <2> USE DEF IInv, Types, Locks, HoldsRight, Owns, Replacing, Current, Steps, Changing,
            Flushing
    <2>1. CASE u = t
        BY ZenonT(40), <2>1
    <2>2. CASE u # t
        BY ZenonT(40), <2>2
    <2> QED
        BY <2>1, <2>2
<1>3. Settings'
    BY ZenonT(40) DEF IInv, Types, Locks, HoldsRight, Settings, ChangeUnderWay, Owns, Replacing, Current,
        Steps, Changing, Flushing
<1> QED
    BY <1>1, <1>2, <1>3

LEMMA FinishLocks ==
    ASSUME IInv, NEW t \in Threads, Finish(t)
    PROVE  Types' /\ Locks' /\ Settings'
<1> USE DEF Finish, lists
<1>1. Types'
    BY DEF IInv, Types, Steps, Changing, Flushing
<1>2. Locks'
    <2> SUFFICES ASSUME NEW u \in Threads PROVE HoldsRight(u)'
        BY DEF Locks
    <2> USE DEF IInv, Types, Locks, HoldsRight, Owns, Replacing, Current, Steps, Changing,
            Flushing
    <2> QED
        OBVIOUS
<1>3. Settings'
    BY DEF IInv, Types, Locks, HoldsRight, Settings, ChangeUnderWay, Owns, Replacing, Current,
        Steps, Changing, Flushing
<1> QED
    BY <1>1, <1>2, <1>3

LEMMA ExitLocks ==
    ASSUME IInv, NEW t \in Threads, Exit(t)
    PROVE  Types' /\ Locks' /\ Settings'
<1> USE DEF Exit, lists
<1>1. Types'
    BY DEF IInv, Types, Steps, Changing, Flushing
<1>2. Locks'
    <2> SUFFICES ASSUME NEW u \in Threads PROVE HoldsRight(u)'
        BY DEF Locks
    <2> USE DEF IInv, Types, Locks, HoldsRight, Owns, Replacing, Current, Steps, Changing,
            Flushing
    <2> QED
        OBVIOUS
<1>3. Settings'
    BY DEF IInv, Types, Locks, HoldsRight, Settings, ChangeUnderWay, Owns, Replacing, Current,
        Steps, Changing, Flushing
<1> QED
    BY <1>1, <1>2, <1>3


-----------------------------------------------------------------------------
(* The order of the messages.                                              *)

LEMMA OrderKept ==
    ASSUME Order, UNCHANGED <<dbg_log, old_dbg_log, files, collected>>
    PROVE  Order'
BY DEF Order, Ascends, Before

\* The lists have messages in them, with numbers to compare.
LEMMA NumbersAreNumbers ==
    ASSUME Types
    PROVE  /\ \A i \in DOMAIN dbg_log : dbg_log[i].number \in Nat
           /\ \A u \in Threads : \A i \in DOMAIN old_dbg_log[u] : old_dbg_log[u][i].number \in Nat
           /\ \A p \in Paths : \A i \in DOMAIN files[p] : files[p][i].number \in Nat
           /\ collected \in Nat
<1>1. \A s \in Seq(Messages) : \A i \in DOMAIN s : s[i].number \in Nat
    BY LogAssumption, ToSetOf, Numbers
<1>2. /\ dbg_log \in Seq(Messages) /\ collected \in 0 .. MaxMessages
      /\ \A u \in Threads : old_dbg_log[u] \in Seq(Messages)
      /\ \A p \in Paths : files[p] \in Seq(Messages)
    BY DEF Types
<1>3. collected \in Nat
    BY <1>2, LogAssumption
<1> QED
    BY <1>1, <1>2, <1>3

LEMMA InsertOrder ==
    ASSUME IInv, NEW t \in Threads, Insert(t)
    PROVE  Order'
<1> DEFINE m == [number |-> collected + 1, paths |-> aim[t]]
           n == Len(dbg_log)
<1>1. CASE UNCHANGED <<collected, dbg_log>>
    BY <1>1, OrderKept DEF IInv, Insert
<1>2. CASE collected < MaxMessages /\ collected' = collected + 1 /\ dbg_log' = Append(dbg_log, m)
    <2>1. m \in Messages /\ dbg_log \in Seq(Messages) /\ collected \in Nat /\ m.number = collected + 1
        <3>1. aim[t] \in SUBSET (Paths \cup {NoPath}) /\ collected \in 0 .. MaxMessages
            BY DEF IInv, Types
        <3>2. collected \in Nat /\ collected + 1 \in 1 .. MaxMessages
            BY <1>2, <3>1, LogAssumption
        <3>3. m \in Messages
            BY ONLY <3>1, <3>2 DEF Messages
        <3> QED
            BY <3>2, <3>3 DEF IInv, Types
    <2>2. /\ n \in Nat /\ DOMAIN dbg_log = 1 .. n /\ DOMAIN dbg_log' = 1 .. n + 1
          /\ dbg_log'[n + 1].number = collected + 1
          /\ \A i \in 1 .. n : dbg_log'[i] = dbg_log[i]
        <3> HIDE DEF m
        <3> QED
            BY <1>2, <2>1, Appended
    <2>3. /\ UNCHANGED <<old_dbg_log, files>> /\ collected' = collected + 1
        BY <1>2 DEF Insert
    <2>4. \A i \in DOMAIN dbg_log : dbg_log[i].number <= collected /\ dbg_log[i].number \in Nat
        BY NumbersAreNumbers DEF IInv, Order
    <2> HIDE DEF m, n
    <2>5. \A i \in DOMAIN dbg_log' : \/ i \in DOMAIN dbg_log /\ dbg_log'[i] = dbg_log[i]
                                     \/ i = n + 1 /\ dbg_log'[i].number = collected + 1
        BY <2>2
    <2>6. Ascends(dbg_log)' /\ \A i \in DOMAIN dbg_log' : dbg_log'[i].number <= collected'
        BY <2>1, <2>2, <2>3, <2>4, <2>5 DEF IInv, Order, Ascends
    <2>7. ASSUME NEW s \in Seq(Messages), Before(s, dbg_log),
                 \A i \in DOMAIN s : s[i].number <= collected /\ s[i].number \in Nat
          PROVE  /\ \A i \in DOMAIN s : s[i].number <= collected'
                 /\ Before(s, dbg_log')
        BY <2>1, <2>3, <2>5, <2>7 DEF Before
    <2>8. ASSUME NEW u \in Threads
          PROVE  /\ Ascends(old_dbg_log[u])' /\ Before(old_dbg_log[u], dbg_log)'
                 /\ \A i \in DOMAIN old_dbg_log'[u] : old_dbg_log'[u][i].number <= collected'
                 /\ \A p \in Paths : Before(files[p], old_dbg_log[u])'
        <3>1. /\ old_dbg_log[u] \in Seq(Messages) /\ Ascends(old_dbg_log[u])
              /\ Before(old_dbg_log[u], dbg_log)
              /\ \A i \in DOMAIN old_dbg_log[u] :
                    old_dbg_log[u][i].number <= collected /\ old_dbg_log[u][i].number \in Nat
            BY NumbersAreNumbers DEF IInv, Types, Order
        <3>2. \A p \in Paths : Before(files[p], old_dbg_log[u])
            BY DEF IInv, Order
        <3> QED
            BY <2>3, <2>7, <3>1, <3>2
    <2>9. ASSUME NEW p \in Paths
          PROVE  /\ Ascends(files[p])' /\ Before(files[p], dbg_log)'
                 /\ \A i \in DOMAIN files'[p] : files'[p][i].number <= collected'
        <3>1. /\ files[p] \in Seq(Messages) /\ Ascends(files[p]) /\ Before(files[p], dbg_log)
              /\ \A i \in DOMAIN files[p] :
                    files[p][i].number <= collected /\ files[p][i].number \in Nat
            BY NumbersAreNumbers DEF IInv, Types, Order
        <3> QED
            BY <2>3, <2>7, <3>1
    <2> QED
        BY <2>6, <2>8, <2>9 DEF Order
<1> QED
    BY <1>1, <1>2 DEF Insert

LEMMA DetachOrder ==
    ASSUME IInv, NEW t \in Threads, Detach(t)
    PROVE  Order'
<1>1. /\ dbg_log' = <<>> /\ files' = files /\ collected' = collected
      /\ \A u \in Threads : old_dbg_log'[u] \in {old_dbg_log[u], dbg_log}
    BY DEF Detach, IInv, Types, counters
<1>2. ASSUME NEW u \in Threads
      PROVE  /\ Ascends(old_dbg_log[u])' /\ Before(old_dbg_log[u], dbg_log)'
             /\ \A i \in DOMAIN old_dbg_log'[u] : old_dbg_log'[u][i].number <= collected'
             /\ \A p \in Paths : Before(files[p], old_dbg_log[u])'
    BY <1>1 DEF IInv, Order, Ascends, Before
<1> QED
    BY <1>1, <1>2 DEF IInv, Order, Ascends, Before

LEMMA OpenFailsOrder ==
    ASSUME IInv, NEW t \in Threads, OpenFails(t)
    PROVE  Order'
<1>1. /\ dbg_log' = dbg_log /\ files' = files /\ collected' = collected
      /\ \A u \in Threads : old_dbg_log'[u] \in {old_dbg_log[u], <<>>}
    BY DEF OpenFails, IInv, Types, counters
<1> QED
    BY <1>1 DEF IInv, Order, Ascends, Before

LEMMA SetPathOrder ==
    ASSUME IInv, NEW t \in Threads, NEW p \in Paths \cup {NoPath}, SetPath(t, p)
    PROVE  Order'
<1>1. /\ dbg_log' = dbg_log /\ old_dbg_log' = old_dbg_log /\ collected' = collected
      /\ \A q \in Paths : files'[q] \in {files[q], <<>>}
    BY DEF SetPath, IInv, Types, counters, Call
<1> QED
    BY <1>1 DEF IInv, Order, Ascends, Before

\* Only the thread which holds the file lock has detached messages.
LEMMA OneOwner ==
    ASSUME IInv, NEW t \in Threads, hFileLock = t, NEW u \in Threads, u # t
    PROVE  old_dbg_log[u] = <<>>
BY DEF IInv, Locks, HoldsRight, Owns, Current, Flushing

LEMMA WriteOrder ==
    ASSUME IInv, NEW t \in Threads, Write(t)
    PROVE  Order'
<1> DEFINE old == old_dbg_log[t]
           n == Len(files[log_path])
<1>1. CASE old = <<>>
    BY <1>1, OrderKept DEF IInv, Write, counters
<1>2. CASE old # <<>>
    <2>1. log_path \in Paths /\ hFileLock = t /\ old \in Seq(Messages) /\ files[log_path] \in Seq(Messages)
        BY DEF IInv, Types, Locks, HoldsRight, Owns, Current, Flushing, Write, At
    <2>2. /\ dbg_log' = dbg_log /\ collected' = collected
          /\ files' = [files EXCEPT ![log_path] = Append(files[log_path], Head(old))]
          /\ old_dbg_log' = [old_dbg_log EXCEPT ![t] = Tail(old)]
        BY <1>2 DEF Write, counters
    <2>3. /\ Head(old) \in Messages /\ Head(old) = old[1] /\ 1 \in DOMAIN old
          /\ \A i \in DOMAIN Tail(old) :
                i \in Nat /\ i > 0 /\ i + 1 \in DOMAIN old /\ Tail(old)[i] = old[i + 1]
        BY <1>2, <2>1, WithoutHead
    <2>4. \A i \in DOMAIN Append(files[log_path], Head(old)) :
            \/ i \in DOMAIN files[log_path] /\ i < n + 1
                    /\ Append(files[log_path], Head(old))[i] = files[log_path][i]
            \/ i = n + 1 /\ Append(files[log_path], Head(old))[i] = old[1]
        BY <2>1, <2>3, Appended
    <2>5. ASSUME NEW p \in Paths, NEW i \in DOMAIN files'[p]
          PROVE  \/ i \in DOMAIN files[p] /\ files'[p][i] = files[p][i] /\ (p = log_path => i < n + 1)
                 \/ p = log_path /\ i = n + 1 /\ files'[p][i] = old[1]
        BY <2>1, <2>2, <2>4 DEF IInv, Types
    <2>6. ASSUME NEW u \in Threads
          PROVE  \/ u # t /\ old_dbg_log'[u] = <<>>
                 \/ u = t /\ \A i \in DOMAIN old_dbg_log'[u] :
                        i \in Nat /\ i > 0 /\ i + 1 \in DOMAIN old /\ old_dbg_log'[u][i] = old[i + 1]
        BY <2>1, <2>2, <2>3, OneOwner DEF IInv, Types
    <2>7. /\ \A i \in DOMAIN old : old[i].number <= collected /\ old[i].number \in Nat
          /\ Ascends(old) /\ Before(old, dbg_log) /\ \A p \in Paths : Before(files[p], old)
          /\ DOMAIN old \subseteq Nat /\ collected \in Nat /\ n \in Nat /\ DOMAIN files[log_path] = 1 .. n
        <3>1. DOMAIN old \subseteq Nat /\ n \in Nat /\ DOMAIN files[log_path] = 1 .. n
            BY <2>1
        <3> QED
            BY <3>1, NumbersAreNumbers DEF IInv, Order
    <2> HIDE DEF old, n
    <2>8. ASSUME NEW u \in Threads
          PROVE  /\ Ascends(old_dbg_log[u])' /\ Before(old_dbg_log[u], dbg_log)'
                 /\ \A i \in DOMAIN old_dbg_log'[u] : old_dbg_log'[u][i].number <= collected'
        <3>1. CASE u # t
            BY <2>6, <3>1 DEF Ascends, Before
        <3>2. CASE u = t
            <4>1. /\ dbg_log' = dbg_log /\ collected' = collected
                  /\ \A i \in DOMAIN old_dbg_log'[u] :
                        i \in Nat /\ i + 1 \in DOMAIN old /\ old_dbg_log'[u][i] = old[i + 1]
                BY <2>2, <2>6, <3>2
            <4>2. Ascends(old_dbg_log[u])'
                BY <2>7, <4>1 DEF Ascends
            <4>3. Before(old_dbg_log[u], dbg_log)'
                BY <2>7, <4>1 DEF Before
            <4>4. \A i \in DOMAIN old_dbg_log'[u] : old_dbg_log'[u][i].number <= collected'
                BY <2>7, <4>1
            <4> QED
                BY <4>2, <4>3, <4>4
        <3> QED
            BY <3>1, <3>2
    <2>9. ASSUME NEW p \in Paths
          PROVE  /\ Ascends(files[p])' /\ Before(files[p], dbg_log)'
                 /\ \A i \in DOMAIN files'[p] : files'[p][i].number <= collected'
        <3>1. /\ Ascends(files[p]) /\ Before(files[p], dbg_log) /\ Before(files[p], old)
              /\ \A i \in DOMAIN files[p] : files[p][i].number <= collected
            BY <2>7 DEF IInv, Order
        <3>2. Ascends(files[p])'
            BY <2>3, <2>5, <2>7, <3>1 DEF Ascends, Before
        <3>3. Before(files[p], dbg_log)'
            BY <2>2, <2>3, <2>5, <2>7, <3>1 DEF Before
        <3>4. \A i \in DOMAIN files'[p] : files'[p][i].number <= collected'
            BY <2>2, <2>3, <2>5, <2>7, <3>1
        <3> QED
            BY <3>2, <3>3, <3>4
    <2>10. ASSUME NEW p \in Paths, NEW u \in Threads
           PROVE  Before(files[p], old_dbg_log[u])'
        <3>1. CASE u # t
            BY <2>6, <3>1 DEF Before
        <3>2. CASE u = t
            <4>1. Before(files[p], old)
                BY <2>7
            <4>2. SUFFICES ASSUME NEW i \in DOMAIN files'[p], NEW j \in DOMAIN old_dbg_log'[u]
                           PROVE  files'[p][i].number < old_dbg_log'[u][j].number
                BY DEF Before
            <4>3. j + 1 \in DOMAIN old /\ j \in Nat /\ j > 0 /\ old_dbg_log'[u][j] = old[j + 1]
                BY <2>6, <3>2
            <4>4. old[1].number < old[j + 1].number
                BY <2>3, <2>7, <4>3 DEF Ascends
            <4> QED
                BY <2>5, <4>1, <4>3, <4>4 DEF Before
        <3> QED
            BY <3>1, <3>2
    <2> QED
        BY <2>2, <2>8, <2>9, <2>10 DEF IInv, Order, Ascends
<1> QED
    BY <1>1, <1>2

-----------------------------------------------------------------------------
(* The paths of the messages.                                              *)

\* The message which a thread is about to put in the list, and those there,
\* fit whenever a step leaves them alone and disturbs nothing they rest on.
LEMMA AimedKept ==
    ASSUME Aimed, UNCHANGED lists, \A S : Fits(S) => Fits(S)', unset \subseteq unset',
           \A u \in Threads : old_dbg_log[u] # <<>> => log_path' = log_path,
           \A u \in Threads : at'[u] = "insert" => at[u] = "insert" /\ aim'[u] = aim[u],
           IInv
    PROVE  Aimed'
<1>1. \A i \in DOMAIN dbg_log' : Fits(dbg_log[i].paths)'
    <2> SUFFICES ASSUME NEW i \in DOMAIN dbg_log' PROVE Fits(dbg_log[i].paths)'
        OBVIOUS
    <2>1. dbg_log' = dbg_log /\ Fits(dbg_log[i].paths)
        BY DEF Aimed, lists
    <2> DEFINE S == dbg_log[i].paths
    <2> QED
        BY <2>1 DEF Fits, Late, Belongs, Current
<1>2. \A u \in Threads : at'[u] = "insert" => Fits(aim[u])' /\ aim'[u] = aim[u]
    BY DEF Aimed
<1>3. \A u \in Threads : \A i \in DOMAIN old_dbg_log'[u] : log_path' \in old_dbg_log'[u][i].paths
    BY DEF Aimed, lists
<1>4. \A m \in lost' \ unopened' : ~Settled(m)'
    BY DEF Aimed, lists, Settled
<1>5. UNCHANGED <<dbg_log, files>>
    BY DEF lists
<1> QED
    BY <1>1, <1>2, <1>3, <1>4, <1>5 DEF Aimed, Fits, Late, Belongs, Current

LEMMA TraceAimed ==
    ASSUME IInv, NEW t \in Threads, Trace(t)
    PROVE  Order' /\ Aimed'
<1> USE DEF Trace
<1>1. UNCHANGED lists /\ collected' = collected
    OBVIOUS
<1>2. ASSUME NEW S, Fits(S)
      PROVE  Fits(S)'
    BY <1>2 DEF IInv, Types, Locks, HoldsRight, Settings, ChangeUnderWay, Owns, Replacing,
        Current, Changing, Flushing, Fits, Late, Belongs, Steps
<1>3. unset \subseteq unset'
    OBVIOUS
<1>4. \A u \in Threads : old_dbg_log[u] # <<>> => log_path' = log_path
    BY DEF IInv, Locks, HoldsRight, Owns, Current, Changing, Flushing
<1>5. \A u \in Threads : at'[u] = "insert" => at[u] = "insert" /\ aim'[u] = aim[u]
    BY DEF IInv, Types
<1>6. Order'
    BY <1>1, OrderKept DEF IInv, lists
<1> QED
    BY <1>1, <1>2, <1>3, <1>4, <1>5, <1>6, AimedKept DEF IInv

LEMMA FlushAimed ==
    ASSUME IInv, NEW t \in Threads, Flush(t)
    PROVE  Order' /\ Aimed'
<1> USE DEF Flush
<1>1. UNCHANGED lists /\ collected' = collected
    OBVIOUS
<1>2. ASSUME NEW S, Fits(S)
      PROVE  Fits(S)'
    BY <1>2 DEF IInv, Types, Locks, HoldsRight, Settings, ChangeUnderWay, Owns, Replacing,
        Current, Changing, Flushing, Fits, Late, Belongs, Steps
<1>3. unset \subseteq unset'
    OBVIOUS
<1>4. \A u \in Threads : old_dbg_log[u] # <<>> => log_path' = log_path
    BY DEF IInv, Locks, HoldsRight, Owns, Current, Changing, Flushing
<1>5. \A u \in Threads : at'[u] = "insert" => at[u] = "insert" /\ aim'[u] = aim[u]
    BY DEF IInv, Types
<1>6. Order'
    BY <1>1, OrderKept DEF IInv, lists
<1> QED
    BY <1>1, <1>2, <1>3, <1>4, <1>5, <1>6, AimedKept DEF IInv

LEMMA LockFileAimed ==
    ASSUME IInv, NEW t \in Threads, LockFile(t)
    PROVE  Order' /\ Aimed'
<1> USE DEF LockFile
<1>1. UNCHANGED lists /\ collected' = collected
    OBVIOUS
<1>2. ASSUME NEW S, Fits(S)
      PROVE  Fits(S)'
    BY <1>2 DEF IInv, Types, Locks, HoldsRight, Settings, ChangeUnderWay, Owns, Replacing,
        Current, Changing, Flushing, Fits, Late, Belongs, Steps
<1>3. unset \subseteq unset'
    OBVIOUS
<1>4. \A u \in Threads : old_dbg_log[u] # <<>> => log_path' = log_path
    BY DEF IInv, Locks, HoldsRight, Owns, Current, Changing, Flushing
<1>5. \A u \in Threads : at'[u] = "insert" => at[u] = "insert" /\ aim'[u] = aim[u]
    BY DEF IInv, Types
<1>6. Order'
    BY <1>1, OrderKept DEF IInv, lists
<1> QED
    BY <1>1, <1>2, <1>3, <1>4, <1>5, <1>6, AimedKept DEF IInv

LEMMA OpenAimed ==
    ASSUME IInv, NEW t \in Threads, Open(t)
    PROVE  Order' /\ Aimed'
<1> USE DEF Open
<1>1. UNCHANGED lists /\ collected' = collected
    OBVIOUS
<1>2. ASSUME NEW S, Fits(S)
      PROVE  Fits(S)'
    BY <1>2 DEF IInv, Types, Locks, HoldsRight, Settings, ChangeUnderWay, Owns, Replacing,
        Current, Changing, Flushing, Fits, Late, Belongs, Steps
<1>3. unset \subseteq unset'
    OBVIOUS
<1>4. \A u \in Threads : old_dbg_log[u] # <<>> => log_path' = log_path
    BY DEF IInv, Locks, HoldsRight, Owns, Current, Changing, Flushing
<1>5. \A u \in Threads : at'[u] = "insert" => at[u] = "insert" /\ aim'[u] = aim[u]
    BY DEF IInv, Types
<1>6. Order'
    BY <1>1, OrderKept DEF IInv, lists
<1> QED
    BY <1>1, <1>2, <1>3, <1>4, <1>5, <1>6, AimedKept DEF IInv

LEMMA EndFlushAimed ==
    ASSUME IInv, NEW t \in Threads, EndFlush(t)
    PROVE  Order' /\ Aimed'
<1> USE DEF EndFlush
<1>1. UNCHANGED lists /\ collected' = collected
    OBVIOUS
<1>2. ASSUME NEW S, Fits(S)
      PROVE  Fits(S)'
    BY <1>2 DEF IInv, Types, Locks, HoldsRight, Settings, ChangeUnderWay, Owns, Replacing,
        Current, Changing, Flushing, Fits, Late, Belongs, Steps
<1>3. unset \subseteq unset'
    OBVIOUS
<1>4. \A u \in Threads : old_dbg_log[u] # <<>> => log_path' = log_path
    BY DEF IInv, Locks, HoldsRight, Owns, Current, Changing, Flushing
<1>5. \A u \in Threads : at'[u] = "insert" => at[u] = "insert" /\ aim'[u] = aim[u]
    BY DEF IInv, Types
<1>6. Order'
    BY <1>1, OrderKept DEF IInv, lists
<1> QED
    BY <1>1, <1>2, <1>3, <1>4, <1>5, <1>6, AimedKept DEF IInv

LEMMA LockToChangeAimed ==
    ASSUME IInv, NEW t \in Threads, LockToChange(t)
    PROVE  Order' /\ Aimed'
<1> USE DEF LockToChange
<1>1. UNCHANGED lists /\ collected' = collected
    OBVIOUS
<1>2. ASSUME NEW S, Fits(S)
      PROVE  Fits(S)'
    BY <1>2 DEF IInv, Types, Locks, HoldsRight, Settings, ChangeUnderWay, Owns, Replacing,
        Current, Changing, Flushing, Fits, Late, Belongs, Steps
<1>3. unset \subseteq unset'
    OBVIOUS
<1>4. \A u \in Threads : old_dbg_log[u] # <<>> => log_path' = log_path
    BY DEF IInv, Locks, HoldsRight, Owns, Current, Changing, Flushing
<1>5. \A u \in Threads : at'[u] = "insert" => at[u] = "insert" /\ aim'[u] = aim[u]
    BY DEF IInv, Types
<1>6. Order'
    BY <1>1, OrderKept DEF IInv, lists
<1> QED
    BY <1>1, <1>2, <1>3, <1>4, <1>5, <1>6, AimedKept DEF IInv

LEMMA CreatePathAimed ==
    ASSUME IInv, NEW t \in Threads, CreatePath(t)
    PROVE  Order' /\ Aimed'
<1> USE DEF CreatePath
<1>1. UNCHANGED lists /\ collected' = collected
    OBVIOUS
<1>2. ASSUME NEW S, Fits(S)
      PROVE  Fits(S)'
    BY <1>2 DEF IInv, Types, Locks, HoldsRight, Settings, ChangeUnderWay, Owns, Replacing,
        Current, Changing, Flushing, Fits, Late, Belongs, Steps
<1>3. unset \subseteq unset'
    OBVIOUS
<1>4. \A u \in Threads : old_dbg_log[u] # <<>> => log_path' = log_path
    BY DEF IInv, Locks, HoldsRight, Owns, Current, Changing, Flushing
<1>5. \A u \in Threads : at'[u] = "insert" => at[u] = "insert" /\ aim'[u] = aim[u]
    BY DEF IInv, Types
<1>6. Order'
    BY <1>1, OrderKept DEF IInv, lists
<1> QED
    BY <1>1, <1>2, <1>3, <1>4, <1>5, <1>6, AimedKept DEF IInv

LEMMA FlushOldAimed ==
    ASSUME IInv, NEW t \in Threads, FlushOld(t)
    PROVE  Order' /\ Aimed'
<1> USE DEF FlushOld
<1>1. UNCHANGED lists /\ collected' = collected
    OBVIOUS
<1>2. ASSUME NEW S, Fits(S)
      PROVE  Fits(S)'
    <2>1. t = Main /\ Current(Main) = "flush old" /\ hFileLock = Main
        BY DEF IInv, Locks, HoldsRight, Owns, Current, Changing
    <2>2. /\ Current(Main)' \in {"detach", "replace"}
          /\ path = log_path \/ Current(Main)' = "detach"
        BY <2>1 DEF IInv, Types, Current
    <2> QED
        BY <1>2, <2>1, <2>2 DEF Fits, Late, Belongs
<1>3. unset \subseteq unset'
    OBVIOUS
<1>4. \A u \in Threads : old_dbg_log[u] # <<>> => log_path' = log_path
    BY DEF IInv, Locks, HoldsRight, Owns, Current, Changing, Flushing
<1>5. \A u \in Threads : at'[u] = "insert" => at[u] = "insert" /\ aim'[u] = aim[u]
    BY DEF IInv, Types
<1>6. Order'
    BY <1>1, OrderKept DEF IInv, lists
<1> QED
    BY <1>1, <1>2, <1>3, <1>4, <1>5, <1>6, AimedKept DEF IInv

LEMMA ReplaceAimed ==
    ASSUME IInv, NEW t \in Threads, Replace(t)
    PROVE  Order' /\ Aimed'
<1> USE DEF Replace
<1>1. UNCHANGED lists /\ collected' = collected
    OBVIOUS
<1>2. ASSUME NEW S, Fits(S)
      PROVE  Fits(S)'
    <2>1. t = Main /\ Current(Main) = "replace" /\ hFileLock = Main
        BY DEF IInv, Locks, HoldsRight, Owns, Current, Changing
    <2>2. /\ Current(Main)' = IF logging_enabled THEN "duplicate" ELSE "release"
          /\ log_path' = NoPath /\ path' = path /\ unset' = unset
          /\ ~logging_enabled => path = NoPath
        BY <2>1 DEF IInv, Types, Settings, ChangeUnderWay, Current, Flushing
    <2> QED
        BY <1>2, <2>1, <2>2 DEF Fits, Late, Belongs
<1>3. unset \subseteq unset'
    OBVIOUS
<1>4. \A u \in Threads : old_dbg_log[u] # <<>> => log_path' = log_path
    BY DEF IInv, Locks, HoldsRight, Owns, Current, Changing, Flushing
<1>5. \A u \in Threads : at'[u] = "insert" => at[u] = "insert" /\ aim'[u] = aim[u]
    BY DEF IInv, Types
<1>6. Order'
    BY <1>1, OrderKept DEF IInv, lists
<1> QED
    BY <1>1, <1>2, <1>3, <1>4, <1>5, <1>6, AimedKept DEF IInv

LEMMA DuplicateAimed ==
    ASSUME IInv, NEW t \in Threads, Duplicate(t)
    PROVE  Order' /\ Aimed'
<1> USE DEF Duplicate
<1>1. UNCHANGED lists /\ collected' = collected
    OBVIOUS
<1>2. ASSUME NEW S, Fits(S)
      PROVE  Fits(S)'
    <2>1. t = Main /\ Current(Main) = "duplicate" /\ path # NoPath
        BY DEF IInv, Locks, HoldsRight, Settings, Owns, Current, Changing
    <2>2. /\ Current(Main)' = "release" /\ path' = path
          /\ \/ log_path' = path /\ unset' = unset
             \/ log_path' = NoPath /\ unset' = unset \cup {path}
        <3>1. CASE log_path' = path /\ unset' = unset /\ Go(t, "release")
            BY <2>1, <3>1 DEF IInv, Types, Current
        <3>2. CASE /\ log_path' = NoPath /\ unset' = unset \cup {path}
                   /\ TraceThen(t, "release")
            BY <2>1, <3>2 DEF IInv, Types, Current
        <3> QED
            BY <3>1, <3>2
    <2> QED
        BY <1>2, <2>1, <2>2 DEF Fits, Late, Belongs
<1>3. unset \subseteq unset'
    OBVIOUS
<1>4. \A u \in Threads : old_dbg_log[u] # <<>> => log_path' = log_path
    BY DEF IInv, Locks, HoldsRight, Owns, Current, Changing, Flushing
<1>5. \A u \in Threads : at'[u] = "insert" => at[u] = "insert" /\ aim'[u] = aim[u]
    BY DEF IInv, Types
<1>6. Order'
    BY <1>1, OrderKept DEF IInv, lists
<1> QED
    BY <1>1, <1>2, <1>3, <1>4, <1>5, <1>6, AimedKept DEF IInv

LEMMA ReleaseAimed ==
    ASSUME IInv, NEW t \in Threads, Release(t)
    PROVE  Order' /\ Aimed'
<1> USE DEF Release
<1>1. UNCHANGED lists /\ collected' = collected
    OBVIOUS
<1>2. ASSUME NEW S, Fits(S)
      PROVE  Fits(S)'
    BY <1>2 DEF IInv, Types, Locks, HoldsRight, Settings, ChangeUnderWay, Owns, Replacing,
        Current, Changing, Flushing, Fits, Late, Belongs, Steps
<1>3. unset \subseteq unset'
    OBVIOUS
<1>4. \A u \in Threads : old_dbg_log[u] # <<>> => log_path' = log_path
    BY DEF IInv, Locks, HoldsRight, Owns, Current, Changing, Flushing
<1>5. \A u \in Threads : at'[u] = "insert" => at[u] = "insert" /\ aim'[u] = aim[u]
    BY DEF IInv, Types
<1>6. Order'
    BY <1>1, OrderKept DEF IInv, lists
<1> QED
    BY <1>1, <1>2, <1>3, <1>4, <1>5, <1>6, AimedKept DEF IInv

LEMMA OutOfMemoryAimed ==
    ASSUME IInv, NEW t \in Threads, OutOfMemory(t)
    PROVE  Order' /\ Aimed'
<1> USE DEF OutOfMemory
<1>1. UNCHANGED lists /\ collected' = collected
    OBVIOUS
<1>2. ASSUME NEW S, Fits(S)
      PROVE  Fits(S)'
    BY <1>2 DEF IInv, Types, Locks, HoldsRight, Settings, ChangeUnderWay, Owns, Replacing,
        Current, Changing, Flushing, Fits, Late, Belongs, Steps
<1>3. unset \subseteq unset'
    OBVIOUS
<1>4. \A u \in Threads : old_dbg_log[u] # <<>> => log_path' = log_path
    BY DEF IInv, Locks, HoldsRight, Owns, Current, Changing, Flushing
<1>5. \A u \in Threads : at'[u] = "insert" => at[u] = "insert" /\ aim'[u] = aim[u]
    BY DEF IInv, Types
<1>6. Order'
    BY <1>1, OrderKept DEF IInv, lists
<1> QED
    BY <1>1, <1>2, <1>3, <1>4, <1>5, <1>6, AimedKept DEF IInv

LEMMA KillerAimed ==
    ASSUME IInv, NEW t \in Threads, Killer(t)
    PROVE  Order' /\ Aimed'
<1> USE DEF Killer
<1>1. UNCHANGED lists /\ collected' = collected
    OBVIOUS
<1>2. ASSUME NEW S, Fits(S)
      PROVE  Fits(S)'
    BY ZenonT(40), <1>2 DEF IInv, Types, Locks, HoldsRight, Settings, ChangeUnderWay, Owns, Replacing,
        Current, Changing, Flushing, Fits, Late, Belongs, Steps
<1>3. unset \subseteq unset'
    OBVIOUS
<1>4. \A u \in Threads : old_dbg_log[u] # <<>> => log_path' = log_path
    BY DEF IInv, Locks, HoldsRight, Owns, Current, Changing, Flushing
<1>5. \A u \in Threads : at'[u] = "insert" => at[u] = "insert" /\ aim'[u] = aim[u]
    BY DEF IInv, Types
<1>6. Order'
    BY <1>1, OrderKept DEF IInv, lists
<1> QED
    BY <1>1, <1>2, <1>3, <1>4, <1>5, <1>6, AimedKept DEF IInv

LEMMA FinishAimed ==
    ASSUME IInv, NEW t \in Threads, Finish(t)
    PROVE  Order' /\ Aimed'
<1> USE DEF Finish
<1>1. UNCHANGED lists /\ collected' = collected
    OBVIOUS
<1>2. ASSUME NEW S, Fits(S)
      PROVE  Fits(S)'
    BY <1>2 DEF IInv, Types, Locks, HoldsRight, Settings, ChangeUnderWay, Owns, Replacing,
        Current, Changing, Flushing, Fits, Late, Belongs, Steps
<1>3. unset \subseteq unset'
    OBVIOUS
<1>4. \A u \in Threads : old_dbg_log[u] # <<>> => log_path' = log_path
    BY DEF IInv, Locks, HoldsRight, Owns, Current, Changing, Flushing
<1>5. \A u \in Threads : at'[u] = "insert" => at[u] = "insert" /\ aim'[u] = aim[u]
    BY DEF IInv, Types
<1>6. Order'
    BY <1>1, OrderKept DEF IInv, lists
<1> QED
    BY <1>1, <1>2, <1>3, <1>4, <1>5, <1>6, AimedKept DEF IInv

LEMMA ExitAimed ==
    ASSUME IInv, NEW t \in Threads, Exit(t)
    PROVE  Order' /\ Aimed'
<1> USE DEF Exit
<1>1. UNCHANGED lists /\ collected' = collected
    OBVIOUS
<1>2. ASSUME NEW S, Fits(S)
      PROVE  Fits(S)'
    BY <1>2 DEF IInv, Types, Locks, HoldsRight, Settings, ChangeUnderWay, Owns, Replacing,
        Current, Changing, Flushing, Fits, Late, Belongs, Steps
<1>3. unset \subseteq unset'
    OBVIOUS
<1>4. \A u \in Threads : old_dbg_log[u] # <<>> => log_path' = log_path
    BY DEF IInv, Locks, HoldsRight, Owns, Current, Changing, Flushing
<1>5. \A u \in Threads : at'[u] = "insert" => at[u] = "insert" /\ aim'[u] = aim[u]
    BY DEF IInv, Types
<1>6. Order'
    BY <1>1, OrderKept DEF IInv, lists
<1> QED
    BY <1>1, <1>2, <1>3, <1>4, <1>5, <1>6, AimedKept DEF IInv


LEMMA BeginAddAimed ==
    ASSUME IInv, NEW t \in Threads, BeginAdd(t)
    PROVE  Order' /\ Aimed'
<1> USE DEF BeginAdd
<1>1. UNCHANGED lists /\ UNCHANGED settings /\ UNCHANGED flushed /\ collected' = collected
    OBVIOUS
<1>2. Order'
    BY <1>1, OrderKept DEF IInv, lists
<1>3. Current(Main)' = Current(Main)
    BY LogAssumption DEF IInv, Types, Current
<1>4. \A S : Fits(S) => Fits(S)'
    BY <1>1, <1>3 DEF Fits, Late, Belongs, settings
<1>5. CASE ~logging_enabled
    <2>1. \A u \in Threads : at'[u] = "insert" => at[u] = "insert" /\ aim'[u] = aim[u]
        BY <1>5 DEF IInv, Types
    <2>2. unset \subseteq unset' /\ log_path' = log_path
        BY <1>1
    <2> QED
        BY <1>1, <1>2, <1>4, <2>1, <2>2, AimedKept DEF IInv
<1>6. CASE logging_enabled
    <2>1. Fits(InForce)
        <3>1. log_path \in InForce /\ (ChangeUnderWay => path \in InForce)
            BY DEF InForce
        <3>2. Late => ChangeUnderWay
            BY LogAssumption DEF IInv, Locks, HoldsRight, Late, ChangeUnderWay, Owns, Changing,
                Flushing
        <3>3. ~(log_path = NoPath /\ Belongs(InForce))
            BY <3>1, LogAssumption DEF Belongs
        <3> QED
            BY <3>1, <3>2, <3>3 DEF Fits
    <2>2. \A u \in Threads : at'[u] = "insert" => \/ u = t /\ aim'[u] = InForce
                                                  \/ at[u] = "insert" /\ aim'[u] = aim[u]
        BY <1>6 DEF IInv, Types
    <2>3. ASSUME NEW u \in Threads, at'[u] = "insert"
          PROVE  Fits(aim[u])'
        <3>1. \/ Fits(aim'[u])
              \/ aim'[u] = aim[u] /\ Fits(aim[u])
            BY <2>1, <2>2, <2>3 DEF IInv, Aimed
        <3> QED
            BY <1>1, <1>3, <3>1 DEF Fits, Late, Belongs, settings
    <2>4. ASSUME NEW i \in DOMAIN dbg_log'
          PROVE  Fits(dbg_log[i].paths)'
        <3>1. dbg_log' = dbg_log /\ Fits(dbg_log[i].paths)
            BY <1>1, <2>4 DEF IInv, Aimed, lists
        <3> QED
            BY <1>1, <1>3, <3>1 DEF Fits, Late, Belongs, settings
    <2> QED
        <3>1. /\ UNCHANGED <<dbg_log, old_dbg_log, files, lost, unopened>> /\ UNCHANGED <<log_path, unset>>
            BY <1>1 DEF lists, settings
        <3>2. \A m \in lost' \ unopened' : ~Settled(m)'
            BY <3>1 DEF IInv, Aimed, Settled
        <3>3. \A u \in Threads : \A i \in DOMAIN old_dbg_log'[u] : log_path' \in old_dbg_log'[u][i].paths
            BY <3>1 DEF IInv, Aimed
        <3>4. \A p \in Paths : \A i \in DOMAIN files'[p] : p \in files'[p][i].paths
            BY <3>1 DEF IInv, Aimed
        <3> QED
            BY <1>2, <2>3, <2>4, <3>2, <3>3, <3>4 DEF Aimed, Settled
<1> QED
    BY <1>2, <1>5, <1>6

LEMMA InsertAimed ==
    ASSUME IInv, NEW t \in Threads, Insert(t)
    PROVE  Aimed'
<1> DEFINE m == [number |-> collected + 1, paths |-> aim[t]]
           n == Len(dbg_log)
<1>1. /\ UNCHANGED <<old_dbg_log, files, lost, unopened>> /\ UNCHANGED settings /\ UNCHANGED flushed
      /\ at[t] = "insert"
    BY DEF Insert, Traced, At
<1>2. Current(Main)' = Current(Main)
    BY LogAssumption DEF IInv, Types, Current, Insert, Traced, At
<1>3. \A u \in Threads : at'[u] # "insert"
    BY DEF Insert, Traced, At, IInv, Types, Locks, HoldsRight
<1>4. \A i \in DOMAIN dbg_log' : \/ i \in DOMAIN dbg_log /\ dbg_log'[i] = dbg_log[i]
                                 \/ dbg_log'[i].paths = aim[t]
    <2>1. CASE dbg_log' = dbg_log
        BY <2>1
    <2>2. CASE collected < MaxMessages /\ dbg_log' = Append(dbg_log, m)
        <3>1. collected \in 0 .. MaxMessages /\ aim[t] \in SUBSET (Paths \cup {NoPath})
            BY DEF IInv, Types
        <3>2. collected + 1 \in 1 .. MaxMessages
            BY <2>2, <3>1, LogAssumption
        <3>3. m \in Messages /\ m.paths = aim[t]
            BY ONLY <3>1, <3>2 DEF Messages
        <3>4. dbg_log \in Seq(Messages)
            BY DEF IInv, Types
        <3> HIDE DEF m
        <3>5. /\ DOMAIN dbg_log' = 1 .. n + 1 /\ DOMAIN dbg_log = 1 .. n /\ n \in Nat
              /\ dbg_log'[n + 1] = m /\ \A i \in 1 .. n : dbg_log'[i] = dbg_log[i]
            BY <2>2, <3>3, <3>4, Appended
        <3> HIDE DEF n
        <3> QED
            BY <3>3, <3>5
    <2> QED
        BY <2>1, <2>2 DEF Insert
<1>5. ASSUME NEW i \in DOMAIN dbg_log'
      PROVE  Fits(dbg_log[i].paths)'
    <2>1. \/ i \in DOMAIN dbg_log /\ dbg_log'[i] = dbg_log[i] /\ Fits(dbg_log[i].paths)
          \/ dbg_log'[i].paths = aim[t] /\ Fits(aim[t])
        BY <1>1, <1>4, <1>5 DEF IInv, Aimed
    <2> QED
        BY <1>1, <1>2, <2>1 DEF Fits, Late, Belongs, settings
<1> QED
    BY <1>1, <1>3, <1>5 DEF IInv, Aimed, settings, Settled

LEMMA DetachAimed ==
    ASSUME IInv, NEW t \in Threads, Detach(t)
    PROVE  Aimed'
<1>1. /\ UNCHANGED settings /\ UNCHANGED files /\ dbg_log' = <<>>
      /\ at[t] = "detach" /\ hFileLock = t /\ hListLock = Nobody
      /\ \A u \in Threads : at'[u] = "insert" => at[u] = "insert"
    BY ZenonT(40) DEF Detach, Go, At, IInv, Types, Locks, HoldsRight, Owns, Current, Flushing
<1>2. \A u \in Threads : at'[u] # "insert"
    BY <1>1, LogAssumption DEF IInv, Locks, HoldsRight
<1>3. ASSUME NEW u \in Threads, NEW i \in DOMAIN old_dbg_log'[u]
      PROVE  log_path' \in old_dbg_log'[u][i].paths
    <2>1. \/ old_dbg_log'[u] = old_dbg_log[u]
          \/ old_dbg_log'[u] = dbg_log /\ log_path # NoPath
        BY DEF Detach, IInv, Types
    <2> QED
        BY <1>1, <1>3, <2>1 DEF IInv, Aimed, Fits, settings
<1>4. ASSUME NEW m \in lost' \ unopened'
      PROVE  ~Settled(m)'
    <2> m \notin unopened
        BY <1>4 DEF Detach
    <2>1. CASE m \in lost
        BY <1>1, <2>1 DEF IInv, Aimed, Settled, settings
    <2>2. CASE m \in ToSet(dbg_log) /\ log_path = NoPath
        <3>1. PICK i \in DOMAIN dbg_log : dbg_log[i] = m
            BY <2>2, ToSetOf DEF IInv, Types
        <3>2. Current(Main) # "duplicate"
            BY <1>1, LogAssumption DEF IInv, Locks, HoldsRight, Owns, Changing, Current
        <3>3. ~Belongs(m.paths)
            BY <2>2, <3>1, <3>2 DEF IInv, Aimed, Fits
        <3> QED
            BY <1>1, <3>3 DEF Belongs, Settled, settings
    <2>3. CASE m \notin lost /\ ~(m \in ToSet(dbg_log) /\ log_path = NoPath)
        <3>1. /\ m \in ToSet(dbg_log)
              /\ dbg_log = <<>> \/ log_path = NoPath
            BY <1>4, <2>3 DEF Detach
        <3>2. \E i \in DOMAIN dbg_log : dbg_log[i] = m
            BY <3>1, ToSetOf DEF IInv, Types
        <3>3. dbg_log # <<>>
            BY <3>2
        <3> QED
            BY <2>3, <3>1, <3>3
    <2> QED
        BY <2>1, <2>2, <2>3
<1> QED
    BY <1>1, <1>2, <1>3, <1>4 DEF IInv, Aimed, settings

LEMMA OpenFailsAimed ==
    ASSUME IInv, NEW t \in Threads, OpenFails(t)
    PROVE  Aimed'
<1>1. /\ UNCHANGED settings /\ UNCHANGED <<dbg_log, files, flushed, aim>>
      /\ \A u \in Threads : at'[u] = "insert" => at[u] = "insert"
      /\ \A u \in Threads : old_dbg_log'[u] \in {old_dbg_log[u], <<>>}
    BY DEF OpenFails, TraceThen, At, IInv, Types
<1>2. Late' => Late
    BY LogAssumption DEF OpenFails, TraceThen, At, IInv, Types, Late, Current
<1>3. Current(Main)' = "duplicate" <=> Current(Main) = "duplicate"
    BY LogAssumption DEF OpenFails, TraceThen, At, IInv, Types, Current
<1>4. ASSUME NEW i \in DOMAIN dbg_log'
      PROVE  Fits(dbg_log[i].paths)'
    <2>1. dbg_log' = dbg_log /\ Fits(dbg_log[i].paths)
        BY <1>1, <1>4 DEF IInv, Aimed
    <2> QED
        BY <1>1, <1>2, <1>3, <2>1 DEF Fits, Belongs, settings
<1>5. ASSUME NEW u \in Threads, at'[u] = "insert"
      PROVE  Fits(aim[u])'
    <2>1. aim' = aim /\ Fits(aim[u])
        BY <1>1, <1>5 DEF IInv, Aimed
    <2> QED
        BY <1>1, <1>2, <1>3, <2>1 DEF Fits, Belongs, settings
<1>6. ASSUME NEW m \in lost' \ unopened'
      PROVE  ~Settled(m)'
    <2>1. m \in lost \ unopened
        BY <1>6 DEF OpenFails
    <2> QED
        BY <1>1, <2>1 DEF IInv, Aimed, Settled, settings
<1>7. log_path' = log_path
    BY <1>1 DEF settings
<1>8. \A u \in Threads : \A i \in DOMAIN old_dbg_log'[u] : log_path \in old_dbg_log'[u][i].paths
    BY <1>1 DEF IInv, Aimed
<1>9. \A q \in Paths : \A i \in DOMAIN files'[q] : q \in files'[q][i].paths
    BY <1>1 DEF IInv, Aimed
<1> QED
    BY <1>4, <1>5, <1>6, <1>7, <1>8, <1>9 DEF Aimed

LEMMA WriteAimed ==
    ASSUME IInv, NEW t \in Threads, Write(t)
    PROVE  Aimed'
<1> DEFINE old == old_dbg_log[t]
           n == Len(files[log_path])
<1>1. /\ UNCHANGED settings /\ UNCHANGED <<dbg_log, lost, unopened, flushed, aim>>
      /\ \A u \in Threads : at'[u] = "insert" => at[u] = "insert"
    BY DEF Write, Go, flow, At, IInv, Types
<1>2. (Late' => Late) /\ (Current(Main)' = "duplicate" <=> Current(Main) = "duplicate")
    BY DEF Write, Go, flow, At, IInv, Types, Late, Current
<1>3. ASSUME NEW i \in DOMAIN dbg_log'
      PROVE  Fits(dbg_log[i].paths)'
    <2>1. dbg_log' = dbg_log /\ Fits(dbg_log[i].paths)
        BY <1>1, <1>3 DEF IInv, Aimed
    <2> QED
        BY <1>1, <1>2, <2>1 DEF Fits, Belongs, settings
<1>4. ASSUME NEW u \in Threads, at'[u] = "insert"
      PROVE  Fits(aim[u])'
    <2>1. aim' = aim /\ Fits(aim[u])
        BY <1>1, <1>4 DEF IInv, Aimed
    <2> QED
        BY <1>1, <1>2, <2>1 DEF Fits, Belongs, settings
<1>5. /\ \A u \in Threads : \A i \in DOMAIN old_dbg_log'[u] : log_path \in old_dbg_log'[u][i].paths
      /\ \A p \in Paths : \A i \in DOMAIN files'[p] : p \in files'[p][i].paths
    <2>1. CASE old = <<>>
        BY <2>1 DEF Write, IInv, Aimed
    <2>2. CASE old # <<>>
        <3>1. log_path \in Paths /\ old \in Seq(Messages) /\ files[log_path] \in Seq(Messages)
            BY DEF IInv, Types, Locks, HoldsRight, Write, At
        <3>2. /\ files' = [files EXCEPT ![log_path] = Append(files[log_path], Head(old))]
              /\ old_dbg_log' = [old_dbg_log EXCEPT ![t] = Tail(old)]
            BY <2>2 DEF Write
        <3>3. /\ Head(old) \in Messages /\ Head(old) = old[1] /\ 1 \in DOMAIN old
              /\ \A i \in DOMAIN Tail(old) : i + 1 \in DOMAIN old /\ Tail(old)[i] = old[i + 1]
            BY <2>2, <3>1, WithoutHead
        <3>4. \A i \in DOMAIN Append(files[log_path], Head(old)) :
                \/ /\ i \in DOMAIN files[log_path]
                   /\ Append(files[log_path], Head(old))[i] = files[log_path][i]
                \/ Append(files[log_path], Head(old))[i] = old[1]
            BY <3>1, <3>3, Appended
        <3>5. \A i \in DOMAIN old : log_path \in old[i].paths
            BY DEF IInv, Aimed
        <3>6. ASSUME NEW u \in Threads, NEW i \in DOMAIN old_dbg_log'[u]
              PROVE  log_path \in old_dbg_log'[u][i].paths
            <4>1. CASE u = t
                BY <3>2, <3>3, <3>5, <3>6, <4>1 DEF IInv, Types
            <4>2. CASE u # t
                BY <3>2, <3>6, <4>2 DEF IInv, Types, Aimed
            <4> QED
                BY <4>1, <4>2
        <3>7. ASSUME NEW p \in Paths, NEW i \in DOMAIN files'[p]
              PROVE  p \in files'[p][i].paths
            <4>1. CASE p = log_path
                <5>1. files'[p] = Append(files[log_path], Head(old))
                    BY <3>1, <3>2, <4>1 DEF IInv, Types
                <5>2. \A j \in DOMAIN files[log_path] : log_path \in files[log_path][j].paths
                    BY <3>1 DEF IInv, Aimed
                <5> QED
                    BY <3>3, <3>4, <3>5, <3>7, <4>1, <5>1, <5>2
            <4>2. CASE p # log_path
                BY <3>2, <3>7, <4>2 DEF IInv, Types, Aimed
            <4> QED
                BY <4>1, <4>2
        <3> QED
            BY <3>6, <3>7
    <2> QED
        BY <2>1, <2>2
<1>6. \A m \in lost' \ unopened' : ~Settled(m)'
    BY <1>1 DEF IInv, Aimed, Settled, settings
<1>7. log_path' = log_path
    BY <1>1 DEF settings
<1> QED
    BY <1>3, <1>4, <1>5, <1>6, <1>7 DEF Aimed

LEMMA SetPathAimed ==
    ASSUME IInv, NEW t \in Threads, NEW p \in Paths \cup {NoPath}, SetPath(t, p)
    PROVE  Aimed'
<1>1. /\ UNCHANGED <<log_path, unset, dbg_log, old_dbg_log, lost, unopened, flushed, aim>>
      /\ \A u \in Threads : at'[u] = "insert" => at[u] = "insert"
      /\ \A q \in Paths : files'[q] \in {files[q], <<>>}
    BY DEF SetPath, Go, At, IInv, Types
<1>2. ~Late' /\ Current(Main) # "duplicate"
    BY DEF SetPath, Go, At, IInv, Types, Late, Current
<1>3. ASSUME NEW i \in DOMAIN dbg_log'
      PROVE  Fits(dbg_log[i].paths)'
    <2>1. dbg_log' = dbg_log /\ Fits(dbg_log[i].paths)
        BY <1>1, <1>3 DEF IInv, Aimed
    <2> QED
        BY <1>1, <1>2, <2>1 DEF Fits, Belongs
<1>4. ASSUME NEW u \in Threads, at'[u] = "insert"
      PROVE  Fits(aim[u])'
    <2>1. aim' = aim /\ Fits(aim[u])
        BY <1>1, <1>4 DEF IInv, Aimed
    <2> QED
        BY <1>1, <1>2, <2>1 DEF Fits, Belongs
<1> QED
    BY <1>1, <1>3, <1>4 DEF IInv, Aimed, Settled

-----------------------------------------------------------------------------
(* What becomes of the messages.                                           *)

\* What is kept stays kept, and a new message is.
LEMMA AccountedNext ==
    ASSUME IInv, Accounted, [Next]_vars
    PROVE  Accounted'
<1>1. ASSUME collected' = collected, \A m \in Messages : Kept(m) => Kept(m)'
      PROVE  Accounted'
    BY <1>1 DEF Accounted
<1>2. ASSUME UNCHANGED lists, collected' = collected
      PROVE  Accounted'
    <2>1. \A m \in Messages : Kept(m) => Kept(m)'
        BY <1>2 DEF Kept, lists
    <2> QED
        BY <1>1, <1>2, <2>1
<1>3. ASSUME NEW t \in Threads, Insert(t)
      PROVE  Accounted'
    <2>1. CASE UNCHANGED <<collected, dbg_log>>
        BY <1>2, <1>3, <2>1 DEF Insert, lists
    <2>2. CASE ~UNCHANGED <<collected, dbg_log>>
        <3> DEFINE m == [number |-> collected + 1, paths |-> aim[t]]
                   n == Len(dbg_log)
        <3>1. /\ collected < MaxMessages /\ collected' = collected + 1
              /\ dbg_log' = Append(dbg_log, m) /\ UNCHANGED <<old_dbg_log, files, lost, erased>>
            BY <1>3, <2>2 DEF Insert
        <3>2. collected \in 0 .. MaxMessages /\ aim[t] \in SUBSET (Paths \cup {NoPath})
            BY DEF IInv, Types
        <3>3. collected + 1 \in 1 .. MaxMessages
            BY <3>1, <3>2, LogAssumption
        <3>4. m \in Messages /\ m.number = collected + 1
            BY ONLY <3>2, <3>3 DEF Messages
        <3>5. dbg_log \in Seq(Messages)
            BY DEF IInv, Types
        <3> HIDE DEF m
        <3>6. /\ dbg_log' \in Seq(Messages) /\ DOMAIN dbg_log' = 1 .. n + 1 /\ DOMAIN dbg_log = 1 .. n
              /\ n \in Nat /\ dbg_log'[n + 1] = m /\ \A i \in 1 .. n : dbg_log'[i] = dbg_log[i]
            BY <3>1, <3>4, <3>5, Appended
        <3> HIDE DEF n
        <3>7. m \in ToSet(dbg_log') /\ ToSet(dbg_log) \subseteq ToSet(dbg_log')
            BY <3>6 DEF ToSet
        <3>8. \A k \in Messages : Kept(k) \/ k = m => Kept(k)'
            BY <3>1, <3>7 DEF Kept
        <3>9. \A k \in 1 .. collected' : k \in 1 .. collected \/ k = collected + 1
            BY <3>1, <3>2
        <3> QED
            BY <3>4, <3>8, <3>9 DEF Accounted
    <2> QED
        BY <2>1, <2>2
<1>4. ASSUME NEW t \in Threads, Detach(t)
      PROVE  Accounted'
    <2>1. collected' = collected /\ UNCHANGED <<files, erased>>
        BY <1>4 DEF Detach
    <2>2. old_dbg_log[t] = <<>>
        BY <1>4 DEF Detach, IInv, Locks, HoldsRight
    <2>3. /\ ToSet(dbg_log) \subseteq lost' \/ ToSet(dbg_log) \subseteq ToSet(old_dbg_log'[t])
          /\ \A u \in Threads : u # t => old_dbg_log'[u] = old_dbg_log[u]
          /\ lost \subseteq lost'
        BY <1>4 DEF Detach, IInv, Types
    <2>4. \A m : m \notin ToSet(old_dbg_log[t])
        BY <2>2 DEF ToSet
    <2>5. \A m \in Messages : Kept(m) => Kept(m)'
        BY <2>1, <2>3, <2>4 DEF Kept
    <2> QED
        BY <1>1, <2>1, <2>5
<1>5. ASSUME NEW t \in Threads, OpenFails(t)
      PROVE  Accounted'
    <2>1. /\ collected' = collected /\ UNCHANGED <<dbg_log, files, erased>>
          /\ \A u \in Threads : u # t => old_dbg_log'[u] = old_dbg_log[u]
          /\ ToSet(old_dbg_log[t]) \cup lost \subseteq lost'
        BY <1>5 DEF OpenFails, IInv, Types
    <2>2. \A m \in Messages : Kept(m) => Kept(m)'
        BY <2>1 DEF Kept
    <2> QED
        BY <1>1, <2>1, <2>2
<1>6. ASSUME NEW t \in Threads, Write(t)
      PROVE  Accounted'
    <2>1. CASE old_dbg_log[t] = <<>>
        BY <1>2, <1>6, <2>1 DEF Write, lists
    <2>2. CASE old_dbg_log[t] # <<>>
        <3> DEFINE old == old_dbg_log[t]
        <3>1. log_path \in Paths /\ old \in Seq(Messages) /\ files[log_path] \in Seq(Messages)
            BY <1>6 DEF IInv, Types, Locks, HoldsRight, Write, At
        <3>2. /\ UNCHANGED <<dbg_log, lost, erased>> /\ collected' = collected
              /\ files' = [files EXCEPT ![log_path] = Append(files[log_path], Head(old))]
              /\ old_dbg_log' = [old_dbg_log EXCEPT ![t] = Tail(old)]
            BY <1>6, <2>2 DEF Write
        <3>3. \A m : m \in ToSet(old) => m = Head(old) \/ m \in ToSet(Tail(old))
            <4> SUFFICES ASSUME NEW i \in DOMAIN old
                         PROVE  old[i] = Head(old) \/ old[i] \in ToSet(Tail(old))
                BY DEF ToSet
            <4>1. CASE i = 1
                BY <2>2, <3>1, <4>1, WithoutHead
            <4>2. CASE i # 1
                <5>1. i - 1 \in DOMAIN Tail(old) /\ Tail(old)[i - 1] = old[i]
                    BY <2>2, <3>1, <4>2
                <5> QED
                    BY <5>1 DEF ToSet
            <4> QED
                BY <4>1, <4>2
        <3>4. ToSet(files[log_path]) \cup {Head(old)} \subseteq ToSet(Append(files[log_path], Head(old)))
            <4> DEFINE s == files[log_path]
            <4>1. Head(old) \in Messages
                BY <2>2, <3>1, WithoutHead
            <4>2. /\ DOMAIN Append(s, Head(old)) = 1 .. Len(s) + 1 /\ DOMAIN s = 1 .. Len(s) /\ Len(s) \in Nat
                  /\ Append(s, Head(old))[Len(s) + 1] = Head(old)
                  /\ \A i \in 1 .. Len(s) : Append(s, Head(old))[i] = s[i]
                BY <3>1, <4>1, Appended
            <4> QED
                BY <4>2 DEF ToSet
        <3>5. /\ old_dbg_log'[t] = Tail(old)
              /\ \A u \in Threads : u # t => old_dbg_log'[u] = old_dbg_log[u]
              /\ files'[log_path] = Append(files[log_path], Head(old))
              /\ \A q \in Paths : q # log_path => files'[q] = files[q]
            BY <3>1, <3>2 DEF IInv, Types
        <3>6. \A m \in Messages : Kept(m) => Kept(m)'
            <4> HIDE DEF old
            <4> SUFFICES ASSUME NEW m \in Messages, Kept(m) PROVE Kept(m)'
                OBVIOUS
            <4>1. CASE m \in ToSet(dbg_log) \cup lost \cup erased
                BY <3>2, <4>1 DEF Kept
            <4>2. CASE \E u \in Threads : m \in ToSet(old_dbg_log[u])
                BY <3>1, <3>3, <3>4, <3>5, <4>2 DEF Kept, old
            <4>3. CASE \E q \in Paths : m \in ToSet(files[q])
                BY <3>1, <3>4, <3>5, <4>3 DEF Kept
            <4> QED
                BY <4>1, <4>2, <4>3 DEF Kept
        <3> QED
            BY <1>1, <3>2, <3>6
    <2> QED
        BY <2>1, <2>2
<1>7. ASSUME NEW t \in Threads, NEW p \in Paths \cup {NoPath}, SetPath(t, p)
      PROVE  Accounted'
    <2>1. /\ collected' = collected /\ UNCHANGED <<dbg_log, old_dbg_log, lost>>
          /\ erased \subseteq erased'
          /\ \A q \in Paths : files'[q] = files[q] \/ ToSet(files[q]) \subseteq erased'
        BY <1>7 DEF SetPath, IInv, Types
    <2>2. \A m \in Messages : Kept(m) => Kept(m)'
        BY <2>1 DEF Kept
    <2> QED
        BY <1>1, <2>1, <2>2
<1>8. CASE UNCHANGED vars
    BY <1>2, <1>8 DEF vars
<1>9. ASSUME NEW t \in Threads,
             \/ Trace(t) \/ BeginAdd(t) \/ Flush(t) \/ LockFile(t) \/ Open(t) \/ EndFlush(t)
             \/ LockToChange(t) \/ CreatePath(t) \/ FlushOld(t) \/ Replace(t) \/ Duplicate(t)
             \/ Release(t) \/ OutOfMemory(t) \/ Killer(t) \/ Finish(t) \/ Exit(t)
      PROVE  Accounted'
    <2>1. UNCHANGED lists /\ collected' = collected
        BY <1>9 DEF Trace, BeginAdd, Flush, LockFile, Open, EndFlush, LockToChange, CreatePath,
            FlushOld, Replace, Duplicate, Release, OutOfMemory, Killer, Finish, Exit
    <2> QED
        BY <1>2, <2>1
<1> QED
    BY <1>3, <1>4, <1>5, <1>6, <1>7, <1>8, <1>9 DEF Next, Step

-----------------------------------------------------------------------------
(* The theorems.                                                           *)

LEMMA NextIInv ==
    ASSUME IInv, [Next]_vars
    PROVE  IInv'
<1>1. CASE UNCHANGED vars
    <2>1. UNCHANGED <<hListLock, hFileLock, logging_enabled, log_path, dbg_log, old_dbg_log,
                      path, files, at, traced, flushed, aim, collected, lost, unopened, erased, unset>>
        BY <1>1 DEF vars, locks, settings, flow, counters, lists
    <2>2. Types' /\ Locks' /\ Settings'
        BY <2>1 DEF IInv, Types, Locks, HoldsRight, Owns, Replacing, Current, Settings,
            ChangeUnderWay
    <2>3. Order'
        BY <2>1, OrderKept DEF IInv
    <2>4. Aimed'
        BY <2>1 DEF IInv, Aimed, Fits, Late, Belongs, Current, Settled
    <2> QED
        BY <2>2, <2>3, <2>4 DEF IInv
<1>2. ASSUME NEW t \in Threads, NEW p \in Paths \cup {NoPath}, SetPath(t, p)
      PROVE  IInv'
    BY <1>2, SetPathLocks, SetPathOrder, SetPathAimed DEF IInv
<1>3. ASSUME NEW t \in Threads, Trace(t)
      PROVE  IInv'
    BY <1>3, TraceLocks, TraceAimed DEF IInv
<1>4. ASSUME NEW t \in Threads, BeginAdd(t)
      PROVE  IInv'
    BY <1>4, BeginAddLocks, BeginAddAimed DEF IInv
<1>5. ASSUME NEW t \in Threads, Insert(t)
      PROVE  IInv'
    BY <1>5, InsertLocks, InsertOrder, InsertAimed DEF IInv
<1>6. ASSUME NEW t \in Threads, Flush(t)
      PROVE  IInv'
    BY <1>6, FlushLocks, FlushAimed DEF IInv
<1>7. ASSUME NEW t \in Threads, LockFile(t)
      PROVE  IInv'
    BY <1>7, LockFileLocks, LockFileAimed DEF IInv
<1>8. ASSUME NEW t \in Threads, Detach(t)
      PROVE  IInv'
    BY <1>8, DetachLocks, DetachOrder, DetachAimed DEF IInv
<1>9. ASSUME NEW t \in Threads, Open(t)
      PROVE  IInv'
    BY <1>9, OpenLocks, OpenAimed DEF IInv
<1>10. ASSUME NEW t \in Threads, OpenFails(t)
      PROVE  IInv'
    BY <1>10, OpenFailsLocks, OpenFailsOrder, OpenFailsAimed DEF IInv
<1>11. ASSUME NEW t \in Threads, Write(t)
      PROVE  IInv'
    BY <1>11, WriteLocks, WriteOrder, WriteAimed DEF IInv
<1>12. ASSUME NEW t \in Threads, EndFlush(t)
      PROVE  IInv'
    BY <1>12, EndFlushLocks, EndFlushAimed DEF IInv
<1>13. ASSUME NEW t \in Threads, LockToChange(t)
      PROVE  IInv'
    BY <1>13, LockToChangeLocks, LockToChangeAimed DEF IInv
<1>14. ASSUME NEW t \in Threads, CreatePath(t)
      PROVE  IInv'
    BY <1>14, CreatePathLocks, CreatePathAimed DEF IInv
<1>15. ASSUME NEW t \in Threads, FlushOld(t)
      PROVE  IInv'
    BY <1>15, FlushOldLocks, FlushOldAimed DEF IInv
<1>16. ASSUME NEW t \in Threads, Replace(t)
      PROVE  IInv'
    BY <1>16, ReplaceLocks, ReplaceAimed DEF IInv
<1>17. ASSUME NEW t \in Threads, Duplicate(t)
      PROVE  IInv'
    BY <1>17, DuplicateLocks, DuplicateAimed DEF IInv
<1>18. ASSUME NEW t \in Threads, Release(t)
      PROVE  IInv'
    BY <1>18, ReleaseLocks, ReleaseAimed DEF IInv
<1>19. ASSUME NEW t \in Threads, OutOfMemory(t)
      PROVE  IInv'
    BY <1>19, OutOfMemoryLocks, OutOfMemoryAimed DEF IInv
<1>20. ASSUME NEW t \in Threads, Killer(t)
      PROVE  IInv'
    BY <1>20, KillerLocks, KillerAimed DEF IInv
<1>21. ASSUME NEW t \in Threads, Finish(t)
      PROVE  IInv'
    BY <1>21, FinishLocks, FinishAimed DEF IInv
<1>22. ASSUME NEW t \in Threads, Exit(t)
      PROVE  IInv'
    BY <1>22, ExitLocks, ExitAimed DEF IInv
<1> QED
    BY <1>1, <1>2, <1>3, <1>4, <1>5, <1>6, <1>7, <1>8, <1>9, <1>10, <1>11, <1>12,
        <1>13, <1>14, <1>15, <1>16, <1>17, <1>18, <1>19, <1>20, <1>21, <1>22 DEF Next, Step

\* The inductive invariant holds in every state the code can reach.
THEOREM Invariance == Spec => []IInv
<1>1. Init => IInv
    BY InitIInv
<1>2. IInv /\ [Next]_vars => IInv'
    BY NextIInv
<1> QED
    BY <1>1, <1>2, PTL DEF Spec

\* The locks keep flushes and changes of the path apart, and every file holds
\* its own messages, each once and in the order in which they were collected,
\* whatever the number of threads and paths (dbg.c).
THEOREM LogStaysSound == Spec => []LogSound
<1>1. IInv => LogSound
    <2> SUFFICES ASSUME IInv PROVE LogSound
        OBVIOUS
    <2>1. TypeOK
        BY DEF IInv, Types, TypeOK, Locks, HoldsRight
    <2>2. InOrder
        BY DEF IInv, Order, Ascends, InOrder
    <2>3. OwnFile
        <3> SUFFICES ASSUME NEW p \in Paths, NEW m \in ToSet(files[p]) PROVE p \in m.paths
            BY DEF OwnFile
        <3>1. PICK i \in DOMAIN files[p] : files[p][i] = m
            BY ToSetOf DEF IInv, Types
        <3> QED
            BY <3>1 DEF IInv, Aimed
    <2> QED
        BY <2>1, <2>2, <2>3 DEF LogSound
<1> QED
    BY <1>1, Invariance, PTL

\* Every message is on its way, in a file, deleted with its file or thrown away
\* by a flush; none made while one path was in force is thrown away or left
\* behind by the end of logging, in whatever order the threads collect, flush and
\* change the path - unless a flush could not open the file
\* (winx_flush_dbg_log, winx_set_dbg_log).
THEOREM MessagesAreKept == Spec => []NothingLost
<1>1. IInv /\ Accounted => NothingLost
    <2> SUFFICES ASSUME IInv, Accounted PROVE NothingLost
        OBVIOUS
    <2>1. LostOnlyWithoutPath
        BY DEF IInv, Aimed, LostOnlyWithoutPath
    <2>2. NothingLeftBehind
        <3> SUFFICES ASSUME hFileLock = Nobody, ~logging_enabled, NEW m \in ToSet(dbg_log)
                     PROVE  ~Settled(m)
            BY DEF NothingLeftBehind
        <3>1. log_path = NoPath /\ Current(Main) # "duplicate"
            BY LogAssumption DEF IInv, Settings, Locks, HoldsRight, Owns, Changing
        <3>2. PICK i \in DOMAIN dbg_log : dbg_log[i] = m
            BY ToSetOf DEF IInv, Types
        <3> QED
            BY <3>1, <3>2 DEF IInv, Aimed, Fits, Belongs, Settled
    <2> QED
        BY <2>1, <2>2 DEF NothingLost
<1>2. Init => Accounted
    BY DEF Init, Accounted
<1>3. IInv /\ Accounted /\ [Next]_vars => Accounted'
    BY AccountedNext
<1> QED
    BY <1>1, <1>2, <1>3, Invariance, PTL DEF Spec
=============================================================================
