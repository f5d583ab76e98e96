------------------------------- MODULE Keyboard -------------------------------
(***************************************************************************)
(* The keyboards of the boot time program (dll/zenwinx/keyboard.c): a      *)
(* thread for each keyboard waits for key hits and pushes them to a ring   *)
(* they share, the program reads from it.  An event guards the ring;       *)
(* nothing guards the flag which stops the threads and their number.       *)
(***************************************************************************)
EXTENDS Integers, Sequences, SequencesExt

CONSTANTS
    KB_QUEUE_LENGTH,
    Keyboards,    \* the numbers of the keyboards, from 1 on
    Keys,         \* "Escape", "Break", ordinary keys, and "up" for key releases
    MaxHits       \* bound on the number of key hits

ASSUME KeyboardAssumption ==
    /\ KB_QUEUE_LENGTH \in Nat \ {0} /\ MaxHits \in Nat
    /\ Keyboards \subseteq Nat \ {0}

\* kb_open is called twice, and there are threads of both calls.
Pollers == Keyboards \X {1, 2}

VARIABLES
    kids, start_index, n_written,   \* the ring
    stop_kb_wait_for_input,
    kb_wait_for_input_threads,
    poller,     \* what each thread does
    key,        \* the key it has got
    count,      \* the number of threads it has read
    opened,     \* the devices and the event exist
    initialize, \* where winx_kb_init is
    hits, pushed, last  \* keys hit, pushed, and the last one read (history)

NoKey == "none"

ring == <<kids, start_index, n_written>>
threads == <<stop_kb_wait_for_input, kb_wait_for_input_threads, poller, key, count>>
keyboard == <<ring, threads, opened, initialize, hits, pushed, last>>

Indices == 0 .. KB_QUEUE_LENGTH - 1

KbInit ==
    /\ kids = [i \in Indices |-> [key |-> NoKey, n |-> 0]]
    /\ start_index = 0 /\ n_written = 0
    /\ stop_kb_wait_for_input = FALSE /\ kb_wait_for_input_threads = 0
    /\ poller = [p \in Pollers |-> "none"] /\ key = [p \in Pollers |-> NoKey]
    /\ count = [p \in Pollers |-> 0]
    /\ opened = FALSE /\ initialize = "open"
    /\ hits = 0 /\ pushed = 0 /\ last = 0

-----------------------------------------------------------------------------
(* A thread: kb_wait_for_input.                                            *)

Moves(p, from, to) == poller[p] = from /\ poller' = [poller EXCEPT ![p] = to]

\* The number of threads is read ...
ReadCount(p) ==
    /\ Moves(p, "starting", "counting") \/ Moves(p, "ending", "discounting")
    /\ count' = [count EXCEPT ![p] = kb_wait_for_input_threads]
    /\ UNCHANGED <<ring, stop_kb_wait_for_input, kb_wait_for_input_threads, key,
                   opened, initialize, hits, pushed, last>>

\* ... and written back, whatever it is by then.
WriteCount(p) ==
    /\ \/ Moves(p, "counting", "polling") /\ kb_wait_for_input_threads' = count[p] + 1
       \/ Moves(p, "discounting", "gone") /\ kb_wait_for_input_threads' = count[p] - 1
    /\ count' = [count EXCEPT ![p] = 0]
    /\ UNCHANGED <<ring, stop_kb_wait_for_input, key, opened, initialize, hits,
                   pushed, last>>

Hit(p, k) ==
    /\ opened /\ ~stop_kb_wait_for_input /\ hits < MaxHits
    /\ Moves(p, "polling", "pushing")
    /\ key' = [key EXCEPT ![p] = k] /\ hits' = hits + 1
    /\ UNCHANGED <<ring, stop_kb_wait_for_input, kb_wait_for_input_threads, count,
                   opened, initialize, pushed, last>>

\* It is told to stop, or the device or the event is gone.
GiveUp(p) ==
    /\ \/ Moves(p, "polling", "ending") /\ (stop_kb_wait_for_input \/ ~opened)
       \/ Moves(p, "pushing", "ending") /\ ~opened
    /\ key' = [key EXCEPT ![p] = NoKey]
    /\ UNCHANGED <<ring, stop_kb_wait_for_input, kb_wait_for_input_threads, count,
                   opened, initialize, hits, pushed, last>>

\* "Unexpected condition #1" resets the index.
Start == IF start_index \in Indices THEN start_index ELSE 0

MutSlot == (Start + (IF n_written = KB_QUEUE_LENGTH THEN n_written - 1 ELSE n_written))
           % KB_QUEUE_LENGTH

Slot == (Start + n_written) % KB_QUEUE_LENGTH

\* With a full ring the start index moves on and is not wrapped.
Push(p) ==
    /\ opened /\ Moves(p, "pushing", "polling")
    /\ kids' = [kids EXCEPT ![Slot] = [key |-> key[p], n |-> pushed + 1]]
    /\ IF n_written = KB_QUEUE_LENGTH
       THEN start_index' = Start + 1 /\ UNCHANGED n_written
       ELSE start_index' = Start /\ n_written' = n_written + 1
    /\ key' = [key EXCEPT ![p] = NoKey] /\ pushed' = pushed + 1
    /\ UNCHANGED <<stop_kb_wait_for_input, kb_wait_for_input_threads, count, opened,
                   initialize, hits, last>>

Poller == \E p \in Pollers :
    ReadCount(p) \/ WriteCount(p) \/ GiveUp(p) \/ Push(p) \/ \E k \in Keys : Hit(p, k)

-----------------------------------------------------------------------------
(* The reader: kb_read.                                                    *)

After(i) == IF i >= KB_QUEUE_LENGTH THEN 0 ELSE i

\* The record behind the end of the array may be anything.
Records ==
    IF start_index \in Indices THEN {kids[start_index]} ELSE [key : Keys, n : {0}]

\* The oldest record is taken from the ring.
Read(r) ==
    /\ opened /\ n_written > 0 /\ r \in Records
    /\ start_index' = After(start_index + 1) /\ n_written' = n_written - 1
    /\ last' = IF r.n = 0 THEN last ELSE r.n
    /\ UNCHANGED <<kids, threads, opened, hits, pushed>>

\* Nothing in the ring until the time has elapsed.
Silence == n_written = 0 \/ ~opened

-----------------------------------------------------------------------------
(* winx_kb_init, kb_open and kb_close.                                     *)

FirstOpen ==
    /\ initialize = "open" /\ initialize' = "wait"
    /\ opened' = TRUE /\ stop_kb_wait_for_input' = FALSE /\ kb_wait_for_input_threads' = 0
    /\ poller' = [p \in Pollers |-> IF p[2] = 1 THEN "starting" ELSE "none"]
    /\ UNCHANGED <<ring, key, count, hits, pushed, last>>

\* Keys which are hit meanwhile; Escape ends the waiting.
WaitForKeyboards ==
    /\ initialize = "wait"
    /\ \/ /\ \E r \in Records :
             Read(r) /\ initialize' = IF r.key = "Escape" THEN "close" ELSE "wait"
       \/ initialize' = "close"
          /\ UNCHANGED <<ring, threads, opened, hits, pushed, last>>

StopPollers ==
    /\ initialize = "close" /\ initialize' = "closing"
    /\ stop_kb_wait_for_input' = TRUE
    /\ UNCHANGED <<ring, kb_wait_for_input_threads, poller, key, count, opened,
                   hits, pushed, last>>

MutClose ==
    /\ initialize = "closing" /\ initialize' = "reopen"
    /\ kb_wait_for_input_threads = 0 /\ opened' = FALSE
    /\ UNCHANGED <<ring, threads, hits, pushed, last>>

\* "3 sec should be enough": when the number of threads is not zero by then
\* the devices are closed all the same, so there is nothing to wait for here.
Close ==
    /\ initialize = "closing" /\ initialize' = "reopen"
    /\ opened' = FALSE
    /\ UNCHANGED <<ring, threads, hits, pushed, last>>

\* The keyboards are opened again.  A thread of the first call which has not
\* seen the flag goes on.  Nobody looks at the number of threads any more, so
\* the counting is left out: a thread which starts late has started by now,
\* and one which is about to end has ended.
OpenForGood ==
    /\ opened' = TRUE /\ initialize' = "ready"
    /\ stop_kb_wait_for_input' = FALSE /\ kb_wait_for_input_threads' = 0
    /\ poller' = [p \in Pollers |->
                    CASE p[2] = 2 \/ poller[p] \in {"starting", "counting"} -> "polling"
                      [] p[2] # 2 /\ poller[p] \in {"ending", "discounting"} -> "gone"
                      [] OTHER -> poller[p]]
    /\ count' = [p \in Pollers |-> 0]
    /\ UNCHANGED <<ring, key, hits, pushed, last>>

\* Or there is no keyboard and the program ends.
Reopen ==
    /\ initialize = "reopen"
    /\ \/ OpenForGood
       \/ /\ initialize' = "failed"
          /\ UNCHANGED <<ring, threads, opened, hits, pushed, last>>

Initialize == FirstOpen \/ WaitForKeyboards \/ StopPollers \/ Close \/ Reopen

-----------------------------------------------------------------------------
(* Properties.                                                             *)

KbTypeOK ==
    /\ \A i \in Indices : kids[i].key \in Keys \cup {NoKey} /\ kids[i].n \in 0 .. pushed
    /\ start_index \in 0 .. KB_QUEUE_LENGTH /\ n_written \in 0 .. KB_QUEUE_LENGTH
    /\ last \in 0 .. pushed /\ pushed <= hits /\ hits <= MaxHits
    /\ initialize \in {"open", "wait", "close", "closing", "reopen", "ready", "failed"}
    /\ \A p \in Pollers :
        poller[p] \in {"none", "starting", "counting", "polling", "pushing",
                       "ending", "discounting", "gone"}

\* The numbers of the key hits in the ring.
Queued == [i \in 1 .. n_written |-> kids[(start_index + i - 1) % KB_QUEUE_LENGTH].n]

\* Nothing but a full ring loses a key hit, and then the oldest, with one
\* exception: when the start index has run over the end of the array the next
\* read takes a record from behind it and the newest key hit is lost instead
\* (keyboard.c 157-158, 494-500).  However the ring runs over, key hits are
\* read in their order and none is read twice.
RingIsFifo ==
    [][/\ last' # last => last' > last
       /\ \/ Queued' = Queued
          \/ Queued # <<>> /\ Queued' = Tail(Queued)
          \/ Queued' = Append(Queued, pushed')
          \/ Len(Queued) = KB_QUEUE_LENGTH /\ Queued' = Append(Tail(Queued), pushed')
          \/ start_index = KB_QUEUE_LENGTH /\ Queued' = Front(Queued)]_keyboard

\* "3 sec should be enough; otherwise sometimes it hangs" (keyboard.c 385):
\* the initialization ends although the threads count themselves without a
\* lock and may start or end late.
InitializationEnds == <>(initialize \in {"ready", "failed"})
=============================================================================
