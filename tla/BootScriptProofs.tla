-------------------------- MODULE BootScriptProofs --------------------------
(***************************************************************************)
(* What module BootScript promises of the boot time program and of the     *)
(* ring of its keyboards, for every number of keyboards, every length of   *)
(* the ring and every depth of scripts.                                    *)
(***************************************************************************)
EXTENDS BootScript, SequenceTheorems, FiniteSetTheorems, TLAPS

\* The place in the ring of the next but i key hit to be read.
Place(i) == (start_index + i) % KB_QUEUE_LENGTH

\* The numbers of the key hits in the ring ascend from the last one read.  A
\* start index which has run over the end of the array goes with a full ring.
RingInOrder ==
    /\ start_index = KB_QUEUE_LENGTH => n_written = KB_QUEUE_LENGTH
    /\ \A i \in 0 .. n_written - 1 : kids[Place(i)].n > last
    /\ \A i, j \in 0 .. n_written - 1 : i < j => kids[Place(i)].n < kids[Place(j)].n

\* The threads which have a key hit to push.
Pushing == {p \in Pollers : poller[p] = "pushing"}

\* The variables of the keyboards are functions of the right domains, and
\* every key hit is pushed once or on its way.
KbTypes ==
    /\ KbTypeOK
    /\ hits \in Nat /\ pushed \in Nat
    /\ kids \in [Indices -> [key : Keys \cup {NoKey}, n : Nat]]
    /\ DOMAIN poller = Pollers /\ DOMAIN key = Pollers
    /\ \A p \in Pollers : poller[p] = "pushing" => key[p] \in Keys
    /\ IsFiniteSet(Pushing) /\ pushed + Cardinality(Pushing) <= hits

KbInv == KbTypes /\ RingInOrder

\* Which places scripts are at, and that Escape leads out of all of them.
ScriptInv ==
    /\ depth \in 0 .. MaxDepth /\ commands \in [Depths -> 0 .. MaxCommands]
    /\ \A d \in Depths : d > depth => commands[d] = 0
    /\ at \in {"boot", "exit?", "gone", "line", "leave", "check", "pause",
               "volumes", "job", "waiting"}
    /\ volumes \in 0 .. MaxVolumes
    /\ scripting_mode \in BOOLEAN /\ booting \in BOOLEAN /\ escape_flag \in BOOLEAN
    /\ abort_flag \in BOOLEAN /\ escaped \in BOOLEAN /\ broken \in BOOLEAN
    /\ scripting_mode = (booting \/ depth > 0)
    /\ at = "leave" => depth > 0
    /\ at \in {"boot", "exit?"} => depth = 0 /\ ~escaped
    /\ escaped => depth > 0 /\ escape_flag /\ at \notin {"line", "pause", "gone"}
    /\ broken = abort_flag

IInv == KbInv /\ ScriptInv

-----------------------------------------------------------------------------
(* The ring.                                                               *)

Wrap(a) == IF a < KB_QUEUE_LENGTH THEN a ELSE a - KB_QUEUE_LENGTH

\* All that has to be known of the remainder: indices are less than twice the
\* length of the ring.
LEMMA Remainder ==
    ASSUME NEW s \in 0 .. KB_QUEUE_LENGTH, NEW i \in 0 .. KB_QUEUE_LENGTH - 1
    PROVE  (s + i) % KB_QUEUE_LENGTH = Wrap(s + i) /\ Wrap(s + i) \in Indices
<1>1. KB_QUEUE_LENGTH \in Nat \ {0}
    BY KeyboardAssumption
<1>2. ASSUME NEW n \in Nat \ {0}, NEW a \in 0 .. n - 1
      PROVE  a % n = a
    OBVIOUS
<1>3. ASSUME NEW n \in Nat \ {0}, NEW a \in n .. 2 * n - 1
      PROVE  a % n = a - n
    OBVIOUS
<1>4. CASE s + i < KB_QUEUE_LENGTH
    <2>1. s + i \in 0 .. KB_QUEUE_LENGTH - 1
        BY <1>1, <1>4
    <2> QED
        BY <1>1, <1>2, <1>4, <2>1 DEF Wrap, Indices
<1>5. CASE s + i >= KB_QUEUE_LENGTH
    <2>1. s + i \in KB_QUEUE_LENGTH .. 2 * KB_QUEUE_LENGTH - 1
        BY <1>1, <1>5
    <2>2. Wrap(s + i) = (s + i) - KB_QUEUE_LENGTH /\ Wrap(s + i) \in Indices
        BY <1>1, <1>5, <2>1 DEF Wrap, Indices
    <2>3. (s + i) % KB_QUEUE_LENGTH = (s + i) - KB_QUEUE_LENGTH
        BY <1>1, <1>3, <2>1
    <2> QED
        BY <2>2, <2>3
<1> QED
    BY <1>1, <1>4, <1>5

LEMMA PlaceIs ==
    ASSUME start_index \in 0 .. KB_QUEUE_LENGTH, NEW i \in 0 .. KB_QUEUE_LENGTH - 1
    PROVE  Place(i) = Wrap(start_index + i) /\ Place(i) \in Indices
BY Remainder DEF Place

LEMMA NextPlaceIs ==
    ASSUME start_index' \in 0 .. KB_QUEUE_LENGTH, NEW i \in 0 .. KB_QUEUE_LENGTH - 1
    PROVE  Place(i)' = Wrap(start_index' + i) /\ Place(i)' \in Indices
BY Remainder DEF Place

\* The numbers of the queue, and when two queues are the same.
LEMMA QueuedIs ==
    KbTypes => /\ Queued \in Seq(Nat) /\ Len(Queued) = n_written
               /\ \A i \in 1 .. n_written : Queued[i] = kids[Place(i - 1)].n
<1> SUFFICES ASSUME KbTypes
             PROVE  /\ Queued \in Seq(Nat) /\ Len(Queued) = n_written
                    /\ \A i \in 1 .. n_written : Queued[i] = kids[Place(i - 1)].n
    OBVIOUS
<1>1. KB_QUEUE_LENGTH \in Nat /\ n_written \in 0 .. KB_QUEUE_LENGTH /\ start_index \in 0 .. KB_QUEUE_LENGTH
    BY KeyboardAssumption DEF KbTypes, KbTypeOK
<1>2. ASSUME NEW i \in 1 .. n_written
      PROVE  (start_index + i - 1) % KB_QUEUE_LENGTH = Place(i - 1) /\ Place(i - 1) \in Indices
    <2>1. start_index + i - 1 = start_index + (i - 1) /\ i - 1 \in 0 .. KB_QUEUE_LENGTH - 1
        BY <1>1
    <2> QED
        BY <1>1, <2>1, PlaceIs DEF Place
<1>3. \A i \in Indices : kids[i].n \in Nat
    BY DEF KbTypes
<1>4. Queued \in [1 .. n_written -> Nat]
    BY <1>2, <1>3 DEF Queued
<1>5. Queued \in Seq(Nat) /\ Len(Queued) = n_written
    BY <1>1, <1>4, SeqDef
<1> QED
    BY <1>2, <1>5 DEF Queued

\* A key hit is read: the first of the queue, or the last when the start index
\* has run over the end.
LEMMA ReadRing ==
    ASSUME KbInv, NEW r, Read(r)
    PROVE  /\ RingInOrder' /\ last' \in 0 .. pushed
           /\ start_index' \in 0 .. KB_QUEUE_LENGTH
           /\ last' # last => last' > last
           /\ n_written > 0 /\ n_written' = n_written - 1
           /\ \/ \A i \in 0 .. n_written' - 1 : kids'[Place(i)'] = kids[Place(i + 1)]
              \/ /\ start_index = KB_QUEUE_LENGTH
                 /\ \A i \in 0 .. n_written' - 1 : kids'[Place(i)'] = kids[Place(i)]
<1>1. /\ KB_QUEUE_LENGTH \in Nat \ {0} /\ n_written \in 1 .. KB_QUEUE_LENGTH
      /\ start_index \in 0 .. KB_QUEUE_LENGTH /\ start_index' = After(start_index + 1)
      /\ n_written' = n_written - 1 /\ r \in Records /\ kids' = kids
      /\ last' = IF r.n = 0 THEN last ELSE r.n
      /\ last \in Nat /\ last <= pushed /\ pushed \in Nat
      /\ \A i \in Indices : kids[i].n \in Nat /\ kids[i].n <= pushed
    <2>1. /\ n_written > 0 /\ start_index' = After(start_index + 1) /\ n_written' = n_written - 1
          /\ r \in Records /\ kids' = kids
          /\ last' = IF r.n = 0 THEN last ELSE r.n
        BY DEF Read
    <2>2. /\ n_written \in 0 .. KB_QUEUE_LENGTH /\ start_index \in 0 .. KB_QUEUE_LENGTH
          /\ last \in 0 .. pushed /\ pushed \in Nat
          /\ \A i \in Indices : kids[i].n \in 0 .. pushed
        BY DEF KbInv, KbTypes, KbTypeOK
    <2> QED
        BY <2>1, <2>2, KeyboardAssumption
<1>2. start_index' \in 0 .. KB_QUEUE_LENGTH /\ (start_index' = KB_QUEUE_LENGTH => FALSE)
    BY <1>1 DEF After
<1>3. /\ \A i \in 0 .. n_written - 1 : kids[Place(i)].n > last /\ Place(i) \in Indices
      /\ \A i, j \in 0 .. n_written - 1 : i < j => kids[Place(i)].n < kids[Place(j)].n
      /\ start_index = KB_QUEUE_LENGTH => n_written = KB_QUEUE_LENGTH
    BY <1>1, PlaceIs DEF KbInv, RingInOrder
<1>4. CASE start_index < KB_QUEUE_LENGTH
    <2>1. r = kids[start_index] /\ start_index \in Indices /\ Place(0) = start_index
        <3>1. start_index \in Indices /\ Wrap(start_index + 0) = start_index
            BY <1>1, <1>4 DEF Indices, Wrap
        <3>2. Place(0) = Wrap(start_index + 0)
            BY <1>1, PlaceIs
        <3> QED
            BY <1>1, <3>1, <3>2 DEF Records
    <2>2. last' = r.n /\ last' > last /\ last' \in 0 .. pushed /\ last' = kids[Place(0)].n
        BY <1>1, <1>3, <2>1
    <2>3. ASSUME NEW i \in 0 .. n_written' - 1
          PROVE  Place(i)' = Place(i + 1) /\ i + 1 \in 0 .. n_written - 1
        <3>1. i \in 0 .. KB_QUEUE_LENGTH - 1 /\ i + 1 \in 0 .. KB_QUEUE_LENGTH - 1 /\ i + 1 \in 0 .. n_written - 1
            BY <1>1
        <3>2. Place(i)' = Wrap(start_index' + i) /\ Place(i + 1) = Wrap(start_index + (i + 1))
            BY <1>1, <1>2, <3>1, PlaceIs, NextPlaceIs
        <3>3. Wrap(start_index' + i) = Wrap(start_index + (i + 1))
            BY <1>1, <1>4, <3>1 DEF Wrap, After
        <3> QED
            BY <3>1, <3>2, <3>3
    <2>4. \A i \in 0 .. n_written' - 1 : kids'[Place(i)'] = kids[Place(i + 1)]
        BY <1>1, <2>3
    <2>5. \A i \in 0 .. n_written' - 1 : kids'[Place(i)'].n > last'
        BY <1>1, <1>3, <2>2, <2>3, <2>4
    <2>6. \A i, j \in 0 .. n_written' - 1 : i < j => kids'[Place(i)'].n < kids'[Place(j)'].n
        BY <1>1, <1>3, <2>3, <2>4
    <2> QED
        BY <1>1, <1>2, <2>2, <2>4, <2>5, <2>6 DEF RingInOrder
<1>5. CASE start_index = KB_QUEUE_LENGTH
    <2>1. last' = last
        BY <1>1, <1>5 DEF Records, Indices
    <2>2. ASSUME NEW i \in 0 .. n_written' - 1
          PROVE  Place(i)' = Place(i) /\ i \in 0 .. n_written - 1
        <3>1. i \in 0 .. KB_QUEUE_LENGTH - 1 /\ i \in 0 .. n_written - 1
            BY <1>1
        <3>2. Place(i)' = Wrap(start_index' + i) /\ Place(i) = Wrap(start_index + i)
            BY <1>1, <1>2, <3>1, PlaceIs, NextPlaceIs
        <3>3. Wrap(start_index' + i) = Wrap(start_index + i)
            BY <1>1, <1>5, <3>1 DEF Wrap, After
        <3> QED
            BY <3>1, <3>2, <3>3
    <2>3. \A i \in 0 .. n_written' - 1 : kids'[Place(i)'] = kids[Place(i)]
        BY <1>1, <2>2
    <2>4. \A i \in 0 .. n_written' - 1 : kids'[Place(i)'].n > last'
        BY <1>1, <1>3, <2>1, <2>2, <2>3
    <2>5. \A i, j \in 0 .. n_written' - 1 : i < j => kids'[Place(i)'].n < kids'[Place(j)'].n
        BY <1>1, <1>3, <2>2, <2>3
    <2> QED
        BY <1>1, <1>2, <1>5, <2>1, <2>3, <2>4, <2>5 DEF RingInOrder
<1> QED
    BY <1>1, <1>4, <1>5

\* A key hit is pushed: behind the others, in the place of the first one when
\* the ring is full.
LEMMA PushRing ==
    ASSUME KbInv, NEW p \in Pollers, Push(p)
    PROVE  /\ RingInOrder' /\ start_index' \in 0 .. KB_QUEUE_LENGTH
           /\ Slot \in Indices
           /\ \/ /\ n_written' = n_written + 1 /\ n_written < KB_QUEUE_LENGTH
                 /\ \A i \in 0 .. n_written - 1 : kids'[Place(i)'] = kids[Place(i)]
              \/ /\ n_written' = n_written /\ n_written = KB_QUEUE_LENGTH
                 /\ \A i \in 0 .. n_written - 2 : kids'[Place(i)'] = kids[Place(i + 1)]
           /\ \A i \in 0 .. n_written' - 1 : i = n_written' - 1 => kids'[Place(i)'].n = pushed + 1
<1>1. /\ KB_QUEUE_LENGTH \in Nat \ {0} /\ n_written \in 0 .. KB_QUEUE_LENGTH
      /\ start_index \in 0 .. KB_QUEUE_LENGTH
      /\ last \in Nat /\ last <= pushed /\ pushed \in Nat /\ last' = last
      /\ \A i \in Indices : kids[i].n \in Nat /\ kids[i].n <= pushed
      /\ kids' = [kids EXCEPT ![Slot] = [key |-> key[p], n |-> pushed + 1]]
      /\ DOMAIN kids = Indices
    <2>1. /\ n_written \in 0 .. KB_QUEUE_LENGTH /\ start_index \in 0 .. KB_QUEUE_LENGTH
          /\ last \in 0 .. pushed /\ pushed \in Nat
          /\ \A i \in Indices : kids[i].n \in 0 .. pushed
          /\ DOMAIN kids = Indices
        BY DEF KbInv, KbTypes, KbTypeOK
    <2>2. last' = last /\ kids' = [kids EXCEPT ![Slot] = [key |-> key[p], n |-> pushed + 1]]
        BY DEF Push
    <2> QED
        BY <2>1, <2>2, KeyboardAssumption
<1>2. /\ Start \in 0 .. KB_QUEUE_LENGTH - 1
      /\ start_index < KB_QUEUE_LENGTH => Start = start_index
      /\ start_index = KB_QUEUE_LENGTH => Start = 0
    BY <1>1 DEF Start, Indices
<1>3. /\ \A i \in 0 .. n_written - 1 : kids[Place(i)].n > last /\ Place(i) \in Indices
      /\ \A i, j \in 0 .. n_written - 1 : i < j => kids[Place(i)].n < kids[Place(j)].n
      /\ start_index = KB_QUEUE_LENGTH => n_written = KB_QUEUE_LENGTH
    BY <1>1, PlaceIs DEF KbInv, RingInOrder
<1>4. Slot = Wrap(Start + n_written) /\ Slot \in Indices
    <2>1. Start + n_written = n_written + Start
        BY <1>1, <1>2
    <2>2. (n_written + Start) % KB_QUEUE_LENGTH = Wrap(n_written + Start) /\ Wrap(n_written + Start) \in Indices
        BY <1>1, <1>2, Remainder
    <2> QED
        BY <2>1, <2>2 DEF Slot
<1>5. /\ kids'[Slot].n = pushed + 1
      /\ \A i \in Indices : i # Slot => kids'[i] = kids[i]
    BY <1>1, <1>4
<1>6. \A i \in 0 .. KB_QUEUE_LENGTH - 1 : Place(i) = Wrap(Start + i)
    <2> SUFFICES ASSUME NEW i \in 0 .. KB_QUEUE_LENGTH - 1 PROVE Place(i) = Wrap(Start + i)
        OBVIOUS
    <2>1. Place(i) = Wrap(start_index + i)
        BY <1>1, PlaceIs
    <2>2. Wrap(start_index + i) = Wrap(Start + i)
        BY <1>1, <1>2 DEF Wrap
    <2> QED
        BY <2>1, <2>2
<1>7. CASE n_written < KB_QUEUE_LENGTH
    <2>1. start_index' = Start /\ n_written' = n_written + 1
        BY <1>1, <1>7 DEF Push
    <2>2. \A i \in 0 .. n_written : Place(i)' = Wrap(Start + i) /\ Place(i)' \in Indices
        BY <1>1, <1>2, <1>7, <2>1, NextPlaceIs
    <2>3. \A i \in 0 .. n_written - 1 : Place(i)' = Place(i) /\ Place(i)' # Slot
        <3> SUFFICES ASSUME NEW i \in 0 .. n_written - 1 PROVE Place(i)' = Place(i) /\ Place(i)' # Slot
            OBVIOUS
        <3>1. i \in 0 .. n_written /\ i \in 0 .. KB_QUEUE_LENGTH - 1
            BY <1>1
        <3>2. Place(i)' = Wrap(Start + i) /\ Place(i) = Wrap(Start + i)
            BY <1>6, <2>2, <3>1
        <3>3. Wrap(Start + i) # Wrap(Start + n_written)
            BY <1>1, <1>2, <1>7, <3>1 DEF Wrap
        <3> QED
            BY <1>4, <3>2, <3>3
    <2>4. \A i \in 0 .. n_written - 1 : kids'[Place(i)'] = kids[Place(i)]
        BY <1>1, <1>5, <2>2, <2>3
    <2>5. \A i \in 0 .. n_written : i = n_written => kids'[Place(i)'].n = pushed + 1
        <3>1. \A i \in 0 .. n_written : i = n_written => Place(i)' = Slot
            BY <1>1, <1>4, <2>2
        <3> QED
            BY <1>5, <3>1
    <2>6. \A i \in 0 .. n_written : kids'[Place(i)'].n > last'
        BY <1>1, <1>3, <2>4, <2>5
    <2>7. \A i, j \in 0 .. n_written : i < j => kids'[Place(i)'].n < kids'[Place(j)'].n
        <3> SUFFICES ASSUME NEW i \in 0 .. n_written, NEW j \in 0 .. n_written, i < j
                     PROVE  kids'[Place(i)'].n < kids'[Place(j)'].n
            OBVIOUS
        <3>1. i \in 0 .. n_written - 1 /\ kids'[Place(i)'] = kids[Place(i)] /\ kids[Place(i)].n <= pushed
              /\ kids[Place(i)].n \in Nat
            BY <1>1, <1>3, <2>4
        <3>2. CASE j = n_written
            BY <1>1, <2>5, <3>1, <3>2
        <3>3. CASE j # n_written
            BY <1>1, <1>3, <2>4, <3>1, <3>3
        <3> QED
            BY <3>2, <3>3
    <2>8. n_written' - 1 = n_written /\ start_index' # KB_QUEUE_LENGTH /\ start_index' \in 0 .. KB_QUEUE_LENGTH
        BY <1>1, <1>2, <2>1
    <2>9. RingInOrder'
        BY <2>6, <2>7, <2>8 DEF RingInOrder
    <2> QED
        BY <1>4, <1>7, <2>1, <2>4, <2>5, <2>8, <2>9
<1>8. CASE n_written = KB_QUEUE_LENGTH
    <2>1. start_index' = Start + 1 /\ n_written' = n_written
        BY <1>1, <1>8 DEF Push
    <2>2. \A i \in 0 .. n_written - 1 : Place(i)' = Wrap(Start + 1 + i) /\ Place(i)' \in Indices
        <3>1. start_index' \in 0 .. KB_QUEUE_LENGTH
            BY <1>1, <1>2, <2>1
        <3> QED
            BY <1>8, <2>1, <3>1, NextPlaceIs
    <2>3. \A i \in 0 .. n_written - 2 : Place(i)' = Place(i + 1) /\ Place(i)' # Slot /\ i + 1 \in 0 .. n_written - 1
        <3> SUFFICES ASSUME NEW i \in 0 .. n_written - 2
                     PROVE  Place(i)' = Place(i + 1) /\ Place(i)' # Slot /\ i + 1 \in 0 .. n_written - 1
            OBVIOUS
        <3>1. i \in 0 .. n_written - 1 /\ i + 1 \in 0 .. KB_QUEUE_LENGTH - 1
            BY <1>1, <1>8
        <3>2. Place(i)' = Wrap(Start + 1 + i) /\ Place(i + 1) = Wrap(Start + (i + 1))
            BY <1>6, <2>2, <3>1
        <3>3. /\ Wrap(Start + (i + 1)) # Wrap(Start + n_written)
              /\ Wrap(Start + (i + 1)) = Wrap(Start + 1 + i)
            BY <1>1, <1>2, <1>8, <3>1 DEF Wrap
        <3> QED
            BY <1>4, <1>8, <3>1, <3>2, <3>3
    <2>4. \A i \in 0 .. n_written - 2 : kids'[Place(i)'] = kids[Place(i + 1)]
        <3>1. \A i \in 0 .. n_written - 2 : i \in 0 .. n_written - 1
            BY <1>1
        <3> QED
            BY <1>5, <2>2, <2>3, <3>1
    <2>5. \A i \in 0 .. n_written - 1 : i = n_written - 1 => kids'[Place(i)'].n = pushed + 1
        <3> SUFFICES ASSUME NEW i \in 0 .. n_written - 1, i = n_written - 1
                     PROVE  kids'[Place(i)'].n = pushed + 1
            OBVIOUS
        <3>1. Place(i)' = Wrap(Start + 1 + i)
            BY <2>2
        <3>2. Start + 1 + i = Start + n_written
            BY <1>1, <1>2
        <3> QED
            BY <1>4, <1>5, <3>1, <3>2
    <2>6. \A i \in 0 .. n_written - 1 : kids'[Place(i)'].n > last'
        <3> SUFFICES ASSUME NEW i \in 0 .. n_written - 1 PROVE kids'[Place(i)'].n > last'
            OBVIOUS
        <3>1. CASE i = n_written - 1
            BY <1>1, <2>5, <3>1
        <3>2. CASE i # n_written - 1
            <4>1. i \in 0 .. n_written - 2 /\ i + 1 \in 0 .. n_written - 1
                BY <1>1, <3>2
            <4> QED
                BY <1>1, <1>3, <2>4, <4>1
        <3> QED
            BY <3>1, <3>2
    <2>7. \A i, j \in 0 .. n_written - 1 : i < j => kids'[Place(i)'].n < kids'[Place(j)'].n
        <3> SUFFICES ASSUME NEW i \in 0 .. n_written - 1, NEW j \in 0 .. n_written - 1, i < j
                     PROVE  kids'[Place(i)'].n < kids'[Place(j)'].n
            OBVIOUS
        <3>1. i \in 0 .. n_written - 2 /\ i + 1 \in 0 .. n_written - 1
            BY <1>1
        <3>2. kids'[Place(i)'] = kids[Place(i + 1)] /\ kids[Place(i + 1)].n <= pushed /\ kids[Place(i + 1)].n \in Nat
            BY <1>1, <1>3, <2>4, <3>1
        <3>3. CASE j = n_written - 1
            BY <1>1, <2>5, <3>2, <3>3
        <3>4. CASE j # n_written - 1
            <4>1. j \in 0 .. n_written - 2 /\ j + 1 \in 0 .. n_written - 1 /\ i + 1 < j + 1
                BY <1>1, <3>4
            <4> QED
                BY <1>3, <2>4, <3>1, <3>2, <4>1
        <3> QED
            BY <3>3, <3>4
    <2>8. start_index' \in 0 .. KB_QUEUE_LENGTH
        BY <1>1, <1>2, <2>1
    <2>9. RingInOrder'
        BY <1>8, <2>1, <2>6, <2>7 DEF RingInOrder
    <2> QED
        BY <1>4, <1>8, <2>1, <2>4, <2>5, <2>8, <2>9
<1> QED
    BY <1>1, <1>7, <1>8

-----------------------------------------------------------------------------
(* The keyboards step by step.                                             *)

FifoStep ==
    /\ last' # last => last' > last
    /\ \/ Queued' = Queued
       \/ Queued # <<>> /\ Queued' = Tail(Queued)
       \/ Queued' = Append(Queued, pushed')
       \/ Len(Queued) = KB_QUEUE_LENGTH /\ Queued' = Append(Tail(Queued), pushed')
       \/ start_index = KB_QUEUE_LENGTH /\ Queued' = Front(Queued)

LEMMA QuietRing ==
    ASSUME KbInv, UNCHANGED <<ring, last>>
    PROVE  RingInOrder' /\ FifoStep
BY DEF KbInv, RingInOrder, FifoStep, Queued, Place, ring

LEMMA ReadIsFifo ==
    ASSUME KbInv, KbTypes', NEW r, Read(r)
    PROVE  FifoStep
<1>1. /\ Queued \in Seq(Nat) /\ Len(Queued) = n_written
      /\ \A i \in 1 .. n_written : Queued[i] = kids[Place(i - 1)].n
    BY QueuedIs DEF KbInv
<1>2. (KbTypes => /\ Queued \in Seq(Nat) /\ Len(Queued) = n_written
                  /\ \A i \in 1 .. n_written : Queued[i] = kids[Place(i - 1)].n)'
    BY QueuedIs, PTL
<1>3. /\ Queued' \in Seq(Nat) /\ Len(Queued') = n_written'
      /\ \A i \in 1 .. n_written' : Queued'[i] = kids'[Place(i - 1)'].n
    BY <1>2
<1>4. /\ last' # last => last' > last
      /\ n_written > 0 /\ n_written' = n_written - 1 /\ n_written \in Nat
    <2>1. n_written \in Nat
        BY KeyboardAssumption DEF KbInv, KbTypes, KbTypeOK
    <2> QED
        BY <2>1, ReadRing
<1>5. Queued # <<>>
    BY <1>1, <1>4
<1>6. CASE \A i \in 0 .. n_written' - 1 : kids'[Place(i)'] = kids[Place(i + 1)]
    <2>1. Tail(Queued) \in Seq(Nat) /\ Len(Tail(Queued)) = n_written'
          /\ \A i \in 1 .. n_written' : Tail(Queued)[i] = Queued[i + 1]
        BY <1>1, <1>4, <1>5, HeadTailProperties
    <2>2. \A i \in 1 .. n_written' : Queued'[i] = Tail(Queued)[i]
        <3> SUFFICES ASSUME NEW i \in 1 .. n_written' PROVE Queued'[i] = Tail(Queued)[i]
            OBVIOUS
        <3>1. i - 1 \in 0 .. n_written' - 1 /\ (i - 1) + 1 = i /\ i + 1 \in 1 .. n_written /\ (i + 1) - 1 = i
            BY <1>4
        <3>2. kids'[Place(i - 1)'] = kids[Place(i)]
            BY <1>6, <3>1
        <3>3. Queued[i + 1] = kids[Place(i)].n
            BY <1>1, <3>1
        <3> QED
            BY <1>3, <2>1, <3>2, <3>3
    <2>3. Queued' = Tail(Queued)
        BY <1>3, <2>1, <2>2, SeqEqual
    <2> QED
        BY <1>4, <1>5, <2>3 DEF FifoStep
<1>7. CASE /\ start_index = KB_QUEUE_LENGTH
           /\ \A i \in 0 .. n_written' - 1 : kids'[Place(i)'] = kids[Place(i)]
    <2>1. Front(Queued) \in Seq(Nat) /\ Len(Front(Queued)) = n_written'
          /\ \A i \in 1 .. n_written' : Front(Queued)[i] = Queued[i]
        <3>1. \A i \in 1 .. n_written - 1 : Queued[i] \in Nat
            BY <1>1, <1>4, ElementOfSeq
        <3>2. /\ SubSeq(Queued, 1, n_written - 1) \in Seq(Nat)
              /\ Len(SubSeq(Queued, 1, n_written - 1)) = n_written'
              /\ \A i \in 1 .. n_written' : SubSeq(Queued, 1, n_written - 1)[i] = Queued[i]
            <4>1. \A S : \A s : \A m, n \in Int : (\A i \in m .. n : s[i] \in S) =>
                    /\ SubSeq(s, m, n) \in Seq(S)
                    /\ Len(SubSeq(s, m, n)) = IF m <= n THEN n - m + 1 ELSE 0
                    /\ \A i \in 1 .. n - m + 1 : SubSeq(s, m, n)[i] = s[m + i - 1]
                BY SubSeqProperties
            <4> DEFINE Q == SubSeq(Queued, 1, n_written - 1)
            <4>2. /\ Q \in Seq(Nat)
                  /\ Len(Q) = IF 1 <= n_written - 1 THEN (n_written - 1) - 1 + 1 ELSE 0
                  /\ \A i \in 1 .. (n_written - 1) - 1 + 1 : Q[i] = Queued[1 + i - 1]
                BY <1>4, <3>1, <4>1
            <4> HIDE DEF Q
            <4>3. Len(Q) = n_written' /\ (n_written - 1) - 1 + 1 = n_written'
                BY <1>4, <4>2
            <4>4. \A i \in 1 .. n_written' : 1 + i - 1 = i
                OBVIOUS
            <4> QED
                BY <4>2, <4>3, <4>4 DEF Q
        <3> QED
            BY <1>1, <3>2 DEF Front
    <2>2. \A i \in 1 .. n_written' : Queued'[i] = Front(Queued)[i]
        <3> SUFFICES ASSUME NEW i \in 1 .. n_written' PROVE Queued'[i] = Front(Queued)[i]
            OBVIOUS
        <3>1. i - 1 \in 0 .. n_written' - 1 /\ i \in 1 .. n_written
            BY <1>4
        <3>2. kids'[Place(i - 1)'] = kids[Place(i - 1)]
            BY <1>7, <3>1
        <3>3. Queued[i] = kids[Place(i - 1)].n
            BY <1>1, <3>1
        <3> QED
            BY <1>3, <2>1, <3>2, <3>3
    <2>3. Queued' = Front(Queued)
        BY <1>3, <2>1, <2>2, SeqEqual
    <2> QED
        BY <1>4, <1>7, <2>3 DEF FifoStep
<1> QED
    BY <1>6, <1>7, ReadRing

LEMMA PushIsFifo ==
    ASSUME KbInv, KbTypes', NEW p \in Pollers, Push(p)
    PROVE  FifoStep
<1>1. /\ Queued \in Seq(Nat) /\ Len(Queued) = n_written
      /\ \A i \in 1 .. n_written : Queued[i] = kids[Place(i - 1)].n
    BY QueuedIs DEF KbInv
<1>2. (KbTypes => /\ Queued \in Seq(Nat) /\ Len(Queued) = n_written
                  /\ \A i \in 1 .. n_written : Queued[i] = kids[Place(i - 1)].n)'
    BY QueuedIs, PTL
<1>3. /\ Queued' \in Seq(Nat) /\ Len(Queued') = n_written'
      /\ \A i \in 1 .. n_written' : Queued'[i] = kids'[Place(i - 1)'].n
    BY <1>2
<1>4. /\ last' = last /\ n_written \in Nat /\ pushed \in Nat /\ pushed' = pushed + 1
      /\ KB_QUEUE_LENGTH \in Nat \ {0}
    BY KeyboardAssumption DEF KbInv, KbTypes, KbTypeOK, Push
<1>5. \A i \in 1 .. n_written' : i = n_written' => Queued'[i] = pushed'
    <2> SUFFICES ASSUME NEW i \in 1 .. n_written', i = n_written' PROVE Queued'[i] = pushed'
        OBVIOUS
    <2>1. n_written' \in Nat
        BY KeyboardAssumption DEF KbTypes, KbTypeOK
    <2>2. i - 1 \in 0 .. n_written' - 1
        <3>1. \A n \in Nat : \A j \in 1 .. n : j - 1 \in 0 .. n - 1
            OBVIOUS
        <3> QED
            BY <2>1, <3>1
    <2>3. kids'[Place(i - 1)'].n = pushed + 1
        BY <2>2, PushRing
    <2> QED
        BY <1>3, <1>4, <2>3
<1>6. CASE /\ n_written' = n_written + 1
           /\ \A i \in 0 .. n_written - 1 : kids'[Place(i)'] = kids[Place(i)]
    <2> DEFINE Q == Append(Queued, pushed')
    <2>1. Q \in Seq(Nat) /\ Len(Q) = n_written + 1 /\ Q[n_written + 1] = pushed'
          /\ \A i \in 1 .. n_written : Q[i] = Queued[i]
        BY <1>1, <1>4, AppendProperties
    <2> HIDE DEF Q
    <2>2. ASSUME NEW i \in 1 .. n_written + 1
          PROVE  Queued'[i] = Q[i]
        <3>1. CASE i = n_written + 1
            BY <1>5, <1>6, <2>1, <3>1
        <3>2. CASE i # n_written + 1
            <4>1. i \in 1 .. n_written /\ i \in 1 .. n_written' /\ i - 1 \in 0 .. n_written - 1
                BY <1>4, <1>6, <3>2
            <4>2. kids'[Place(i - 1)'] = kids[Place(i - 1)]
                BY <1>6, <4>1
            <4> QED
                BY <1>1, <1>3, <2>1, <4>1, <4>2
        <3> QED
            BY <3>1, <3>2
    <2>3. Queued' = Q
        BY <1>3, <1>6, <2>1, <2>2, SeqEqual
    <2> QED
        BY <1>4, <2>3 DEF FifoStep, Q
<1>7. CASE /\ n_written' = n_written /\ n_written = KB_QUEUE_LENGTH
           /\ \A i \in 0 .. n_written - 2 : kids'[Place(i)'] = kids[Place(i + 1)]
    <2>1. Queued # <<>>
        BY <1>1, <1>4, <1>7
    <2>2. /\ Tail(Queued) \in Seq(Nat) /\ Len(Tail(Queued)) = n_written - 1
          /\ \A i \in 1 .. n_written - 1 : Tail(Queued)[i] = Queued[i + 1]
        BY <1>1, <2>1, HeadTailProperties
    <2> DEFINE Q == Append(Tail(Queued), pushed')
    <2>3. Q \in Seq(Nat) /\ Len(Q) = n_written /\ Q[n_written] = pushed'
          /\ \A i \in 1 .. n_written - 1 : Q[i] = Queued[i + 1]
        <3>1. pushed' \in Nat /\ (n_written - 1) + 1 = n_written
            BY <1>4
        <3> QED
            BY <2>2, <3>1, AppendProperties
    <2> HIDE DEF Q
    <2>4. ASSUME NEW i \in 1 .. n_written
          PROVE  Queued'[i] = Q[i]
        <3>1. CASE i = n_written
            BY <1>5, <1>7, <2>3, <3>1
        <3>2. CASE i # n_written
            <4>1. /\ i \in 1 .. n_written - 1 /\ i + 1 \in 1 .. n_written /\ i - 1 \in 0 .. n_written - 2
                  /\ (i - 1) + 1 = i /\ (i + 1) - 1 = i
                BY <1>4, <3>2
            <4>2. kids'[Place(i - 1)'] = kids[Place(i)]
                BY <1>7, <4>1
            <4>3. Queued[i + 1] = kids[Place(i)].n
                BY <1>1, <4>1
            <4> QED
                BY <1>3, <1>7, <2>3, <4>1, <4>2, <4>3
        <3> QED
            BY <3>1, <3>2
    <2>5. Queued' = Q
        BY <1>3, <1>7, <2>3, <2>4, SeqEqual
    <2> QED
        BY <1>1, <1>4, <1>7, <2>5 DEF FifoStep, Q
<1> QED
    BY <1>6, <1>7, PushRing

\* What a step may do with the threads.
LEMMA PushingLess ==
    ASSUME KbTypes, \A p \in Pollers : poller'[p] = "pushing" => poller[p] = "pushing",
           pushed' = pushed, hits' = hits
    PROVE  IsFiniteSet(Pushing)' /\ pushed' + Cardinality(Pushing)' <= hits'
<1>1. Pushing' \in SUBSET Pushing
    BY DEF Pushing
<1>2. /\ IsFiniteSet(Pushing) /\ pushed + Cardinality(Pushing) <= hits
      /\ pushed \in Nat /\ hits \in Nat
    BY DEF KbTypes
<1>3. /\ IsFiniteSet(Pushing') /\ Cardinality(Pushing') <= Cardinality(Pushing)
      /\ Cardinality(Pushing') \in Nat /\ Cardinality(Pushing) \in Nat
    BY <1>1, <1>2, FS_Subset, FS_CardinalityType
<1> QED
    BY <1>2, <1>3

LEMMA ReadCountKeys ==
    ASSUME KbInv, NEW p \in Pollers, ReadCount(p)
    PROVE  KbInv' /\ FifoStep
<1> USE DEF ReadCount, Moves, ring, threads
<1>1. UNCHANGED <<ring, last, hits, pushed>>
    OBVIOUS
<1>2. RingInOrder' /\ FifoStep
    BY <1>1, QuietRing
<1>3. \A q \in Pollers : poller'[q] = "pushing" => poller[q] = "pushing" /\ key'[q] = key[q]
    BY DEF KbInv, KbTypes
<1>4. IsFiniteSet(Pushing)' /\ pushed' + Cardinality(Pushing)' <= hits'
    BY <1>1, <1>3, PushingLess DEF KbInv
<1>5. KbTypeOK' /\ DOMAIN poller' = Pollers /\ DOMAIN key' = Pollers
    BY <1>1 DEF KbInv, KbTypes, KbTypeOK
<1> QED
    BY <1>1, <1>2, <1>3, <1>4, <1>5 DEF KbInv, KbTypes

LEMMA WriteCountKeys ==
    ASSUME KbInv, NEW p \in Pollers, WriteCount(p)
    PROVE  KbInv' /\ FifoStep
<1> USE DEF WriteCount, Moves, ring, threads
<1>1. UNCHANGED <<ring, last, hits, pushed>>
    OBVIOUS
<1>2. RingInOrder' /\ FifoStep
    BY <1>1, QuietRing
<1>3. \A q \in Pollers : poller'[q] = "pushing" => poller[q] = "pushing" /\ key'[q] = key[q]
    BY DEF KbInv, KbTypes
<1>4. IsFiniteSet(Pushing)' /\ pushed' + Cardinality(Pushing)' <= hits'
    BY <1>1, <1>3, PushingLess DEF KbInv
<1>5. KbTypeOK' /\ DOMAIN poller' = Pollers /\ DOMAIN key' = Pollers
    BY <1>1 DEF KbInv, KbTypes, KbTypeOK
<1> QED
    BY <1>1, <1>2, <1>3, <1>4, <1>5 DEF KbInv, KbTypes

LEMMA GiveUpKeys ==
    ASSUME KbInv, NEW p \in Pollers, GiveUp(p)
    PROVE  KbInv' /\ FifoStep
<1> USE DEF GiveUp, Moves, ring, threads
<1>1. UNCHANGED <<ring, last, hits, pushed>>
    OBVIOUS
<1>2. RingInOrder' /\ FifoStep
    BY <1>1, QuietRing
<1>3. \A q \in Pollers : poller'[q] = "pushing" => poller[q] = "pushing" /\ key'[q] = key[q]
    BY DEF KbInv, KbTypes
<1>4. IsFiniteSet(Pushing)' /\ pushed' + Cardinality(Pushing)' <= hits'
    BY <1>1, <1>3, PushingLess DEF KbInv
<1>5. KbTypeOK' /\ DOMAIN poller' = Pollers /\ DOMAIN key' = Pollers
    BY <1>1 DEF KbInv, KbTypes, KbTypeOK
<1> QED
    BY <1>1, <1>2, <1>3, <1>4, <1>5 DEF KbInv, KbTypes

LEMMA FirstOpenKeys ==
    ASSUME KbInv, FirstOpen
    PROVE  KbInv' /\ FifoStep
<1> USE DEF FirstOpen, Moves, ring, threads
<1>1. UNCHANGED <<ring, last, hits, pushed>>
    OBVIOUS
<1>2. RingInOrder' /\ FifoStep
    BY <1>1, QuietRing
<1>3. \A q \in Pollers : poller'[q] = "pushing" => poller[q] = "pushing" /\ key'[q] = key[q]
    BY DEF KbInv, KbTypes
<1>4. IsFiniteSet(Pushing)' /\ pushed' + Cardinality(Pushing)' <= hits'
    BY <1>1, <1>3, PushingLess DEF KbInv
<1>5. KbTypeOK' /\ DOMAIN poller' = Pollers /\ DOMAIN key' = Pollers
    BY <1>1 DEF KbInv, KbTypes, KbTypeOK
<1> QED
    BY <1>1, <1>2, <1>3, <1>4, <1>5 DEF KbInv, KbTypes

LEMMA StopPollersKeys ==
    ASSUME KbInv, StopPollers
    PROVE  KbInv' /\ FifoStep
<1> USE DEF StopPollers, Moves, ring, threads
<1>1. UNCHANGED <<ring, last, hits, pushed>>
    OBVIOUS
<1>2. RingInOrder' /\ FifoStep
    BY <1>1, QuietRing
<1>3. \A q \in Pollers : poller'[q] = "pushing" => poller[q] = "pushing" /\ key'[q] = key[q]
    BY DEF KbInv, KbTypes
<1>4. IsFiniteSet(Pushing)' /\ pushed' + Cardinality(Pushing)' <= hits'
    BY <1>1, <1>3, PushingLess DEF KbInv
<1>5. KbTypeOK' /\ DOMAIN poller' = Pollers /\ DOMAIN key' = Pollers
    BY <1>1 DEF KbInv, KbTypes, KbTypeOK
<1> QED
    BY <1>1, <1>2, <1>3, <1>4, <1>5 DEF KbInv, KbTypes

LEMMA CloseKeys ==
    ASSUME KbInv, Close
    PROVE  KbInv' /\ FifoStep
<1> USE DEF Close, Moves, ring, threads
<1>1. UNCHANGED <<ring, last, hits, pushed>>
    OBVIOUS
<1>2. RingInOrder' /\ FifoStep
    BY <1>1, QuietRing
<1>3. \A q \in Pollers : poller'[q] = "pushing" => poller[q] = "pushing" /\ key'[q] = key[q]
    BY DEF KbInv, KbTypes
<1>4. IsFiniteSet(Pushing)' /\ pushed' + Cardinality(Pushing)' <= hits'
    BY <1>1, <1>3, PushingLess DEF KbInv
<1>5. KbTypeOK' /\ DOMAIN poller' = Pollers /\ DOMAIN key' = Pollers
    BY <1>1 DEF KbInv, KbTypes, KbTypeOK
<1> QED
    BY <1>1, <1>2, <1>3, <1>4, <1>5 DEF KbInv, KbTypes

LEMMA ReopenKeys ==
    ASSUME KbInv, Reopen
    PROVE  KbInv' /\ FifoStep
<1> USE DEF Reopen, Moves, ring, threads, OpenForGood
<1>1. UNCHANGED <<ring, last, hits, pushed>>
    OBVIOUS
<1>2. RingInOrder' /\ FifoStep
    BY <1>1, QuietRing
<1>3. \A q \in Pollers : poller'[q] = "pushing" => poller[q] = "pushing" /\ key'[q] = key[q]
    BY DEF KbInv, KbTypes
<1>4. IsFiniteSet(Pushing)' /\ pushed' + Cardinality(Pushing)' <= hits'
    BY <1>1, <1>3, PushingLess DEF KbInv
<1>5. KbTypeOK' /\ DOMAIN poller' = Pollers /\ DOMAIN key' = Pollers
    BY <1>1 DEF KbInv, KbTypes, KbTypeOK
<1> QED
    BY <1>1, <1>2, <1>3, <1>4, <1>5 DEF KbInv, KbTypes

LEMMA HitKeys ==
    ASSUME KbInv, NEW p \in Pollers, NEW k \in Keys, Hit(p, k)
    PROVE  KbInv' /\ FifoStep
<1> USE DEF Hit, Moves, ring
<1>1. UNCHANGED <<ring, last, pushed>> /\ hits' = hits + 1 /\ hits < MaxHits
    OBVIOUS
<1>2. RingInOrder' /\ FifoStep
    BY <1>1, QuietRing
<1>3. hits \in Nat /\ pushed \in Nat /\ pushed <= hits /\ hits + 1 <= MaxHits /\ MaxHits \in Nat
    BY <1>1, KeyboardAssumption DEF KbInv, KbTypes, KbTypeOK
<1>4. Pushing' = Pushing \cup {p} /\ p \notin Pushing
    BY DEF Pushing, KbInv, KbTypes
<1>5. /\ IsFiniteSet(Pushing) /\ pushed + Cardinality(Pushing) <= hits
      /\ Cardinality(Pushing) \in Nat
    BY FS_CardinalityType DEF KbInv, KbTypes
<1>6. IsFiniteSet(Pushing)' /\ pushed' + Cardinality(Pushing)' <= hits'
    <2>1. IsFiniteSet(Pushing') /\ Cardinality(Pushing') = Cardinality(Pushing) + 1
        BY <1>4, <1>5, FS_AddElement
    <2> QED
        BY <1>1, <1>3, <1>5, <2>1
<1>7. KbTypeOK'
    BY <1>1, <1>3 DEF KbInv, KbTypes, KbTypeOK
<1>8. /\ DOMAIN poller' = Pollers /\ DOMAIN key' = Pollers
      /\ \A q \in Pollers : poller'[q] = "pushing" => key'[q] \in Keys
    BY DEF KbInv, KbTypes
<1> QED
    BY <1>1, <1>2, <1>3, <1>6, <1>7, <1>8 DEF KbInv, KbTypes

LEMMA PushKeys ==
    ASSUME KbInv, NEW p \in Pollers, Push(p)
    PROVE  KbInv' /\ FifoStep
<1>1. /\ RingInOrder' /\ start_index' \in 0 .. KB_QUEUE_LENGTH /\ Slot \in Indices
    BY PushRing
<1>2. /\ pushed \in Nat /\ hits \in Nat /\ pushed' = pushed + 1 /\ hits' = hits /\ last' = last
      /\ last \in 0 .. pushed /\ hits <= MaxHits /\ initialize' = initialize
      /\ KB_QUEUE_LENGTH \in Nat \ {0} /\ n_written \in 0 .. KB_QUEUE_LENGTH
    BY KeyboardAssumption DEF KbInv, KbTypes, KbTypeOK, Push
<1>3. /\ Pushing' = Pushing \ {p} /\ p \in Pushing
      /\ DOMAIN poller' = Pollers /\ DOMAIN key' = Pollers
      /\ \A q \in Pollers : poller'[q] = "pushing" => key'[q] \in Keys
    BY DEF Pushing, KbInv, KbTypes, Push, Moves
<1>4. /\ IsFiniteSet(Pushing) /\ pushed + Cardinality(Pushing) <= hits
      /\ Cardinality(Pushing) \in Nat
    BY FS_CardinalityType DEF KbInv, KbTypes
<1>5. /\ IsFiniteSet(Pushing') /\ Cardinality(Pushing') = Cardinality(Pushing) - 1
      /\ Cardinality(Pushing') \in Nat
    BY <1>3, <1>4, FS_RemoveElement, FS_CardinalityType
<1>6. pushed' <= hits' /\ pushed' + Cardinality(Pushing') <= hits'
    BY <1>2, <1>4, <1>5
<1>7. /\ kids' \in [Indices -> [key : Keys \cup {NoKey}, n : Nat]]
      /\ \A i \in Indices : kids'[i].key \in Keys \cup {NoKey} /\ kids'[i].n \in 0 .. pushed'
    <2>1. [key |-> key[p], n |-> pushed + 1] \in [key : Keys \cup {NoKey}, n : Nat]
        BY <1>2 DEF KbInv, KbTypes, Push, Moves
    <2>2. kids' = [kids EXCEPT ![Slot] = [key |-> key[p], n |-> pushed + 1]]
        BY DEF Push
    <2>3. /\ kids \in [Indices -> [key : Keys \cup {NoKey}, n : Nat]]
          /\ \A i \in Indices : kids[i].n \in 0 .. pushed
        BY DEF KbInv, KbTypes, KbTypeOK
    <2>4. kids' \in [Indices -> [key : Keys \cup {NoKey}, n : Nat]]
        BY <2>1, <2>2, <2>3
    <2>5. \A i \in Indices : kids'[i].n \in 0 .. pushed'
        BY <1>2, <2>2, <2>3
    <2> QED
        BY <2>4, <2>5
<1>8. n_written' \in 0 .. KB_QUEUE_LENGTH
    BY <1>2 DEF Push
<1>9. \A q \in Pollers : poller'[q] \in {"none", "starting", "counting", "polling", "pushing",
                                        "ending", "discounting", "gone"}
    BY DEF KbInv, KbTypes, KbTypeOK, Push, Moves
<1>10. last' \in 0 .. pushed' /\ initialize' \in {"open", "wait", "close", "closing", "reopen", "ready", "failed"}
    BY <1>2 DEF KbInv, KbTypes, KbTypeOK
<1>11. KbTypeOK'
    BY <1>1, <1>2, <1>6, <1>7, <1>8, <1>9, <1>10 DEF KbTypeOK
<1>12. KbTypes'
    BY <1>2, <1>3, <1>5, <1>6, <1>7, <1>11 DEF KbTypes
<1> QED
    BY <1>1, <1>12, PushIsFifo DEF KbInv

\* A read, whatever becomes of the initialization.
LEMMA ReadKeys ==
    ASSUME KbInv, NEW r, Read(r),
           initialize' \in {"open", "wait", "close", "closing", "reopen", "ready", "failed"}
    PROVE  KbInv' /\ FifoStep
<1>1. /\ RingInOrder' /\ last' \in 0 .. pushed /\ start_index' \in 0 .. KB_QUEUE_LENGTH
      /\ n_written > 0 /\ n_written' = n_written - 1
    BY ReadRing
<1>2. UNCHANGED <<kids, hits, pushed, poller, key>>
    BY DEF Read, threads
<1>3. n_written' \in 0 .. KB_QUEUE_LENGTH
    BY <1>1, KeyboardAssumption DEF KbInv, KbTypes, KbTypeOK
<1>4. KbTypeOK'
    BY <1>1, <1>2, <1>3 DEF KbInv, KbTypes, KbTypeOK
<1>5. IsFiniteSet(Pushing)' /\ pushed' + Cardinality(Pushing)' <= hits'
    BY <1>2, PushingLess DEF KbInv
<1>6. KbTypes'
    BY <1>2, <1>4, <1>5 DEF KbInv, KbTypes
<1> QED
    BY <1>1, <1>6, ReadIsFifo DEF KbInv

LEMMA WaitKeys ==
    ASSUME KbInv, WaitForKeyboards
    PROVE  KbInv' /\ FifoStep
<1>1. ASSUME NEW r \in Records, Read(r), initialize' = IF r.key = "Escape" THEN "close" ELSE "wait"
      PROVE  KbInv' /\ FifoStep
    BY <1>1, ReadKeys
<1>2. CASE initialize' = "close" /\ UNCHANGED <<ring, threads, opened, hits, pushed, last>>
    <2>1. RingInOrder' /\ FifoStep
        BY <1>2, QuietRing
    <2>2. IsFiniteSet(Pushing)' /\ pushed' + Cardinality(Pushing)' <= hits'
        BY <1>2, PushingLess DEF KbInv, threads
    <2> QED
        BY <1>2, <2>1, <2>2 DEF KbInv, KbTypes, KbTypeOK, ring, threads
<1> QED
    BY <1>1, <1>2 DEF WaitForKeyboards

LEMMA StillKeys ==
    ASSUME KbInv, UNCHANGED keyboard
    PROVE  KbInv' /\ FifoStep
<1>1. RingInOrder' /\ FifoStep
    BY QuietRing DEF keyboard
<1> QED
    BY <1>1 DEF KbInv, KbTypes, KbTypeOK, Pushing, keyboard, ring, threads

LEMMA InitKeys == KbInit => KbInv
<1> SUFFICES ASSUME KbInit PROVE KbInv
    OBVIOUS
<1>1. Pushing = {}
    BY DEF KbInit, Pushing
<1>2. IsFiniteSet(Pushing) /\ pushed + Cardinality(Pushing) <= hits
    BY <1>1, FS_EmptySet DEF KbInit
<1>3. /\ kids \in [Indices -> [key : Keys \cup {NoKey}, n : Nat]]
      /\ \A i \in Indices : kids[i].key \in Keys \cup {NoKey} /\ kids[i].n \in 0 .. pushed
    BY DEF KbInit
<1>4. KbTypeOK
    BY <1>3, KeyboardAssumption DEF KbInit, KbTypeOK
<1>5. RingInOrder
    BY KeyboardAssumption DEF KbInit, RingInOrder
<1> QED
    BY <1>2, <1>3, <1>4, <1>5 DEF KbInit, KbInv, KbTypes

LEMMA InitializeKeys ==
    ASSUME KbInv, Initialize
    PROVE  KbInv' /\ FifoStep
BY FirstOpenKeys, WaitKeys, StopPollersKeys, CloseKeys, ReopenKeys DEF Initialize

LEMMA PollerKeys ==
    ASSUME KbInv, Poller
    PROVE  KbInv' /\ FifoStep
BY ReadCountKeys, WriteCountKeys, GiveUpKeys, PushKeys, HitKeys DEF Poller

LEMMA TakeKeys ==
    ASSUME KbInv, NEW r, Take(r)
    PROVE  KbInv' /\ FifoStep
BY ReadKeys DEF KbInv, KbTypes, KbTypeOK, Take

-----------------------------------------------------------------------------
(* The program.                                                            *)

LEMMA ScriptStill ==
    ASSUME ScriptInv, UNCHANGED <<where, flags, history>>
    PROVE  ScriptInv'
BY DEF ScriptInv, where, flags, history

\* A script is called, by a line of another one or at the beginning.
LEMMA EnterTyped ==
    ASSUME ScriptInv, NEW STATE left, left \in [Depths -> 0 .. MaxCommands],
           \A d \in Depths : d > depth => left[d] = 0, EnterScript(left)
    PROVE  /\ depth' \in 1 .. MaxDepth /\ commands' \in [Depths -> 0 .. MaxCommands]
           /\ \A d \in Depths : d > depth' => commands'[d] = 0
           /\ at' = "line" /\ scripting_mode' = TRUE /\ escape_flag' = FALSE
<1>1. depth \in 0 .. MaxDepth /\ depth < MaxDepth /\ depth' = depth + 1
    BY DEF ScriptInv, EnterScript
<1>2. PICK n \in 0 .. MaxCommands : commands' = [left EXCEPT ![depth + 1] = n]
    BY DEF EnterScript
<1>3. depth' \in 1 .. MaxDepth
    BY <1>1, ScriptAssumption
<1>4. commands' \in [Depths -> 0 .. MaxCommands]
    BY <1>1, <1>2
<1>5. \A d \in Depths : d > depth' => commands'[d] = 0
    BY <1>1, <1>2, ScriptAssumption DEF Depths
<1> QED
    BY <1>3, <1>4, <1>5 DEF EnterScript

\* What else is true when it is called outside of an escaped one.
LEMMA EnterSound ==
    ASSUME ScriptInv, NEW STATE left, left \in [Depths -> 0 .. MaxCommands],
           \A d \in Depths : d > depth => left[d] = 0, EnterScript(left),
           ~escaped, UNCHANGED <<booting, volumes, abort_flag, escaped, broken>>
    PROVE  ScriptInv'
<1>1. /\ depth' \in 1 .. MaxDepth /\ commands' \in [Depths -> 0 .. MaxCommands]
      /\ \A d \in Depths : d > depth' => commands'[d] = 0
      /\ at' = "line" /\ scripting_mode' = TRUE /\ escape_flag' = FALSE
    BY EnterTyped
<1>2. depth' > 0 /\ depth' \in 0 .. MaxDepth
    BY <1>1, ScriptAssumption
<1>3. /\ volumes' \in 0 .. MaxVolumes /\ booting' \in BOOLEAN /\ abort_flag' \in BOOLEAN
      /\ escaped' = FALSE /\ broken' \in BOOLEAN /\ broken' = abort_flag'
    BY DEF ScriptInv
<1>4. scripting_mode' = (booting' \/ depth' > 0)
    BY <1>1, <1>2
<1>5. (at' \in {"boot", "exit?"} => depth' = 0 /\ ~escaped') /\ (at' = "leave" => depth' > 0)
    BY <1>1
<1>6. /\ at' \in {"boot", "exit?", "gone", "line", "leave", "check", "pause", "volumes", "job", "waiting"}
      /\ scripting_mode' \in BOOLEAN /\ escape_flag' \in BOOLEAN /\ escaped' \in BOOLEAN
    BY <1>1, <1>3
<1>7. escaped' => depth' > 0 /\ escape_flag' /\ at' \notin {"line", "pause", "gone"}
    BY <1>3
<1>8. depth' \in 0 .. MaxDepth /\ commands' \in [Depths -> 0 .. MaxCommands]
    BY <1>1, <1>2
<1>9. \A d \in Depths : d > depth' => commands'[d] = 0
    BY <1>1
<1> QED
    BY <1>3, <1>4, <1>5, <1>6, <1>7, <1>8, <1>9 DEF ScriptInv

LEMMA LeftTyped ==
    ASSUME ScriptInv, Command
    PROVE  Left \in [Depths -> 0 .. MaxCommands] /\ \A d \in Depths : d > depth => Left[d] = 0
BY ScriptAssumption DEF ScriptInv, Command, Left, Depths

LEMMA BootSound ==
    ASSUME IInv, Boot
    PROVE  IInv' /\ FifoStep
<1> USE DEF Boot
<1>1. KbInv' /\ FifoStep
    BY InitializeKeys, TakeKeys, StillKeys DEF IInv, Take
<1>2. ScriptInv'
    BY ScriptAssumption DEF IInv, ScriptInv, where, flags, history, Depths, EnterScript, Left, Command
<1> QED
    BY <1>1, <1>2 DEF IInv

LEMMA PromptToExitSound ==
    ASSUME IInv, PromptToExit
    PROVE  IInv' /\ FifoStep
<1> USE DEF PromptToExit
<1>1. KbInv' /\ FifoStep
    BY InitializeKeys, TakeKeys, StillKeys DEF IInv, Take
<1>2. ScriptInv'
    <2>1. CASE EnterScript(commands) /\ UNCHANGED <<keyboard, abort_flag>>
        <3>1. /\ commands \in [Depths -> 0 .. MaxCommands] /\ EnterScript(commands) /\ ScriptInv
              /\ \A d \in Depths : d > depth => commands[d] = 0
            BY <2>1 DEF IInv, ScriptInv
        <3>2. ~escaped /\ UNCHANGED <<booting, volumes, abort_flag, escaped, broken>>
            BY <2>1 DEF IInv, ScriptInv, history
        <3> QED
            BY <3>1, <3>2, EnterSound
    <2>2. CASE UNCHANGED <<depth, commands, flags>> /\ at' \in {"exit?", "gone"}
        BY <2>2 DEF IInv, ScriptInv, flags, history
    <2> QED
        BY <2>1, <2>2
<1> QED
    BY <1>1, <1>2 DEF IInv

LEMMA EndOfScriptSound ==
    ASSUME IInv, EndOfScript
    PROVE  IInv' /\ FifoStep
<1> USE DEF EndOfScript
<1>1. KbInv' /\ FifoStep
    BY InitializeKeys, TakeKeys, StillKeys DEF IInv, Take
<1>2. ScriptInv'
    BY ScriptAssumption DEF IInv, ScriptInv, where, flags, history, Depths, EnterScript, Left, Command
<1> QED
    BY <1>1, <1>2 DEF IInv

LEMMA LeaveScriptSound ==
    ASSUME IInv, LeaveScript
    PROVE  IInv' /\ FifoStep
<1> USE DEF LeaveScript
<1>1. KbInv' /\ FifoStep
    BY InitializeKeys, TakeKeys, StillKeys DEF IInv, Take
<1>2. ScriptInv'
    <2>1. /\ depth \in 1 .. MaxDepth /\ depth' = depth - 1 /\ commands' = [commands EXCEPT ![depth] = 0]
          /\ commands \in [Depths -> 0 .. MaxCommands]
          /\ \A d \in Depths : d > depth => commands[d] = 0
        BY ScriptAssumption DEF IInv, ScriptInv
    <2>2. /\ depth' \in 0 .. MaxDepth /\ commands' \in [Depths -> 0 .. MaxCommands]
          /\ \A d \in Depths : d > depth' => commands'[d] = 0
          /\ (depth' > 0 <=> depth > 1)
        BY <2>1, ScriptAssumption DEF Depths
    <2> QED
        <3>1. /\ at' = "check" /\ UNCHANGED <<volumes, escape_flag>>
              /\ scripting_mode' = (depth > 1) /\ booting' = (booting /\ depth > 1)
              /\ escaped' = (escaped /\ depth > 1)
              /\ abort_flag' = (abort_flag /\ ~(depth = 1 /\ booting))
              /\ broken' = (broken /\ ~(depth = 1 /\ booting))
            OBVIOUS
        <3> HIDE DEF LeaveScript
        <3>2. /\ volumes \in 0 .. MaxVolumes /\ broken = abort_flag /\ escape_flag \in BOOLEAN
              /\ escaped => escape_flag
            BY <3>1 DEF IInv, ScriptInv
        <3>3. scripting_mode' = (booting' \/ depth' > 0)
            <4>1. CASE depth > 1
                <5>1. depth' > 0 /\ scripting_mode' = TRUE
                    BY <2>2, <3>1, <4>1
                <5> QED
                    BY <5>1
            <4>2. CASE ~(depth > 1)
                <5>1. ~(depth' > 0)
                    BY <2>2, <4>2
                <5>2. booting' = FALSE
                    BY <3>1, <4>2
                <5>3. scripting_mode' = FALSE
                    <6>1. (depth > 1) = FALSE /\ scripting_mode' = (depth > 1)
                        BY <2>1, <3>1, <4>2
                    <6> QED
                        BY <6>1
                <5> QED
                    BY <5>1, <5>2, <5>3
            <4> QED
                BY <4>1, <4>2
        <3>4. escaped' => depth' > 0 /\ escape_flag'
            <4>1. CASE depth > 1
                <5>1. depth' > 0
                    BY <2>2, <4>1
                <5> QED
                    BY <3>1, <3>2, <5>1
            <4>2. CASE ~(depth > 1)
                BY <3>1, <4>2
            <4> QED
                BY <4>1, <4>2
        <3>5. /\ scripting_mode' \in BOOLEAN /\ booting' \in BOOLEAN /\ escape_flag' \in BOOLEAN
              /\ abort_flag' \in BOOLEAN /\ escaped' \in BOOLEAN /\ broken' \in BOOLEAN
              /\ broken' = abort_flag'
            BY <3>1, <3>2
        <3> QED
            BY <2>2, <3>1, <3>2, <3>3, <3>4, <3>5 DEF ScriptInv
<1> QED
    BY <1>1, <1>2 DEF IInv

LEMMA TypeSound ==
    ASSUME IInv, Type
    PROVE  IInv' /\ FifoStep
<1> USE DEF Type
<1>1. KbInv' /\ FifoStep
    BY InitializeKeys, TakeKeys, StillKeys DEF IInv, Take
<1>2. ScriptInv'
    BY ScriptAssumption DEF IInv, ScriptInv, where, flags, history, Depths, EnterScript, Left, Command
<1> QED
    BY <1>1, <1>2 DEF IInv

LEMMA OtherSound ==
    ASSUME IInv, Other
    PROVE  IInv' /\ FifoStep
<1> USE DEF Other
<1>1. KbInv' /\ FifoStep
    BY InitializeKeys, TakeKeys, StillKeys DEF IInv, Take
<1>2. ScriptInv'
    BY ScriptAssumption DEF IInv, ScriptInv, where, flags, history, Depths, EnterScript, Left, Command
<1> QED
    BY <1>1, <1>2 DEF IInv

LEMMA EndPauseSound ==
    ASSUME IInv, EndPause
    PROVE  IInv' /\ FifoStep
<1> USE DEF EndPause
<1>1. KbInv' /\ FifoStep
    BY InitializeKeys, TakeKeys, StillKeys DEF IInv, Take
<1>2. ScriptInv'
    BY ScriptAssumption DEF IInv, ScriptInv, where, flags, history, Depths, EnterScript, Left, Command
<1> QED
    BY <1>1, <1>2 DEF IInv

LEMMA CallSound ==
    ASSUME IInv, Call
    PROVE  IInv' /\ FifoStep
<1> USE DEF Call
<1>1. KbInv' /\ FifoStep
    BY InitializeKeys, TakeKeys, StillKeys DEF IInv, Take
<1>2. ScriptInv'
    <2>1. ScriptInv /\ Command /\ EnterScript(Left)
        BY DEF IInv
    <2>2. ~escaped /\ UNCHANGED <<booting, volumes, abort_flag, escaped, broken>>
        BY DEF IInv, ScriptInv, history, Command
    <2> QED
        BY <2>1, <2>2, LeftTyped, EnterSound
<1> QED
    BY <1>1, <1>2 DEF IInv

LEMMA CheckSound ==
    ASSUME IInv, Check
    PROVE  IInv' /\ FifoStep
<1> USE DEF Check
<1>1. KbInv' /\ FifoStep
    BY InitializeKeys, TakeKeys, StillKeys DEF IInv, Take
<1>2. ScriptInv'
    BY ScriptAssumption DEF IInv, ScriptInv, where, flags, history, Depths, EnterScript, Left, Command
<1> QED
    BY <1>1, <1>2 DEF IInv

LEMMA UdefragSound ==
    ASSUME IInv, Udefrag
    PROVE  IInv' /\ FifoStep
<1> USE DEF Udefrag
<1>1. KbInv' /\ FifoStep
    BY InitializeKeys, TakeKeys, StillKeys DEF IInv, Take
<1>2. ScriptInv'
    BY ScriptAssumption DEF IInv, ScriptInv, where, flags, history, Depths, EnterScript, Left, Command
<1> QED
    BY <1>1, <1>2 DEF IInv

LEMMA NextVolumeSound ==
    ASSUME IInv, NextVolume
    PROVE  IInv' /\ FifoStep
<1> USE DEF NextVolume
<1>1. KbInv' /\ FifoStep
    BY InitializeKeys, TakeKeys, StillKeys DEF IInv, Take
<1>2. ScriptInv'
    BY ScriptAssumption DEF IInv, ScriptInv, where, flags, history, Depths, EnterScript, Left, Command
<1> QED
    BY <1>1, <1>2 DEF IInv

LEMMA UpdateProgressSound ==
    ASSUME IInv, UpdateProgress
    PROVE  IInv' /\ FifoStep
<1> USE DEF UpdateProgress
<1>1. KbInv' /\ FifoStep
    BY InitializeKeys, TakeKeys, StillKeys DEF IInv, Take
<1>2. ScriptInv'
    BY ScriptAssumption DEF IInv, ScriptInv, where, flags, history, Depths, EnterScript, Left, Command
<1> QED
    BY <1>1, <1>2 DEF IInv

LEMMA JobEndsSound ==
    ASSUME IInv, JobEnds
    PROVE  IInv' /\ FifoStep
<1> USE DEF JobEnds
<1>1. KbInv' /\ FifoStep
    BY InitializeKeys, TakeKeys, StillKeys DEF IInv, Take
<1>2. ScriptInv'
    BY ScriptAssumption DEF IInv, ScriptInv, where, flags, history, Depths, EnterScript, Left, Command
<1> QED
    BY <1>1, <1>2 DEF IInv


LEMMA NextSound ==
    ASSUME IInv, [Next]_vars
    PROVE  IInv' /\ (UNCHANGED keyboard \/ FifoStep)
<1>1. CASE Poller /\ UNCHANGED <<where, flags, history>>
    BY <1>1, PollerKeys, ScriptStill DEF IInv
<1>2. CASE UNCHANGED vars
    BY <1>2, StillKeys, ScriptStill DEF IInv, vars
<1>3. CASE Program
    BY <1>3, BootSound, PromptToExitSound, EndOfScriptSound, LeaveScriptSound, TypeSound, OtherSound,
        EndPauseSound, CallSound, CheckSound, UdefragSound, NextVolumeSound, UpdateProgressSound, JobEndsSound
        DEF Program
<1> QED
    BY <1>1, <1>2, <1>3 DEF Next

LEMMA InitSound == Init => IInv
<1> SUFFICES ASSUME Init PROVE IInv
    OBVIOUS
<1>1. KbInv
    BY InitKeys DEF Init
<1>2. ScriptInv
    <2>1. /\ commands \in [Depths -> 0 .. MaxCommands] /\ depth \in 0 .. MaxDepth
          /\ volumes \in 0 .. MaxVolumes /\ \A d \in Depths : commands[d] = 0
        BY ScriptAssumption DEF Init, Depths
    <2> QED
        BY <2>1 DEF Init, ScriptInv
<1> QED
    BY <1>1, <1>2 DEF IInv

\* The inductive invariant holds in every state the code can reach.
THEOREM Invariance == Spec => []IInv
<1>1. Init => IInv
    BY InitSound
<1>2. IInv /\ [Next]_vars => IInv'
    BY NextSound
<1> QED
    BY <1>1, <1>2, PTL DEF Spec

\* Escape during a job ends all scripts, at any depth, however many keyboards
\* there are and whatever is typed (script.c, udefrag.c).
THEOREM EscapeEndsAll == Spec => []EscapeEndsScripts
<1>1. IInv => EscapeEndsScripts
    BY DEF IInv, KbInv, KbTypes, ScriptInv, EscapeEndsScripts, TypeOK
<1> QED
    BY <1>1, Invariance, PTL

\* The key hits leave the ring in the order in which they were pushed; only a
\* full ring loses one (keyboard.c, kb_wait_for_input and kb_read).
THEOREM RingKeepsOrder == Spec => RingIsFifo
<1>1. IInv /\ [Next]_vars => [FifoStep]_keyboard
    BY NextSound
<1>2. Spec => [][FifoStep]_keyboard
    BY <1>1, Invariance, PTL DEF Spec
<1> QED
    BY <1>2 DEF RingIsFifo, FifoStep

\* No job begins after Escape or Break until the user gives a command
\* (udefrag.c, native).
THEOREM BreakEndsJobs == Spec => NoJobAfterBreak
<1>1. IInv /\ [Next]_vars => [at = "volumes" /\ at' = "job" => ~broken]_vars
    <2> SUFFICES ASSUME IInv, Next, at = "volumes", at' = "job"
                 PROVE  ~broken
        OBVIOUS
    <2>1. NextVolume
        BY DEF Next, Program, Boot, PromptToExit, EndOfScript, LeaveScript, Type, Other, EndPause,
            Call, Check, Udefrag, UpdateProgress, JobEnds, Command, where
    <2> QED
        BY <2>1 DEF NextVolume, IInv, ScriptInv
<1> QED
    BY <1>1, Invariance, PTL DEF Spec, NoJobAfterBreak

=============================================================================
