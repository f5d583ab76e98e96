--------------------------- MODULE FreeRegionsProofs ---------------------------
(***************************************************************************)
(* What module FreeRegions promises, for volumes of every size and any     *)
(* number of addresses.                                                    *)
(*                                                                         *)
(* The argument: the walk along next is replaced by facts about pairs of   *)
(* regions (Sorted), which every operation on the ring preserves; that the *)
(* walk meets every region in the order of the disk follows from them by   *)
(* induction, once.                                                        *)
(***************************************************************************)
EXTENDS FreeRegions, FiniteSetTheorems, WellFoundedInduction, TLAPS

SuccOf(l, i) == l.item[i].next
PredOf(l, i) == l.item[i].prev
LcnOf(l, i) == l.item[i].lcn
EndOf(l, i) == l.item[i].lcn + l.item[i].length

Record == [next : Addresses, prev : Addresses, lcn : Clusters, length : Int]

\* A list is what the operations on it take for granted.
IsList(l) ==
    /\ l = [head |-> l.head, item |-> l.item]
    /\ l.item = [i \in DOMAIN l.item |-> l.item[i]]
    /\ \A i \in DOMAIN l.item : l.item[i] \in Record
    /\ Items(l) \subseteq Addresses /\ IsFiniteSet(Items(l))

LEMMA ListOf ==
    ASSUME NEW h, NEW f, f = [i \in DOMAIN f |-> f[i]], \A i \in DOMAIN f : f[i] \in Record,
           DOMAIN f \subseteq Addresses, IsFiniteSet(DOMAIN f)
    PROVE  IsList([head |-> h, item |-> f])
  BY DEF IsList, Items

\* next and prev are inverse to each other.
Linked(l) ==
    /\ l.head = Null <=> Items(l) = {}
    /\ l.head # Null => l.head \in Items(l)
    /\ \A i \in Items(l) :
        /\ SuccOf(l, i) \in Items(l) /\ PredOf(l, i) \in Items(l)
        /\ PredOf(l, SuccOf(l, i)) = i /\ SuccOf(l, PredOf(l, i)) = i

\* Regions lie on the disk, none before the head, and are separated.
Placed(l) ==
    \A i \in Items(l) :
        /\ LcnOf(l, i) \in Clusters /\ EndOf(l, i) \in 1 .. NClusters
        /\ LcnOf(l, i) < EndOf(l, i)
        /\ LcnOf(l, l.head) <= LcnOf(l, i)
Apart(l) ==
    \A i, j \in Items(l) : LcnOf(l, i) <= LcnOf(l, j) => i = j \/ EndOf(l, i) < LcnOf(l, j)

\* The successor of a region is the next one on the disk, except for the last.
Upward(l) ==
    \A i \in Items(l) : SuccOf(l, i) # l.head => LcnOf(l, i) < LcnOf(l, SuccOf(l, i))
Adjacent(l) ==
    \A i, j \in Items(l) :
        LcnOf(l, i) < LcnOf(l, j) =>
            SuccOf(l, i) # l.head /\ LcnOf(l, SuccOf(l, i)) <= LcnOf(l, j)

Ascending(l) == Placed(l) /\ Apart(l) /\ Upward(l) /\ Adjacent(l)

Sorted(l) == IsList(l) /\ Linked(l) /\ Ascending(l)

\* The changes of single fields, in full.
Relink(f, p, q, a, b) == [f EXCEPT ![p].next = a, ![q].prev = b]

LEMMA Relinked ==
    ASSUME NEW f, \A i \in DOMAIN f : f[i] \in Record,
           NEW p \in DOMAIN f, NEW q \in DOMAIN f, NEW a \in Addresses, NEW b \in Addresses
    PROVE  LET g == Relink(f, p, q, a, b) IN
           \A i \in DOMAIN f :
              /\ g[i] \in Record
              /\ g[i].next = (IF i = p THEN a ELSE f[i].next)
              /\ g[i].prev = (IF i = q THEN b ELSE f[i].prev)
              /\ g[i].lcn = f[i].lcn /\ g[i].length = f[i].length
<1> DEFINE h == [f EXCEPT ![p].next = a]
<1> SUFFICES ASSUME NEW i \in DOMAIN f
             PROVE  LET x == Relink(f, p, q, a, b)[i] IN
                    /\ x \in Record
                    /\ x.next = (IF i = p THEN a ELSE f[i].next)
                    /\ x.prev = (IF i = q THEN b ELSE f[i].prev)
                    /\ x.lcn = f[i].lcn /\ x.length = f[i].length
  OBVIOUS
<1>1. /\ h[i] \in Record /\ h[i].next = (IF i = p THEN a ELSE f[i].next)
      /\ h[i].prev = f[i].prev /\ h[i].lcn = f[i].lcn /\ h[i].length = f[i].length
  BY DEF Record
<1>2. q \in DOMAIN h /\ i \in DOMAIN h
  OBVIOUS
<1> HIDE DEF h
<1>3. [h EXCEPT ![q].prev = b][i] = IF i = q THEN [h[i] EXCEPT !.prev = b] ELSE h[i]
  BY <1>2
<1>4. LET x == [h EXCEPT ![q].prev = b][i] IN
      /\ x \in Record /\ x.next = h[i].next /\ x.prev = (IF i = q THEN b ELSE h[i].prev)
      /\ x.lcn = h[i].lcn /\ x.length = h[i].length
  BY <1>1, <1>3 DEF Record
<1> QED
  BY <1>1, <1>4 DEF Relink, h

LEMMA Resized ==
    ASSUME NEW x \in Record, NEW lcn, NEW length
    PROVE  /\ [x EXCEPT !.length = length]
              = [next |-> x.next, prev |-> x.prev, lcn |-> x.lcn, length |-> length]
           /\ [x EXCEPT !.lcn = lcn, !.length = length]
              = [next |-> x.next, prev |-> x.prev, lcn |-> lcn, length |-> length]
<1>1. PICK n, v, c, k : x = [next |-> n, prev |-> v, lcn |-> c, length |-> k]
  BY DEF Record
<1>2. [x EXCEPT !.length = length] = [next |-> n, prev |-> v, lcn |-> c, length |-> length]
  BY <1>1
<1>3. [x EXCEPT !.lcn = lcn] = [next |-> n, prev |-> v, lcn |-> lcn, length |-> k]
  BY <1>1
<1>4. [x EXCEPT !.lcn = lcn, !.length = length]
      = [next |-> n, prev |-> v, lcn |-> lcn, length |-> length]
  <2> DEFINE y == [x EXCEPT !.lcn = lcn]
  <2>1. y = [next |-> n, prev |-> v, lcn |-> lcn, length |-> k]
    BY <1>3
  <2> HIDE DEF y
  <2>2. [y EXCEPT !.length = length] = [next |-> n, prev |-> v, lcn |-> lcn, length |-> length]
    BY <2>1
  <2> QED
    BY <2>2 DEF y
<1> QED
  BY <1>1, <1>2, <1>4

-----------------------------------------------------------------------------
(* What the operations of list.c do to the links and the regions.          *)

\* A new item behind p.
Linking(l, m, p, n, lcn, end) ==
    /\ IsList(m) /\ Items(m) = Items(l) \cup {n}
    /\ \A i \in Items(l) :
        /\ LcnOf(m, i) = LcnOf(l, i) /\ EndOf(m, i) = EndOf(l, i)
        /\ SuccOf(m, i) = (IF i = p THEN n ELSE SuccOf(l, i))
        /\ PredOf(m, i) = (IF i = SuccOf(l, p) THEN n ELSE PredOf(l, i))
    /\ SuccOf(m, n) = SuccOf(l, p) /\ PredOf(m, n) = p
    /\ LcnOf(m, n) = lcn /\ EndOf(m, n) = end

LEMMA InsertLinks ==
    ASSUME NEW l, IsList(l), Linked(l), l.head # Null,
           NEW prev, prev = Null \/ prev \in Items(l),
           NEW n \in Addresses, n \notin Items(l),
           NEW lcn \in Clusters, NEW length \in Int
    PROVE  LET m == Insert(l, prev, n, lcn, length)
               p == IF prev = Null THEN PredOf(l, l.head) ELSE prev
           IN Linking(l, m, p, n, lcn, lcn + length)
              /\ m.head = IF prev = Null THEN n ELSE l.head
<1> DEFINE m == Insert(l, prev, n, lcn, length)
           p == IF prev = Null THEN l.item[l.head].prev ELSE prev
           q == l.item[p].next
           made == [next |-> q, prev |-> p, lcn |-> lcn, length |-> length]
           linked == Relink(l.item, p, q, n, n)
           f == [i \in Items(l) \cup {n} |-> IF i = n THEN made ELSE linked[i]]
<1>1. /\ p \in DOMAIN l.item /\ q \in DOMAIN l.item /\ p \in Addresses /\ q \in Addresses
      /\ p = (IF prev = Null THEN PredOf(l, l.head) ELSE prev) /\ q = SuccOf(l, p)
  BY DEF IsList, Linked, Items, SuccOf, PredOf
<1>2. m = [head |-> IF prev = Null THEN n ELSE l.head, item |-> f]
  BY DEF Insert, Items, Relink
<1>3. /\ m.head = (IF prev = Null THEN n ELSE l.head)
      /\ Items(m) = Items(l) \cup {n} /\ m.item[n] = made
      /\ \A i \in Items(l) : m.item[i] = linked[i]
  <2>1. m.item = f /\ m.head = IF prev = Null THEN n ELSE l.head
    BY <1>2
  <2> HIDE DEF p, q, linked, made, m
  <2>2. /\ DOMAIN f = Items(l) \cup {n} /\ f[n] = made
        /\ \A i \in Items(l) : f[i] = linked[i]
    OBVIOUS
  <2> QED
    BY <2>1, <2>2 DEF Items
<1> HIDE DEF p, q, linked
<1>4. \A i \in Items(l) :
        /\ linked[i] \in Record
        /\ linked[i].next = (IF i = p THEN n ELSE l.item[i].next)
        /\ linked[i].prev = (IF i = q THEN n ELSE l.item[i].prev)
        /\ linked[i].lcn = l.item[i].lcn /\ linked[i].length = l.item[i].length
  <2>1. Items(l) = DOMAIN l.item /\ \A i \in DOMAIN l.item : l.item[i] \in Record
    BY DEF IsList, Items
  <2> QED
    BY <1>1, <2>1, Relinked DEF linked
<1>5. made \in Record
  BY <1>1 DEF Record
<1>6. IsList(m)
  <2>1. DOMAIN f = Items(l) \cup {n} /\ f = [i \in DOMAIN f |-> f[i]]
    OBVIOUS
  <2>2. \A i \in DOMAIN f : f[i] \in Record
    BY <1>4, <1>5
  <2>3. Items(l) \cup {n} \subseteq Addresses /\ IsFiniteSet(Items(l) \cup {n})
    BY FS_AddElement DEF IsList
  <2> HIDE DEF f
  <2> QED
    BY <1>2, <2>1, <2>2, <2>3, ListOf
<1>7. /\ m.item[n].next = q /\ m.item[n].prev = p
      /\ m.item[n].lcn = lcn /\ m.item[n].length = length
  BY <1>3
<1> HIDE DEF m, f, made
<1>8. Linking(l, m, p, n, lcn, lcn + length)
  BY ZenonT(40), <1>1, <1>3, <1>4, <1>6, <1>7 DEF Linking, SuccOf, PredOf, LcnOf, EndOf
<1> QED
  BY <1>1, <1>3, <1>8 DEF m

LEMMA InsertFirst ==
    ASSUME NEW l, l.head = Null, NEW prev, NEW n \in Addresses,
           NEW lcn \in Clusters, NEW length \in Int
    PROVE  LET m == Insert(l, prev, n, lcn, length)
           IN /\ IsList(m) /\ m.head = n /\ Items(m) = {n}
              /\ SuccOf(m, n) = n /\ PredOf(m, n) = n
              /\ LcnOf(m, n) = lcn /\ EndOf(m, n) = lcn + length
  BY FS_Singleton DEF Insert, IsList, Items, Record, SuccOf, PredOf, LcnOf, EndOf

\* An item less.
Unlinking(l, m, i) ==
    /\ IsList(m) /\ Items(m) = Items(l) \ {i}
    /\ m.head = IF Items(m) = {} THEN Null ELSE IF i = l.head THEN SuccOf(l, i) ELSE l.head
    /\ \A j \in Items(m) :
        /\ LcnOf(m, j) = LcnOf(l, j) /\ EndOf(m, j) = EndOf(l, j)
        /\ SuccOf(m, j) = IF j = PredOf(l, i) THEN SuccOf(l, i) ELSE SuccOf(l, j)
        /\ PredOf(m, j) = IF j = SuccOf(l, i) THEN PredOf(l, i) ELSE PredOf(l, j)

\* The last item is the head and its own successor.
OnlyHead(l) == l.head \in Items(l) => (SuccOf(l, l.head) = l.head => Items(l) = {l.head})

LEMMA RemoveUnlinks ==
    ASSUME NEW l, IsList(l), Linked(l), OnlyHead(l), NEW i \in Items(l)
    PROVE  Unlinking(l, Remove(l, i), i)
<1> DEFINE m == Remove(l, i)
           p == l.item[i].prev
           q == l.item[i].next
           linked == Relink(l.item, p, q, q, p)
           f == [j \in Items(l) \ {i} |-> linked[j]]
<1>1. /\ p \in DOMAIN l.item /\ q \in DOMAIN l.item /\ p \in Addresses /\ q \in Addresses
      /\ p = PredOf(l, i) /\ q = SuccOf(l, i)
  BY DEF IsList, Linked, Items, SuccOf, PredOf
<1>2. CASE i = l.head /\ q = l.head
  <2>1. Items(l) = {i} /\ m = Empty
    BY <1>2 DEF OnlyHead, SuccOf, Remove
  <2> QED
    BY <2>1, FS_EmptySet DEF Empty, Unlinking, IsList, Items
<1>3. CASE ~(i = l.head /\ q = l.head)
  <2>1. m = [head |-> IF i = l.head THEN q ELSE l.head, item |-> f]
    BY <1>3 DEF Remove, Restrict, Relink
  <2>2. /\ m.head = (IF i = l.head THEN q ELSE l.head) /\ Items(m) = Items(l) \ {i}
        /\ \A j \in Items(m) : m.item[j] = linked[j]
    BY <2>1 DEF Items
  <2> HIDE DEF p, q, linked
  <2>3. \A j \in Items(l) :
          /\ linked[j] \in Record
          /\ linked[j].next = (IF j = p THEN q ELSE l.item[j].next)
          /\ linked[j].prev = (IF j = q THEN p ELSE l.item[j].prev)
          /\ linked[j].lcn = l.item[j].lcn /\ linked[j].length = l.item[j].length
    BY SMTT(20), <1>1, Relinked DEF linked, IsList, Items
  <2>4. IsList(m)
    <3>1. DOMAIN f = Items(l) \ {i} /\ f = [j \in DOMAIN f |-> f[j]]
      OBVIOUS
    <3>2. \A j \in DOMAIN f : f[j] \in Record
      BY <2>3
    <3>3. Items(l) \ {i} \subseteq Addresses /\ IsFiniteSet(Items(l) \ {i})
      BY FS_RemoveElement DEF IsList
    <3> HIDE DEF f
    <3> QED
      BY <2>1, <3>1, <3>2, <3>3, ListOf
  <2>5. Items(m) # {}
    BY <1>1, <1>3, <2>2 DEF Linked, Items
  <2> HIDE DEF m, f
  <2>6. Unlinking(l, m, i)
    BY <1>1, <2>2, <2>3, <2>4, <2>5 DEF Unlinking, SuccOf, PredOf, LcnOf, EndOf
  <2> QED
    BY <2>6 DEF m
<1> QED
  BY <1>2, <1>3

LEMMA WithItems ==
    ASSUME NEW l, IsList(l), NEW g
    PROVE  /\ [l EXCEPT !.item = g] = [head |-> l.head, item |-> g]
           /\ [l EXCEPT !.item = g].item = g
<1>1. l = [head |-> l.head, item |-> l.item]
  BY DEF IsList
<1> DEFINE h == l.head
           f == l.item
<1> HIDE DEF h, f
<1>2. [[head |-> h, item |-> f] EXCEPT !.item = g] = [head |-> h, item |-> g]
  OBVIOUS
<1> QED
  BY <1>1, <1>2 DEF h, f

\* Another place on the disk for a region.
Moving(l, m, p, lcn, end) ==
    /\ IsList(m) /\ Items(m) = Items(l) /\ m.head = l.head
    /\ \A i \in Items(l) :
        /\ SuccOf(m, i) = SuccOf(l, i) /\ PredOf(m, i) = PredOf(l, i)
        /\ LcnOf(m, i) = IF i = p THEN lcn ELSE LcnOf(l, i)
        /\ EndOf(m, i) = IF i = p THEN end ELSE EndOf(l, i)

LEMMA ResizeMoves ==
    ASSUME NEW l, IsList(l), NEW p \in Items(l), NEW lcn \in Clusters, NEW length \in Int
    PROVE  /\ Moving(l, [l EXCEPT !.item[p].length = length], p, LcnOf(l, p), LcnOf(l, p) + length)
           /\ Moving(l, [l EXCEPT !.item[p].lcn = lcn, !.item[p].length = length], p, lcn, lcn + length)
<1> DEFINE changed(a) == [next |-> l.item[p].next, prev |-> l.item[p].prev,
                          lcn |-> a, length |-> length]
           f(a) == [i \in DOMAIN l.item |-> IF i = p THEN changed(a) ELSE l.item[i]]
           m(a) == [head |-> l.head, item |-> f(a)]
<1>1. l.item[p] \in Record /\ LcnOf(l, p) \in Clusters /\ p \in DOMAIN l.item
  BY DEF IsList, Items, Record, LcnOf
<1>2. [l EXCEPT !.item[p].length = length] = m(LcnOf(l, p))
  <2>1. [l.item[p] EXCEPT !.length = length] = changed(LcnOf(l, p))
    BY <1>1, Resized DEF LcnOf
  <2>2. [l.item EXCEPT ![p].length = length] = f(LcnOf(l, p))
    BY <1>1, <2>1 DEF IsList
  <2> QED
    BY <2>2, WithItems
<1>3. [l EXCEPT !.item[p].lcn = lcn, !.item[p].length = length] = m(lcn)
  <2>1. [[l.item[p] EXCEPT !.lcn = lcn] EXCEPT !.length = length] = changed(lcn)
    BY <1>1, Resized
  <2>2. [[l.item EXCEPT ![p].lcn = lcn] EXCEPT ![p].length = length] = f(lcn)
    BY <1>1, <2>1 DEF IsList
  <2> QED
    BY <2>2, WithItems
<1>4. ASSUME NEW a \in Clusters PROVE Moving(l, m(a), p, a, a + length)
  <2>1. f(a)[p] \in Record
    BY <1>1 DEF Record
  <2>2. IsList(m(a))
    BY <1>1, <2>1 DEF IsList, Items
  <2> QED
    BY <1>1, <2>2 DEF Moving, Items, SuccOf, PredOf, LcnOf, EndOf
<1> QED
  BY <1>1, <1>2, <1>3, <1>4

-----------------------------------------------------------------------------
(* The operations keep the ring sorted when they are used where they       *)
(* should be.                                                              *)

LEMMA HeadFirst ==
    ASSUME NEW l, Linked(l), Ascending(l), NEW j \in Items(l), j # l.head
    PROVE  LcnOf(l, l.head) < LcnOf(l, j)
  BY DEF Linked, Ascending, Placed, Apart, Clusters

LEMMA HeadAlone == ASSUME NEW l, Linked(l), Ascending(l) PROVE OnlyHead(l)
  BY DEF Linked, Ascending, Placed, Apart, Adjacent, OnlyHead, Clusters

LEMMA KeepInsert ==
    ASSUME NEW l, Sorted(l), NEW p \in Items(l), NEW n, n \notin Items(l),
           n # Null, NEW lcn \in Clusters, NEW end \in 1 .. NClusters, lcn < end,
           EndOf(l, p) < lcn, SuccOf(l, p) # l.head => end < LcnOf(l, SuccOf(l, p)),
           NEW m, Linking(l, m, p, n, lcn, end), m.head = l.head
    PROVE  Sorted(m)
<1>1. Linked(m)
  BY DEF Sorted, Linked, Linking
<1>2. Placed(m)
  BY DEF Sorted, Linked, Ascending, Placed, Apart, Linking, Clusters
<1>3. Apart(m)
  BY DEF Sorted, Linked, Ascending, Placed, Apart, Upward, Adjacent, Linking, Clusters
<1>4. Upward(m)
  BY DEF Sorted, Linked, Ascending, Placed, Apart, Upward, Adjacent, Linking, Clusters
<1>5. Adjacent(m)
  BY DEF Sorted, Linked, Ascending, Placed, Apart, Upward, Adjacent, Linking, Clusters
<1> QED
  BY <1>1, <1>2, <1>3, <1>4, <1>5 DEF Sorted, Ascending, Linking

LEMMA KeepInsertHead ==
    ASSUME NEW l, Sorted(l), l.head # Null, NEW n, n \notin Items(l),
           n # Null, NEW lcn \in Clusters, NEW end \in 1 .. NClusters, lcn < end,
           end < LcnOf(l, l.head),
           NEW m, Linking(l, m, PredOf(l, l.head), n, lcn, end), m.head = n
    PROVE  Sorted(m)
<1>1. Linked(m)
  BY DEF Sorted, Linked, Linking
<1>2. Placed(m)
  BY DEF Sorted, Linked, Ascending, Placed, Apart, Linking, Clusters
<1>3. Apart(m)
  BY DEF Sorted, Linked, Ascending, Placed, Apart, Upward, Adjacent, Linking, Clusters
<1>4. Upward(m)
  BY DEF Sorted, Linked, Ascending, Placed, Apart, Upward, Adjacent, Linking, Clusters
<1>5. Adjacent(m)
  BY DEF Sorted, Linked, Ascending, Placed, Apart, Upward, Adjacent, Linking, Clusters
<1> QED
  BY <1>1, <1>2, <1>3, <1>4, <1>5 DEF Sorted, Ascending, Linking

LEMMA KeepRemove ==
    ASSUME NEW l, Sorted(l), NEW i \in Items(l), NEW m, Unlinking(l, m, i)
    PROVE  Sorted(m)
<1>1. Linked(m)
  <2>1. OnlyHead(l) /\ (SuccOf(l, i) = i <=> PredOf(l, i) = i)
    BY HeadAlone DEF Sorted, Linked
  <2>2. /\ m.head = Null <=> Items(m) = {}
        /\ m.head # Null => m.head \in Items(m)
    BY <2>1, SizesAssumption DEF Sorted, IsList, Linked, Unlinking, OnlyHead
  <2>3. ASSUME NEW j \in Items(m)
        PROVE  /\ SuccOf(m, j) \in Items(m) /\ PredOf(m, j) \in Items(m)
               /\ PredOf(m, SuccOf(m, j)) = j /\ SuccOf(m, PredOf(m, j)) = j
    BY <2>1 DEF Sorted, Linked, Unlinking
  <2> QED
    BY <2>2, <2>3 DEF Linked
<1>2. Placed(m)
  <2>1. \A j \in Items(l) : j # l.head => LcnOf(l, l.head) < LcnOf(l, j)
    BY HeadFirst DEF Sorted
  <2> QED
    BY <2>1 DEF Sorted, Linked, Ascending, Placed, Adjacent, Unlinking, Clusters
<1>3. Apart(m)
  BY DEF Sorted, Linked, Ascending, Placed, Apart, Upward, Adjacent, Unlinking, Clusters
<1>4. Upward(m)
  BY DEF Sorted, Linked, Ascending, Placed, Apart, Upward, Adjacent, Unlinking, Clusters
<1>5. Adjacent(m)
  BY DEF Sorted, Linked, Ascending, Placed, Apart, Upward, Adjacent, Unlinking, Clusters
<1> QED
  BY <1>1, <1>2, <1>3, <1>4, <1>5 DEF Sorted, Ascending, Unlinking

LEMMA KeepMove ==
    ASSUME NEW l, Sorted(l), NEW p \in Items(l), NEW m,
           NEW lcn \in Clusters, NEW end \in 1 .. NClusters, lcn < end,
           Moving(l, m, p, lcn, end),
           p # l.head => EndOf(l, PredOf(l, p)) < lcn,
           SuccOf(l, p) # l.head => end < LcnOf(l, SuccOf(l, p))
    PROVE  Sorted(m)
<1>1. Linked(m)
  BY DEF Sorted, Linked, Moving
<1>2. Placed(m)
  <2>1. \A j \in Items(l) : j # l.head => LcnOf(l, l.head) < LcnOf(l, j)
    BY HeadFirst DEF Sorted
  <2>2. \A j \in Items(l) : lcn <= LcnOf(l, j) \/ p # l.head \/ j = p
    BY <2>1 DEF Sorted, Linked, Ascending, Placed, Adjacent, Clusters
  <2>3. p # l.head => LcnOf(l, l.head) <= lcn
    BY <2>1 DEF Sorted, Linked, Ascending, Placed, Clusters
  <2> QED
    BY <2>1, <2>2, <2>3 DEF Sorted, Linked, Ascending, Placed, Moving, Clusters
<1>3. Apart(m)
  <2>1. ASSUME NEW j \in Items(l), j # p
        PROVE  EndOf(l, j) < lcn \/ end < LcnOf(l, j)
    <3>1. /\ {LcnOf(l, j), LcnOf(l, p), EndOf(l, j), lcn, end} \subseteq Int
          /\ LcnOf(l, j) # LcnOf(l, p)
      BY <2>1 DEF Sorted, Ascending, Placed, Apart, Clusters
    <3>2. CASE LcnOf(l, p) < LcnOf(l, j)
      <4>1. SuccOf(l, p) # l.head /\ LcnOf(l, SuccOf(l, p)) <= LcnOf(l, j)
        BY <3>2 DEF Sorted, Ascending, Adjacent
      <4>2. LcnOf(l, SuccOf(l, p)) \in Int /\ end < LcnOf(l, SuccOf(l, p))
        BY <4>1 DEF Sorted, Linked, Ascending, Placed, Clusters
      <4> QED
        BY <3>1, <4>1, <4>2
    <3>3. CASE LcnOf(l, j) < LcnOf(l, p)
      <4> DEFINE q == PredOf(l, p)
      <4>1. p # l.head /\ q \in Items(l) /\ SuccOf(l, q) = p
        BY <3>1, <3>3 DEF Sorted, Linked, Ascending, Placed
      <4>2. EndOf(l, q) < lcn /\ LcnOf(l, q) < EndOf(l, q) /\ {LcnOf(l, q), EndOf(l, q)} \subseteq Int
        BY <4>1 DEF Sorted, Ascending, Placed, Clusters
      <4>3. ~ (LcnOf(l, q) < LcnOf(l, j))
        BY <3>1, <3>3, <4>1 DEF Sorted, Ascending, Adjacent
      <4>4. j = q \/ EndOf(l, j) < LcnOf(l, q)
        BY <3>1, <4>1, <4>2, <4>3 DEF Sorted, Ascending, Apart
      <4> QED
        BY <3>1, <4>2, <4>4
    <3> QED
      BY <3>1, <3>2, <3>3
  <2>2. \A j \in Items(l) :
            {LcnOf(l, j), EndOf(l, j), lcn, end} \subseteq Int /\ LcnOf(l, j) < EndOf(l, j)
    BY DEF Sorted, Ascending, Placed, Clusters
  <2>3. ASSUME NEW i \in Items(l), NEW j \in Items(l), i # j, LcnOf(m, i) <= LcnOf(m, j)
        PROVE  EndOf(m, i) < LcnOf(m, j)
    <3>1. CASE i = p
      BY <2>1, <2>2, <2>3, <3>1 DEF Moving
    <3>2. CASE j = p
      BY <2>1, <2>2, <2>3, <3>2 DEF Moving
    <3>3. CASE i # p /\ j # p
      BY <2>2, <2>3, <3>3 DEF Moving, Sorted, Ascending, Apart
    <3> QED
      BY <3>1, <3>2, <3>3
  <2> QED
    BY <2>3 DEF Moving, Apart
<1>4. Upward(m)
  BY SMTT(20) DEF Sorted, Linked, Ascending, Placed, Apart, Upward, Adjacent, Moving, Clusters
<1>5. Adjacent(m)
  BY SMTT(20) DEF Sorted, Linked, Ascending, Placed, Apart, Upward, Adjacent, Moving, Clusters
<1> QED
  BY <1>1, <1>2, <1>3, <1>4, <1>5 DEF Sorted, Ascending, Moving

-----------------------------------------------------------------------------
(* The walks along the ring.                                               *)

\* Induction: a set of natural numbers has a least element.
LEMMA LeastNatural ==
    ASSUME NEW T, T \subseteq Nat, T # {}
    PROVE  \E n \in T : \A m \in T : n <= m
<1> DEFINE R == OpToRel(<, Nat)
<1>1. IsWellFoundedOn(R, Nat)
  BY NatLessThanWellFounded
<1>2. \A x, y \in Nat : y < x => <<y, x>> \in R
  BY DEF OpToRel
<1> HIDE DEF R
<1>3. PICK x \in T : \A y \in T : ~ (<<y, x>> \in R)
  BY <1>1, WFMin
<1>4. x \in Nat /\ \A y \in T : y \in Nat
  OBVIOUS
<1>5. \A y \in T : ~ (y < x)
  BY <1>2, <1>3, <1>4, Zenon
<1> QED
  BY <1>4, <1>5

\* A walk of n steps from h along next, or prev, exists.
Onward(l, h, n, w) == w = [k \in 1 .. n |-> IF k = 1 THEN h ELSE l.item[w[k - 1]].next]
Back(l, h, n, w) == w = [k \in 1 .. n |-> IF k = 1 THEN h ELSE l.item[w[k - 1]].prev]

LEMMA WalksExist ==
    ASSUME NEW l, NEW h, NEW n \in Nat
    PROVE  (\E w : Onward(l, h, n, w)) /\ (\E w : Back(l, h, n, w))
<1>1. \E w : w = [k \in 1 .. n |-> IF k = 1 THEN h ELSE l.item[w[k - 1]].next]
  <2> DEFINE Exists(a) == \E w : w = [k \in 1 .. a |-> IF k = 1 THEN h ELSE l.item[w[k - 1]].next]
             Bad == {a \in Nat : ~Exists(a)}
  <2>1. Exists(0)
    OBVIOUS
  <2>2. ASSUME NEW a \in Nat, Exists(a) PROVE Exists(a + 1)
    <3>1. PICK w : w = [k \in 1 .. a |-> IF k = 1 THEN h ELSE l.item[w[k - 1]].next]
      BY <2>2
    <3> DEFINE v == [k \in 1 .. a + 1 |->
                       IF k = 1 THEN h ELSE IF k \in 1 .. a THEN w[k] ELSE l.item[w[a]].next]
    <3>2. ASSUME NEW k \in 1 .. a PROVE v[k] = w[k]
      <4>1. k \in 1 .. a + 1
        OBVIOUS
      <4>2. k = 1 => w[k] = h
        BY <3>1
      <4> QED
        BY <4>1, <4>2
    <3>3. ASSUME NEW k \in 1 .. a + 1
          PROVE  v[k] = IF k = 1 THEN h ELSE l.item[v[k - 1]].next
      <4>1. CASE k = 1
        BY <4>1
      <4>2. CASE k # 1 /\ k \in 1 .. a
        <5>1. k - 1 \in 1 .. a /\ v[k - 1] = w[k - 1] /\ v[k] = w[k]
          BY <3>2, <4>2
        <5> HIDE DEF v
        <5>2. w[k] = l.item[w[k - 1]].next
          BY <3>1, <4>2
        <5> QED
          BY <4>2, <5>1, <5>2
      <4>3. CASE k # 1 /\ k = a + 1
        <5>1. a \in 1 .. a /\ v[a] = w[a] /\ v[k] = l.item[w[a]].next /\ k - 1 = a
          BY <3>2, <4>3
        <5> HIDE DEF v
        <5> QED
          BY <4>3, <5>1
      <4> QED
        BY <4>1, <4>2, <4>3
    <3>4. v = [k \in 1 .. a + 1 |-> IF k = 1 THEN h ELSE l.item[v[k - 1]].next]
      BY <3>3
    <3> QED
      BY <3>4
  <2> HIDE DEF Exists
  <2>3. ASSUME Bad # {} PROVE FALSE
    <3>1. PICK a \in Bad : \A b \in Bad : a <= b
      <4>1. Bad \subseteq Nat
        OBVIOUS
      <4> HIDE DEF Bad
      <4> QED
        BY <2>3, <4>1, LeastNatural
    <3>2. a # 0 /\ a - 1 \in Nat /\ a - 1 \notin Bad
      BY <2>1, <3>1
    <3> QED
      BY <2>2, <3>1, <3>2
  <2>4. Exists(n)
    BY <2>3
  <2> QED
    BY <2>4 DEF Exists
<1>2. \E w : w = [k \in 1 .. n |-> IF k = 1 THEN h ELSE l.item[w[k - 1]].prev]
  <2> DEFINE Exists(a) == \E w : w = [k \in 1 .. a |-> IF k = 1 THEN h ELSE l.item[w[k - 1]].prev]
             Bad == {a \in Nat : ~Exists(a)}
  <2>1. Exists(0)
    OBVIOUS
  <2>2. ASSUME NEW a \in Nat, Exists(a) PROVE Exists(a + 1)
    <3>1. PICK w : w = [k \in 1 .. a |-> IF k = 1 THEN h ELSE l.item[w[k - 1]].prev]
      BY <2>2
    <3> DEFINE v == [k \in 1 .. a + 1 |->
                       IF k = 1 THEN h ELSE IF k \in 1 .. a THEN w[k] ELSE l.item[w[a]].prev]
    <3>2. ASSUME NEW k \in 1 .. a PROVE v[k] = w[k]
      <4>1. k \in 1 .. a + 1
        OBVIOUS
      <4>2. k = 1 => w[k] = h
        BY <3>1
      <4> QED
        BY <4>1, <4>2
    <3>3. ASSUME NEW k \in 1 .. a + 1
          PROVE  v[k] = IF k = 1 THEN h ELSE l.item[v[k - 1]].prev
      <4>1. CASE k = 1
        BY <4>1
      <4>2. CASE k # 1 /\ k \in 1 .. a
        <5>1. k - 1 \in 1 .. a /\ v[k - 1] = w[k - 1] /\ v[k] = w[k]
          BY <3>2, <4>2
        <5> HIDE DEF v
        <5>2. w[k] = l.item[w[k - 1]].prev
          BY <3>1, <4>2
        <5> QED
          BY <4>2, <5>1, <5>2
      <4>3. CASE k # 1 /\ k = a + 1
        <5>1. a \in 1 .. a /\ v[a] = w[a] /\ v[k] = l.item[w[a]].prev /\ k - 1 = a
          BY <3>2, <4>3
        <5> HIDE DEF v
        <5> QED
          BY <4>3, <5>1
      <4> QED
        BY <4>1, <4>2, <4>3
    <3>4. v = [k \in 1 .. a + 1 |-> IF k = 1 THEN h ELSE l.item[v[k - 1]].prev]
      BY <3>3
    <3> QED
      BY <3>4
  <2> HIDE DEF Exists
  <2>3. ASSUME Bad # {} PROVE FALSE
    <3>1. PICK a \in Bad : \A b \in Bad : a <= b
      <4>1. Bad \subseteq Nat
        OBVIOUS
      <4> HIDE DEF Bad
      <4> QED
        BY <2>3, <4>1, LeastNatural
    <3>2. a # 0 /\ a - 1 \in Nat /\ a - 1 \notin Bad
      BY <2>1, <3>1
    <3> QED
      BY <2>2, <3>1, <3>2
  <2>4. Exists(n)
    BY <2>3
  <2> QED
    BY <2>4 DEF Exists
<1> QED
  BY <1>1, <1>2 DEF Onward, Back

\* What the loop along next has met after k steps.
LEMMA OrderIs ==
    ASSUME NEW l, IsFiniteSet(Items(l))
    PROVE  LET n == Cardinality(Items(l)) IN
           /\ n \in Nat /\ DOMAIN Order(l) = 1 .. n
           /\ \A k \in 1 .. n : Order(l)[k] = IF k = 1 THEN l.head ELSE SuccOf(l, Order(l)[k - 1])
<1>1. Cardinality(Items(l)) \in Nat
  BY FS_CardinalityType
<1>2. \E w : Onward(l, l.head, Cardinality(Items(l)), w)
  BY <1>1, WalksExist
<1>3. Order(l) = CHOOSE w : Onward(l, l.head, Cardinality(Items(l)), w)
  BY DEF Order, Onward
<1>4. Onward(l, l.head, Cardinality(Items(l)), Order(l))
  BY <1>2, <1>3
<1> QED
  BY <1>1, <1>4 DEF Onward, SuccOf

\* After k steps of the loop every region up to the k-th was met.
Met(l, k) ==
    /\ Order(l)[k] \in Items(l)
    /\ k > 1 => /\ LcnOf(l, Order(l)[k - 1]) < LcnOf(l, Order(l)[k])
                /\ Order(l)[k] # l.head
    /\ \A i \in Items(l) : LcnOf(l, i) <= LcnOf(l, Order(l)[k]) => \E j \in 1 .. k : i = Order(l)[j]

\* The loop does not come back to the head before it has met all of them.
LEMMA NotBackYet ==
    ASSUME NEW l, Sorted(l), NEW k \in Nat, k >= 1, k < Cardinality(Items(l)), Met(l, k)
    PROVE  SuccOf(l, Order(l)[k]) # l.head
<1> SUFFICES ASSUME SuccOf(l, Order(l)[k]) = l.head PROVE FALSE
  OBVIOUS
<1>1. \A i \in Items(l) : LcnOf(l, i) <= LcnOf(l, Order(l)[k])
  BY DEF Met, Sorted, Ascending, Placed, Adjacent, Clusters
<1>2. \A i \in Items(l) : \E j \in 1 .. k : i = Order(l)[j]
  BY <1>1 DEF Met
<1> DEFINE f == [j \in 1 .. k |-> IF Order(l)[j] \in Items(l) THEN Order(l)[j] ELSE l.head]
<1>3. l.head \in Items(l)
  BY DEF Met, Sorted, Linked
<1>4. f \in Surjection(1 .. k, Items(l))
  <2>1. f \in [1 .. k -> Items(l)]
    BY <1>3
  <2>2. \A i \in Items(l) : \E j \in 1 .. k : f[j] = i
    BY <1>2
  <2> HIDE DEF f
  <2> QED
    BY <2>1, <2>2 DEF Surjection
<1>5. Cardinality(Items(l)) <= Cardinality(1 .. k)
  BY <1>4, FS_Surjection, FS_Interval
<1>6. Cardinality(1 .. k) = k
  BY FS_Interval
<1>7. Cardinality(Items(l)) \in Nat
  BY FS_CardinalityType DEF Sorted, IsList
<1> QED
  BY <1>5, <1>6, <1>7

LEMMA OrderMeets ==
    ASSUME NEW l, Sorted(l), NEW k \in 1 .. Cardinality(Items(l))
    PROVE  Met(l, k)
<1> DEFINE n == Cardinality(Items(l))
           Bad == {a \in 1 .. n : ~Met(l, a)}
<1>1. /\ n \in Nat
      /\ \A a \in 1 .. n : Order(l)[a] = IF a = 1 THEN l.head ELSE SuccOf(l, Order(l)[a - 1])
  BY OrderIs DEF Sorted, IsList
<1>2. n >= 1 => Met(l, 1)
  <2> HAVE n >= 1
  <2>1. Order(l)[1] = l.head
    BY <1>1
  <2>2. l.head \in Items(l)
    BY <1>1, FS_EmptySet DEF Sorted, IsList, Linked
  <2>3. \A i \in Items(l) : LcnOf(l, i) <= LcnOf(l, l.head) => i = l.head
    BY <2>2, HeadFirst DEF Sorted, Ascending, Placed, Clusters
  <2> QED
    BY <1>1, <2>1, <2>2, <2>3 DEF Met
<1>3. ASSUME NEW a \in 1 .. n, a + 1 \in 1 .. n, Met(l, a) PROVE Met(l, a + 1)
  <2> DEFINE x == Order(l)[a]
             y == Order(l)[a + 1]
  <2>1. y = SuccOf(l, x) /\ x \in Items(l)
    BY <1>1, <1>3 DEF Met
  <2>2. y # l.head /\ y \in Items(l)
    BY <1>1, <1>3, <2>1, NotBackYet DEF Sorted, Linked
  <2>3. LcnOf(l, x) < LcnOf(l, y)
    BY <2>1, <2>2 DEF Sorted, Ascending, Upward
  <2> HIDE DEF x, y
  <2>4. ASSUME NEW i \in Items(l), LcnOf(l, i) <= LcnOf(l, y) PROVE i = y \/ LcnOf(l, i) <= LcnOf(l, x)
    BY <2>1, <2>2, <2>3, <2>4 DEF Sorted, Ascending, Placed, Apart, Adjacent, Clusters
  <2> QED
    BY <1>1, <1>3, <2>2, <2>3, <2>4 DEF Met, x, y
<1> HIDE DEF n
<1>4. ASSUME Bad # {} PROVE FALSE
  <2>1. PICK a \in Bad : \A b \in Bad : a <= b
    <3>1. Bad \subseteq Nat
      BY <1>1
    <3> HIDE DEF Bad
    <3> QED
      BY <1>4, <3>1, LeastNatural
  <2>2. a \in 1 .. n /\ a # 1 /\ a - 1 \in 1 .. n /\ a - 1 \notin Bad
    BY <1>1, <1>2, <2>1
  <2> QED
    BY <1>1, <1>3, <2>1, <2>2
<1> QED
  BY <1>4 DEF n

\* The loop meets every region exactly once, in the order of the disk.
LEMMA OrderAscends ==
    ASSUME NEW l, Sorted(l), NEW j \in 1 .. Cardinality(Items(l)),
           NEW k \in 1 .. Cardinality(Items(l)), j < k
    PROVE  LcnOf(l, Order(l)[j]) < LcnOf(l, Order(l)[k])
<1> DEFINE n == Cardinality(Items(l))
           Bad == {a \in 1 .. n : a > j /\ ~(LcnOf(l, Order(l)[j]) < LcnOf(l, Order(l)[a]))}
<1>1. /\ n \in Nat
      /\ \A a \in 1 .. n : Met(l, a) /\ LcnOf(l, Order(l)[a]) \in Int
  BY OrderIs, OrderMeets DEF Sorted, IsList, Ascending, Placed, Met, Clusters
<1> HIDE DEF n
<1>2. ASSUME Bad # {} PROVE FALSE
  <2>1. PICK a \in Bad : \A b \in Bad : a <= b
    <3>1. Bad \subseteq Nat
      BY <1>1
    <3> HIDE DEF Bad
    <3> QED
      BY <1>2, <3>1, LeastNatural
  <2>2. /\ a \in 1 .. n /\ a > j /\ a - 1 \in 1 .. n /\ a - 1 \notin Bad /\ j \in 1 .. n
        /\ ~(LcnOf(l, Order(l)[j]) < LcnOf(l, Order(l)[a]))
    BY <1>1, <2>1 DEF n
  <2>3. LcnOf(l, Order(l)[a - 1]) < LcnOf(l, Order(l)[a])
    BY <1>1, <2>2 DEF Met
  <2>4. j = a - 1 \/ LcnOf(l, Order(l)[j]) < LcnOf(l, Order(l)[a - 1])
    BY <1>1, <2>2
  <2> QED
    BY <1>1, <2>2, <2>3, <2>4
<1> QED
  BY <1>2 DEF n

LEMMA OrderCovers ==
    ASSUME NEW l, Sorted(l)
    PROVE  \A i \in Items(l) : \E k \in 1 .. Cardinality(Items(l)) : i = Order(l)[k]
<1> DEFINE n == Cardinality(Items(l))
<1>1. n \in Nat /\ DOMAIN Order(l) = 1 .. n /\ IsFiniteSet(Items(l))
  BY OrderIs DEF Sorted, IsList
<1> DEFINE f == [k \in 1 .. n |-> Order(l)[k]]
<1>2. f \in [1 .. n -> Items(l)]
  BY OrderMeets DEF Met
<1>3. \A j, k \in 1 .. n : f[j] = f[k] => j = k
  <2>1. \A j, k \in 1 .. n : j < k => LcnOf(l, Order(l)[j]) < LcnOf(l, Order(l)[k])
    BY OrderAscends
  <2>2. \A k \in 1 .. n : LcnOf(l, Order(l)[k]) \in Int
    BY <1>2 DEF Sorted, Ascending, Placed, Clusters
  <2> QED
    BY <1>1, <2>1, <2>2
<1>4. f \in Injection(1 .. n, Items(l))
  BY <1>2, <1>3 DEF Injection, IsInjective
<1>5. f \in Surjection(1 .. n, Items(l))
  BY <1>1, <1>4, FS_Injection, FS_Interval
<1> QED
  BY <1>5 DEF Surjection

-----------------------------------------------------------------------------
(* winx_add_volume_region.                                                 *)

LEMMA MinIs ==
    ASSUME NEW T, T \subseteq Nat, T # {}
    PROVE  Min(T) \in T /\ \A m \in T : Min(T) <= m
<1>1. \E x \in T : \A y \in T : x =< y
  BY LeastNatural
<1> QED
  BY <1>1 DEF Min

\* The region in front of lcn, if there is one.
LEMMA PreviousIs ==
    ASSUME NEW l, Sorted(l), NEW lcn \in Int
    PROVE  LET p == Previous(l, lcn) IN
           /\ p = Null => l.head = Null \/ lcn < LcnOf(l, l.head)
           /\ p # Null => /\ p \in Items(l) /\ LcnOf(l, p) <= lcn
                          /\ SuccOf(l, p) # l.head => lcn < LcnOf(l, SuccOf(l, p))
<1> DEFINE w == Order(l)
           n == Cardinality(Items(l))
           after == {k \in 1 .. n : LcnOf(l, w[k]) > lcn}
<1>1. /\ n \in Nat /\ DOMAIN w = 1 .. n
      /\ \A k \in 1 .. n : w[k] = IF k = 1 THEN l.head ELSE SuccOf(l, w[k - 1])
  BY OrderIs DEF Sorted, IsList
<1>2. \A k \in 1 .. n : Met(l, k) /\ w[k] \in Items(l) /\ LcnOf(l, w[k]) \in Int
  BY OrderMeets DEF Sorted, Ascending, Placed, Met, Clusters
<1>3. Previous(l, lcn) = IF l.head = Null THEN Null
                         ELSE IF after = {} THEN w[n]
                         ELSE IF Min(after) = 1 THEN Null ELSE PredOf(l, w[Min(after)])
  BY <1>1 DEF Previous, LcnOf, PredOf
<1>4. \A k \in 1 .. n : w[k] # Null
  BY <1>2, SizesAssumption DEF Sorted, IsList
<1>5. CASE l.head = Null
  BY <1>3, <1>5
<1>6. CASE l.head # Null /\ after = {}
  <2>1. n >= 1
    BY <1>1, <1>6, FS_EmptySet DEF Sorted, IsList, Linked
  <2>2. \A k \in 1 .. n : k = n \/ LcnOf(l, w[k]) < LcnOf(l, w[n])
    BY <1>1, <2>1, OrderAscends
  <2>3. n \in 1 .. n
    BY <1>1, <2>1
  <2>4. ASSUME NEW i \in Items(l) PROVE LcnOf(l, i) <= LcnOf(l, w[n])
    <3>1. PICK k \in 1 .. n : i = w[k]
      BY OrderCovers
    <3>2. LcnOf(l, w[k]) \in Int /\ LcnOf(l, w[n]) \in Int
      BY <1>2, <2>3
    <3> QED
      BY <2>2, <3>1, <3>2
  <2> DEFINE p == w[n]
  <2>5. p \in Items(l) /\ p # Null /\ LcnOf(l, p) <= lcn /\ Previous(l, lcn) = p
    <3>1. LcnOf(l, w[n]) \in Int /\ ~ (LcnOf(l, w[n]) > lcn)
      BY <1>2, <1>6, <2>3
    <3> QED
      BY <1>2, <1>3, <1>4, <1>6, <2>3, <3>1
  <2> HIDE DEF p
  <2>6. \A i \in Items(l) : LcnOf(l, i) <= LcnOf(l, p)
    BY <2>4 DEF p
  <2>7. SuccOf(l, p) = l.head
    BY <2>5, <2>6 DEF Sorted, Linked, Ascending, Placed, Upward, Clusters
  <2> QED
    BY <2>5, <2>7
<1>7. CASE l.head # Null /\ after # {}
  <2>1. Min(after) \in after /\ \A k \in after : Min(after) <= k
    <3>1. after \subseteq Nat
      OBVIOUS
    <3> HIDE DEF after
    <3> QED
      BY <1>7, <3>1, MinIs
  <2> DEFINE m == Min(after)
  <2> HIDE DEF m
  <2>2. CASE m = 1
    BY <1>1, <1>3, <1>7, <2>1, <2>2 DEF m
  <2>3. CASE m # 1
    <3>1. m \in 1 .. n /\ m - 1 \in 1 .. n /\ m - 1 \notin after /\ lcn < LcnOf(l, w[m])
      BY <1>1, <2>1, <2>3 DEF m
    <3>2. PredOf(l, w[m]) = w[m - 1] /\ SuccOf(l, w[m - 1]) = w[m]
      BY <1>1, <1>2, <2>3, <3>1 DEF Sorted, Linked
    <3>3. Previous(l, lcn) = w[m - 1]
      BY <1>3, <1>7, <2>3, <3>2 DEF m
    <3> QED
      BY <1>2, <1>4, <3>1, <3>2, <3>3
  <2> QED
    BY <2>2, <2>3
<1> QED
  BY <1>5, <1>6, <1>7

\* The clusters of a list.
Covers(l, c) == \E i \in Items(l) : LcnOf(l, i) <= c /\ c < EndOf(l, i)

LEMMA ClustersAre ==
    ASSUME NEW l, Sorted(l)
    PROVE  /\ ClustersOf(l) \subseteq Clusters
           /\ \A c \in Int : c \in ClustersOf(l) <=> Covers(l, c)
<1>1. \A c \in ClustersOf(l) : \E i \in Items(l) : c \in Span(l.item[i].lcn, l.item[i].length)
  BY DEF ClustersOf
<1>2. \A i \in Items(l) : \A c : c \in Span(l.item[i].lcn, l.item[i].length) <=>
         c \in Int /\ LcnOf(l, i) <= c /\ c < EndOf(l, i)
  <2> TAKE i \in Items(l)
  <2>1. l.item[i].lcn \in Int /\ l.item[i].length \in Int
    BY DEF Sorted, IsList, Items, Record, Clusters
  <2> QED
    BY <2>1 DEF Span, LcnOf, EndOf
<1>3. \A c \in Int : Covers(l, c) => c \in ClustersOf(l)
  BY <1>2 DEF Covers, ClustersOf
<1>4. ClustersOf(l) \subseteq Clusters
  <2> SUFFICES ASSUME NEW c \in ClustersOf(l) PROVE c \in Clusters
    OBVIOUS
  <2>1. PICK i \in Items(l) : c \in Int /\ LcnOf(l, i) <= c /\ c < EndOf(l, i)
    BY <1>1, <1>2
  <2> QED
    BY <2>1, SizesAssumption DEF Sorted, Ascending, Placed, Clusters
<1> QED
  BY <1>1, <1>2, <1>3, <1>4 DEF Covers

\* A region away from all others becomes an item of its own.
Inserted(l, m, lcn, length, n) ==
    /\ Sorted(m) /\ Items(m) = Items(l) \cup {n}
    /\ \A i \in Items(l) : LcnOf(m, i) = LcnOf(l, i) /\ EndOf(m, i) = EndOf(l, i)
    /\ LcnOf(m, n) = lcn /\ EndOf(m, n) = lcn + length

LEMMA InsertAlone ==
    ASSUME NEW l, Sorted(l), l.head = Null, NEW prev, NEW n \in Addresses,
           NEW lcn \in Clusters, NEW length \in Nat, length > 0, lcn + length <= NClusters
    PROVE  Inserted(l, Insert(l, prev, n, lcn, length), lcn, length, n)
<1> DEFINE m == Insert(l, prev, n, lcn, length)
<1>1. /\ IsList(m) /\ m.head = n /\ Items(m) = {n}
      /\ SuccOf(m, n) = n /\ PredOf(m, n) = n
      /\ LcnOf(m, n) = lcn /\ EndOf(m, n) = lcn + length
  BY InsertFirst
<1>2. Items(l) = {} /\ n # Null
  BY SizesAssumption DEF Sorted, Linked
<1> HIDE DEF m
<1>3. Linked(m)
  BY <1>1, <1>2 DEF Linked
<1>4. Ascending(m)
  <2>1. lcn \in Int /\ lcn < lcn + length /\ lcn + length \in 1 .. NClusters
    BY SizesAssumption DEF Clusters
  <2> QED
    BY <1>1, <2>1 DEF Ascending, Placed, Apart, Upward, Adjacent
<1> QED
  BY <1>1, <1>2, <1>3, <1>4 DEF Inserted, Sorted, m

LEMMA AddInserts ==
    ASSUME NEW l, Sorted(l), NEW n \in Addresses, n \notin Items(l),
           NEW lcn \in Clusters, NEW length \in Nat, length > 0, lcn + length <= NClusters,
           \A i \in Items(l) : EndOf(l, i) < lcn \/ lcn + length < LcnOf(l, i)
    PROVE  Inserted(l, AddRegion(l, lcn, length, n), lcn, length, n)
<1> DEFINE p == Previous(l, lcn)
           m == Insert(l, p, n, lcn, length)
           end == lcn + length
<1>1. /\ p = Null => l.head = Null \/ lcn < LcnOf(l, l.head)
      /\ p # Null => /\ p \in Items(l) /\ LcnOf(l, p) <= lcn
                     /\ SuccOf(l, p) # l.head => lcn < LcnOf(l, SuccOf(l, p))
  BY PreviousIs DEF Clusters
<1>2. /\ lcn \in Int /\ end \in Int /\ lcn < end /\ end \in 1 .. NClusters
      /\ n # Null /\ (l.head # Null => l.head \in Items(l))
      /\ \A i \in Items(l) : i # Null /\ LcnOf(l, i) \in Int /\ EndOf(l, i) \in Int
                             /\ LcnOf(l, i) < EndOf(l, i) /\ SuccOf(l, i) \in Items(l)
  BY SizesAssumption DEF Sorted, IsList, Linked, Ascending, Placed, Clusters
<1>3. p # Null => EndOf(l, p) < lcn
  BY <1>1, <1>2
<1> DEFINE q == IF p = Null THEN l.head ELSE SuccOf(l, p)
<1>4. l.head # Null => q \in Items(l) /\ end # LcnOf(l, q)
  BY <1>1, <1>2
<1>5. AddRegion(l, lcn, length, n) = m
  <2>1. length # 0 /\ ~(p # Null /\ End(l.item[p]) = lcn)
    BY <1>1, <1>2, <1>3 DEF End, EndOf
  <2>2. ~(l.head # Null /\ lcn + length = l.item[IF p = Null THEN l.head ELSE l.item[p].next].lcn)
    BY <1>4 DEF LcnOf, SuccOf
  <2> HIDE DEF p
  <2> QED
    BY <2>1, <2>2 DEF AddRegion, p
<1>6. CASE l.head = Null
  BY <1>5, <1>6, InsertAlone
<1>7. CASE l.head # Null
  <2>1. p = Null \/ p \in Items(l)
    BY <1>1
  <2> DEFINE v == IF p = Null THEN PredOf(l, l.head) ELSE p
  <2> HIDE DEF p
  <2>2. Linking(l, m, v, n, lcn, end) /\ m.head = IF p = Null THEN n ELSE l.head
    BY <1>7, <2>1, InsertLinks DEF Sorted
  <2> HIDE DEF m, end
  <2>3. Sorted(m)
    <3>1. CASE p = Null
      <4>1. end < LcnOf(l, l.head)
        BY <1>1, <1>2, <1>7, <3>1 DEF end
      <4>2. Linking(l, m, PredOf(l, l.head), n, lcn, end) /\ m.head = n
        BY <2>2, <3>1
      <4> QED
        BY <1>2, <1>7, <4>1, <4>2, KeepInsertHead
    <3>2. CASE p # Null
      <4>1. SuccOf(l, p) # l.head => end < LcnOf(l, SuccOf(l, p))
        BY <1>1, <1>2, <3>2 DEF end
      <4>2. Linking(l, m, p, n, lcn, end) /\ m.head = l.head
        BY <2>2, <3>2
      <4> QED
        BY <1>1, <1>2, <1>3, <3>2, <4>1, <4>2, KeepInsert
    <3> QED
      BY <3>1, <3>2
  <2> QED
    BY <1>5, <2>2, <2>3 DEF Inserted, Linking, end
<1> QED
  BY <1>6, <1>7

\* Clusters that come to a list.
LEMMA ClustersGrow ==
    ASSUME NEW l, Sorted(l), NEW m, Sorted(m), NEW lcn \in Int, NEW length \in Int,
           \A c \in Int : Covers(m, c) <=> Covers(l, c) \/ (lcn <= c /\ c < lcn + length)
    PROVE  ClustersOf(m) = ClustersOf(l) \cup Span(lcn, length)
<1>1. /\ ClustersOf(l) \subseteq Int /\ ClustersOf(m) \subseteq Int
      /\ Span(lcn, length) \subseteq Int
      /\ \A c \in Int : c \in Span(lcn, length) <=> lcn <= c /\ c < lcn + length
  BY ClustersAre DEF Clusters, Span
<1>2. \A c \in Int : /\ c \in ClustersOf(m) <=> Covers(m, c)
                     /\ c \in ClustersOf(l) <=> Covers(l, c)
  BY ClustersAre
<1> QED
  BY <1>1, <1>2

\* A list that has got the clusters from lcn up to end.
Filled(l, m, lcn, end) ==
    /\ Sorted(m)
    /\ \A c \in Int : Covers(m, c) <=> Covers(l, c) \/ (lcn <= c /\ c < end)

LEMMA InsertedFills ==
    ASSUME NEW l, Sorted(l), NEW m, NEW lcn \in Int, NEW length \in Nat, length > 0,
           NEW n, n \notin Items(l), Inserted(l, m, lcn, length, n)
    PROVE  Filled(l, m, lcn, lcn + length)
<1>1. ASSUME NEW c \in Int
      PROVE  Covers(m, c) <=> Covers(l, c) \/ (lcn <= c /\ c < lcn + length)
  <2>1. ASSUME Covers(m, c) PROVE Covers(l, c) \/ (lcn <= c /\ c < lcn + length)
    BY <2>1 DEF Inserted, Covers
  <2>2. ASSUME Covers(l, c) PROVE Covers(m, c)
    BY <2>2 DEF Inserted, Covers
  <2>3. ASSUME lcn <= c, c < lcn + length PROVE Covers(m, c)
    BY <2>3 DEF Inserted, Covers
  <2> QED
    BY <2>1, <2>2, <2>3
<1> QED
  BY <1>1 DEF Inserted, Filled

\* Two regions become one: the item of the second goes, the first takes over
\* its clusters and everything between the two.
LEMMA MergeKeeps ==
    ASSUME NEW l, Sorted(l), NEW p \in Items(l), NEW q, q = SuccOf(l, p), q # l.head,
           NEW k, Moving(l, k, p, LcnOf(l, p), EndOf(l, q)),
           NEW m, Unlinking(k, m, q)
    PROVE  /\ Sorted(m) /\ Items(m) = Items(l) \ {q}
           /\ \A i \in Items(m) : /\ LcnOf(m, i) = LcnOf(l, i)
                                  /\ EndOf(m, i) = IF i = p THEN EndOf(l, q) ELSE EndOf(l, i)
<1> DEFINE o == Remove(l, q)
           lcn == LcnOf(l, p)
           end == EndOf(l, q)
<1>1. /\ q \in Items(l) /\ p # q /\ PredOf(l, q) = p
      /\ lcn \in Clusters /\ lcn \in Int /\ end \in 1 .. NClusters /\ lcn < end
      /\ EndOf(l, p) < LcnOf(l, q)
  BY DEF Sorted, Linked, Ascending, Placed, Apart, Upward, Clusters
<1>2. Unlinking(l, o, q)
  BY <1>1, RemoveUnlinks, HeadAlone DEF Sorted
<1> HIDE DEF o, lcn, end
<1>3. Sorted(o)
  BY <1>1, <1>2, KeepRemove
<1>4. p \in Items(o) /\ o.head = l.head
  BY <1>1, <1>2 DEF Unlinking
<1>5. Moving(o, m, p, lcn, end)
  <2>1. IsList(m) /\ Items(m) = Items(o) /\ m.head = o.head
    BY <1>1, <1>2, <1>4 DEF Unlinking, Moving
  <2>2. ASSUME NEW i \in Items(o)
        PROVE  /\ SuccOf(m, i) = SuccOf(o, i) /\ PredOf(m, i) = PredOf(o, i)
               /\ LcnOf(m, i) = IF i = p THEN lcn ELSE LcnOf(o, i)
               /\ EndOf(m, i) = IF i = p THEN end ELSE EndOf(o, i)
    BY <1>1, <1>2, <2>1 DEF Unlinking, Moving, lcn, end
  <2> QED
    BY <2>1, <2>2 DEF Moving
<1>6. p # o.head => EndOf(o, PredOf(o, p)) < lcn
  <2>1. LcnOf(o, p) = lcn
    BY <1>2, <1>4 DEF Unlinking, lcn
  <2> QED
    BY <1>3, <1>4, <2>1 DEF Sorted, Linked, Ascending, Placed, Apart, Upward, Clusters
<1>7. SuccOf(o, p) # o.head => end < LcnOf(o, SuccOf(o, p))
  <2> HAVE SuccOf(o, p) # o.head
  <2> DEFINE s == SuccOf(l, q)
  <2>1. s = SuccOf(o, p) /\ s # l.head /\ s \in Items(l) /\ s # q
    BY <1>1, <1>2, <1>4 DEF Unlinking, Sorted, Linked
  <2> HIDE DEF s
  <2>2. LcnOf(l, q) < LcnOf(l, s)
    BY <1>1, <2>1 DEF s, Sorted, Ascending, Upward
  <2>3. EndOf(l, q) < LcnOf(l, s)
    BY <1>1, <2>1, <2>2 DEF Sorted, Ascending, Placed, Apart, Clusters
  <2> QED
    BY <1>2, <1>3, <1>4, <2>1, <2>3 DEF Unlinking, Sorted, Linked, end
<1>8. Sorted(m)
  BY <1>1, <1>3, <1>4, <1>5, <1>6, <1>7, KeepMove
<1> QED
  BY <1>1, <1>2, <1>5, <1>8 DEF Moving, Unlinking, lcn, end

\* What follows from the order for single regions.
LEMMA SortedFacts ==
    ASSUME NEW l, Sorted(l)
    PROVE  /\ l.head = Null <=> Items(l) = {}
           /\ l.head # Null => l.head \in Items(l)
           /\ Items(l) \subseteq Addresses /\ IsFiniteSet(Items(l))
           /\ \A i \in Items(l) :
                /\ i # Null /\ i \in DOMAIN l.item /\ l.item[i] \in Record /\ l.item[i].length \in Int
                /\ EndOf(l, i) = LcnOf(l, i) + l.item[i].length
                /\ SuccOf(l, i) \in Items(l) /\ PredOf(l, i) \in Items(l)
                /\ LcnOf(l, i) \in Int /\ EndOf(l, i) \in Int /\ LcnOf(l, i) < EndOf(l, i)
                /\ LcnOf(l, i) \in Clusters /\ EndOf(l, i) \in 1 .. NClusters
                /\ LcnOf(l, l.head) <= LcnOf(l, i)
           /\ \A i, j \in Items(l) : i = j \/ EndOf(l, i) < LcnOf(l, j) \/ EndOf(l, j) < LcnOf(l, i)
<1>1. Items(l) \subseteq Addresses /\ IsFiniteSet(Items(l))
  BY DEF Sorted, IsList
<1>2. /\ l.head = Null <=> Items(l) = {}
      /\ l.head # Null => l.head \in Items(l)
      /\ \A i \in Items(l) : SuccOf(l, i) \in Items(l) /\ PredOf(l, i) \in Items(l)
  BY DEF Sorted, Linked
<1>3. \A i \in Items(l) :
        /\ i # Null /\ i \in DOMAIN l.item /\ l.item[i] \in Record /\ l.item[i].length \in Int
        /\ EndOf(l, i) = LcnOf(l, i) + l.item[i].length
  BY SizesAssumption DEF Sorted, IsList, Items, Record, LcnOf, EndOf
<1>4. \A i \in Items(l) :
        /\ LcnOf(l, i) \in Int /\ EndOf(l, i) \in Int /\ LcnOf(l, i) < EndOf(l, i)
        /\ LcnOf(l, i) \in Clusters /\ EndOf(l, i) \in 1 .. NClusters
        /\ LcnOf(l, l.head) <= LcnOf(l, i)
  BY DEF Sorted, Ascending, Placed, Clusters
<1>5. \A i, j \in Items(l) : i = j \/ EndOf(l, i) < LcnOf(l, j) \/ EndOf(l, j) < LcnOf(l, i)
  BY <1>4 DEF Sorted, Ascending, Apart
<1> QED
  BY <1>1, <1>2, <1>3, <1>4, <1>5

\* A range that no region touches.
LEMMA FreeRange ==
    ASSUME NEW l, Sorted(l), NEW lcn \in Clusters, NEW length \in Nat, length > 0,
           Span(lcn, length) \subseteq Clusters \ ClustersOf(l)
    PROVE  /\ lcn \in Int /\ lcn < lcn + length /\ lcn + length \in 1 .. NClusters
           /\ \A i \in Items(l) : EndOf(l, i) <= lcn \/ lcn + length <= LcnOf(l, i)
<1> DEFINE end == lcn + length
<1>1. lcn \in Int /\ lcn < end /\ end \in Int
  BY DEF Clusters
<1>2. \A c \in Int : lcn <= c /\ c < end => c \in Clusters /\ ~ Covers(l, c)
  <2>1. \A c \in Int : lcn <= c /\ c < end => c \in Span(lcn, length)
    BY <1>1 DEF Span
  <2> QED
    BY <2>1, ClustersAre
<1> HIDE DEF end
<1>3. end \in 1 .. NClusters
  <2>1. end - 1 \in Clusters
    BY <1>1, <1>2
  <2> QED
    BY <1>1, <2>1, SizesAssumption DEF Clusters
<1>4. ASSUME NEW i \in Items(l) PROVE EndOf(l, i) <= lcn \/ end <= LcnOf(l, i)
  <2>1. LcnOf(l, i) \in Int /\ EndOf(l, i) \in Int /\ LcnOf(l, i) < EndOf(l, i)
    BY SortedFacts
  <2>2. ASSUME EndOf(l, i) > lcn, end > LcnOf(l, i) PROVE FALSE
    <3> DEFINE c == IF lcn < LcnOf(l, i) THEN LcnOf(l, i) ELSE lcn
    <3>1. c \in Int /\ lcn <= c /\ c < end /\ LcnOf(l, i) <= c /\ c < EndOf(l, i)
      BY <1>1, <2>1, <2>2
    <3> HIDE DEF c
    <3> QED
      BY <1>2, <3>1 DEF Covers
  <2> QED
    BY <1>1, <2>1, <2>2
<1> QED
  BY <1>1, <1>3, <1>4 DEF end

\* The two ways in which a region grows.
Longer(l, p, length) == [l EXCEPT !.item[p].length = @ + length]
Lower(l, q, lcn, length) == [l EXCEPT !.item[q].lcn = lcn, !.item[q].length = @ + length]

LEMMA GrowMoves ==
    ASSUME NEW l, IsList(l), NEW p \in Items(l), LcnOf(l, p) \in Int,
           l.item[p].length \in Int, NEW lcn \in Clusters, NEW length \in Int
    PROVE  /\ Moving(l, Longer(l, p, length), p, LcnOf(l, p), EndOf(l, p) + length)
           /\ Moving(l, Lower(l, p, lcn, length), p, lcn, lcn + l.item[p].length + length)
<1> DEFINE sum == l.item[p].length + length
<1>1. sum \in Int
  OBVIOUS
<1>2. Longer(l, p, length) = [l EXCEPT !.item[p].length = sum]
  BY DEF IsList, Items, Longer
<1>3. Lower(l, p, lcn, length)
      = [l EXCEPT !.item[p].lcn = lcn, !.item[p].length = sum]
  BY DEF IsList, Items, Lower
<1>4. lcn \in Int
  BY DEF Clusters
<1>5. LcnOf(l, p) + sum = EndOf(l, p) + length /\ lcn + sum = lcn + l.item[p].length + length
  BY <1>4 DEF LcnOf, EndOf
<1> HIDE DEF sum
<1>6. /\ Moving(l, [l EXCEPT !.item[p].length = sum], p, LcnOf(l, p), LcnOf(l, p) + sum)
      /\ Moving(l, [l EXCEPT !.item[p].lcn = lcn, !.item[p].length = sum], p, lcn, lcn + sum)
  BY <1>1, ResizeMoves
<1> QED
  BY <1>2, <1>3, <1>5, <1>6

LEMMA GrowRightFills ==
    ASSUME NEW l, Sorted(l), NEW p \in Items(l), NEW lcn \in Clusters, EndOf(l, p) = lcn,
           NEW length \in Nat, length > 0, lcn + length \in 1 .. NClusters,
           \A i \in Items(l) : EndOf(l, i) <= lcn \/ lcn + length <= LcnOf(l, i)
    PROVE  Filled(l, GrowRight(l, p, length), lcn, lcn + length)
<1> DEFINE end == lcn + length
           grown == Longer(l, p, length)
           q == SuccOf(l, p)
           k == Longer(grown, p, grown.item[q].length)
           m == GrowRight(l, p, length)
<1>1. lcn \in Int /\ end \in Int /\ lcn < end /\ end \in 1 .. NClusters
  BY DEF Clusters
<1>2. /\ q \in Items(l) /\ PredOf(l, p) \in Items(l) /\ PredOf(l, q) = p /\ SuccOf(l, PredOf(l, p)) = p
      /\ LcnOf(l, p) \in Clusters /\ LcnOf(l, p) \in Int /\ LcnOf(l, p) < lcn
      /\ LcnOf(l, l.head) <= LcnOf(l, p)
      /\ \A i \in Items(l) : i = p \/ EndOf(l, i) < LcnOf(l, p) \/ lcn < LcnOf(l, i)
      /\ \A i \in Items(l) : LcnOf(l, i) \in Int /\ EndOf(l, i) \in Int /\ LcnOf(l, i) < EndOf(l, i)
  BY SortedFacts DEF Sorted, Linked
<1>3. Moving(l, grown, p, LcnOf(l, p), end)
  <2>1. IsList(l) /\ l.item[p].length \in Int
    BY SortedFacts DEF Sorted
  <2> QED
    BY <1>1, <1>2, <2>1, GrowMoves
<1> HIDE DEF grown
<1>4. m = IF end = LcnOf(l, q) THEN Remove(k, q) ELSE grown
  <2>1. EndOf(grown, p) = end /\ LcnOf(grown, q) = LcnOf(l, q)
    BY <1>2, <1>3 DEF Moving
  <2>2. End(grown.item[p]) = end /\ grown.item[q].lcn = LcnOf(l, q)
    BY <2>1 DEF End, EndOf, LcnOf
  <2>3. l.item[p].next = q
    BY DEF SuccOf
  <2> QED
    BY <2>2, <2>3 DEF GrowRight, grown, Longer
<1> HIDE DEF q, m, end
<1>5. CASE end = LcnOf(l, q)
  <2>1. q # l.head /\ q # p
    BY <1>1, <1>2, <1>5
  <2>2. Moving(l, k, p, LcnOf(l, p), EndOf(l, q))
    <3>1. IsList(grown) /\ p \in Items(grown) /\ LcnOf(grown, p) = LcnOf(l, p) /\ EndOf(grown, p) = end
      BY <1>3 DEF Moving
    <3>2. LcnOf(grown, q) = LcnOf(l, q) /\ EndOf(grown, q) = EndOf(l, q)
      BY <1>2, <1>3, <2>1 DEF Moving
    <3>3. grown.item[p].length \in Int /\ grown.item[q].length \in Int
      BY <1>2, <1>3 DEF Moving, IsList, Items, Record
    <3>4. Moving(grown, k, p, LcnOf(l, p), end + grown.item[q].length)
      BY <1>2, <3>1, <3>3, GrowMoves
    <3>5. end + grown.item[q].length = EndOf(l, q)
      BY <1>5, <3>2 DEF LcnOf, EndOf
    <3> HIDE DEF k
    <3> QED
      BY <1>3, <3>4, <3>5 DEF Moving
  <2> HIDE DEF k
  <2>3. Unlinking(k, m, q)
    <3>1. IsList(k) /\ Linked(k) /\ q \in Items(k)
      BY <1>2, <2>2 DEF Moving, Sorted, Linked
    <3>2. OnlyHead(k)
      BY <2>2, HeadAlone DEF Moving, OnlyHead, Sorted, Linked
    <3> QED
      BY <1>4, <1>5, <3>1, <3>2, RemoveUnlinks
  <2>4. /\ Sorted(m) /\ Items(m) = Items(l) \ {q}
        /\ \A i \in Items(m) : /\ LcnOf(m, i) = LcnOf(l, i)
                               /\ EndOf(m, i) = IF i = p THEN EndOf(l, q) ELSE EndOf(l, i)
    BY <2>1, <2>2, <2>3, MergeKeeps DEF q
  <2>5. ASSUME NEW c \in Int
        PROVE  Covers(m, c) <=> Covers(l, c) \/ (lcn <= c /\ c < end)
    <3>1. ASSUME Covers(m, c) PROVE Covers(l, c) \/ (lcn <= c /\ c < end)
      BY <1>1, <1>2, <1>5, <2>4, <3>1 DEF Covers
    <3>2. ASSUME Covers(l, c) PROVE Covers(m, c)
      <4>1. PICK i \in Items(l) : LcnOf(l, i) <= c /\ c < EndOf(l, i)
        BY <3>2 DEF Covers
      <4>2. CASE i = q \/ i = p
        BY <1>1, <1>2, <1>5, <2>1, <2>4, <4>1, <4>2 DEF Covers
      <4>3. CASE i # q /\ i # p
        BY <2>4, <4>1, <4>3 DEF Covers
      <4> QED
        BY <4>2, <4>3
    <3>3. ASSUME lcn <= c, c < end PROVE Covers(m, c)
      BY <1>1, <1>2, <1>5, <2>1, <2>4, <3>3 DEF Covers
    <3> QED
      BY <3>1, <3>2, <3>3
  <2> QED
    BY <2>4, <2>5 DEF Filled, m, end
<1>6. CASE end # LcnOf(l, q)
  <2>1. m = grown
    BY <1>4, <1>6
  <2>2. p # l.head => EndOf(l, PredOf(l, p)) < LcnOf(l, p)
    BY <1>2 DEF Sorted, Ascending, Apart, Upward
  <2>3. q # l.head => end < LcnOf(l, q)
    <3> HAVE q # l.head
    <3>1. LcnOf(l, p) < LcnOf(l, q)
      BY DEF Sorted, Ascending, Upward, q
    <3>2. lcn < LcnOf(l, q)
      BY <1>2, <3>1
    <3> QED
      BY <1>1, <1>2, <1>6, <3>2 DEF end
  <2>4. LcnOf(l, p) < end
    BY <1>1, <1>2
  <2>5. Sorted(m)
    BY <1>1, <1>2, <1>3, <2>1, <2>2, <2>3, <2>4, KeepMove DEF q
  <2>6. ASSUME NEW c \in Int
        PROVE  Covers(m, c) <=> Covers(l, c) \/ (lcn <= c /\ c < end)
    <3>1. ASSUME Covers(m, c) PROVE Covers(l, c) \/ (lcn <= c /\ c < end)
      BY <1>1, <1>2, <1>3, <2>1, <3>1 DEF Covers, Moving
    <3>2. ASSUME Covers(l, c) PROVE Covers(m, c)
      BY <1>1, <1>2, <1>3, <2>1, <3>2 DEF Covers, Moving
    <3>3. ASSUME lcn <= c, c < end PROVE Covers(m, c)
      BY <1>1, <1>2, <1>3, <2>1, <3>3 DEF Covers, Moving
    <3> QED
      BY <3>1, <3>2, <3>3
  <2> QED
    BY <2>5, <2>6 DEF Filled, m, end
<1> QED
  BY <1>5, <1>6

LEMMA GrowLeftFills ==
    ASSUME NEW l, Sorted(l), NEW q \in Items(l), NEW lcn \in Clusters,
           NEW length \in Nat, length > 0, lcn + length = LcnOf(l, q),
           q # l.head => EndOf(l, PredOf(l, q)) < lcn
    PROVE  Filled(l, Lower(l, q, lcn, length), lcn, lcn + length)
<1> DEFINE end == lcn + length
           m == Lower(l, q, lcn, length)
<1>1. lcn \in Int /\ end \in Int /\ lcn < end
  BY DEF Clusters
<1>2. /\ SuccOf(l, q) \in Items(l) /\ EndOf(l, q) \in 1 .. NClusters
      /\ \A i \in Items(l) : LcnOf(l, i) \in Int /\ EndOf(l, i) \in Int /\ LcnOf(l, i) < EndOf(l, i)
      /\ IsList(l) /\ l.item[q].length \in Int /\ EndOf(l, q) = LcnOf(l, q) + l.item[q].length
  BY SortedFacts DEF Sorted
<1>3. Moving(l, m, q, lcn, EndOf(l, q))
  <2>1. Moving(l, m, q, lcn, lcn + l.item[q].length + length)
    BY <1>2, GrowMoves
  <2>2. lcn + l.item[q].length + length = EndOf(l, q)
    BY <1>1, <1>2
  <2> HIDE DEF m
  <2> QED
    BY <2>1, <2>2
<1> HIDE DEF m, end
<1>4. lcn < EndOf(l, q) /\ end = LcnOf(l, q)
  BY <1>1, <1>2 DEF end
<1>5. SuccOf(l, q) # l.head => EndOf(l, q) < LcnOf(l, SuccOf(l, q))
  BY <1>2 DEF Sorted, Ascending, Apart, Upward
<1>6. Sorted(m)
  BY <1>2, <1>3, <1>4, <1>5, KeepMove
<1>7. ASSUME NEW c \in Int
      PROVE  Covers(m, c) <=> Covers(l, c) \/ (lcn <= c /\ c < end)
  <2>1. ASSUME Covers(m, c) PROVE Covers(l, c) \/ (lcn <= c /\ c < end)
    BY <1>1, <1>2, <1>3, <1>4, <2>1 DEF Covers, Moving
  <2>2. ASSUME Covers(l, c) PROVE Covers(m, c)
    BY <1>1, <1>2, <1>3, <1>4, <2>2 DEF Covers, Moving
  <2>3. ASSUME lcn <= c, c < end PROVE Covers(m, c)
    BY <1>1, <1>2, <1>3, <1>4, <2>3 DEF Covers, Moving
  <2> QED
    BY <2>1, <2>2, <2>3
<1> QED
  BY <1>6, <1>7 DEF Filled, m, end

\* winx_add_volume_region keeps the list sorted and merged and adds exactly
\* the clusters it was called with.
LEMMA AddKeeps ==
    ASSUME NEW l, Sorted(l), NEW n \in Addresses, n \notin Items(l),
           NEW lcn \in Clusters, NEW length \in Nat,
           Span(lcn, length) \subseteq Clusters \ ClustersOf(l)
    PROVE  LET m == AddRegion(l, lcn, length, n) IN
           Sorted(m) /\ ClustersOf(m) = ClustersOf(l) \cup Span(lcn, length)
<1> DEFINE m == AddRegion(l, lcn, length, n)
           end == lcn + length
<1>1. PICK p : /\ p = Previous(l, lcn)
               /\ p = Null => l.head = Null \/ lcn < LcnOf(l, l.head)
               /\ p # Null => /\ p \in Items(l) /\ LcnOf(l, p) <= lcn
                              /\ SuccOf(l, p) # l.head => lcn < LcnOf(l, SuccOf(l, p))
  BY PreviousIs DEF Clusters
<1> DEFINE q == IF p = Null THEN l.head ELSE SuccOf(l, p)
<1>2. m = IF length = 0 THEN l
          ELSE IF p # Null /\ EndOf(l, p) = lcn THEN GrowRight(l, p, length)
          ELSE IF l.head # Null /\ end = LcnOf(l, q)
               THEN Lower(l, q, lcn, length)
          ELSE Insert(l, p, n, lcn, length)
  BY <1>1 DEF AddRegion, End, EndOf, LcnOf, SuccOf, Lower
<1> HIDE DEF q, m
<1>3. CASE length = 0
  <2>1. m = l /\ Span(lcn, length) = {}
    BY <1>2, <1>3 DEF Span, Clusters
  <2> QED
    BY <2>1 DEF m
<1>4. CASE length > 0
  <2>1. /\ lcn \in Int /\ lcn < end /\ end \in 1 .. NClusters
        /\ \A i \in Items(l) : EndOf(l, i) <= lcn \/ end <= LcnOf(l, i)
    BY <1>4, FreeRange
  <2> SUFFICES Filled(l, m, lcn, end)
    BY <1>4, <2>1, ClustersGrow DEF Filled, m
  <2>2. /\ l.head # Null => l.head \in Items(l)
        /\ \A i \in Items(l) :
             /\ i # Null /\ LcnOf(l, i) \in Int /\ EndOf(l, i) \in Int /\ LcnOf(l, i) < EndOf(l, i)
             /\ SuccOf(l, i) \in Items(l) /\ PredOf(l, SuccOf(l, i)) = i
             /\ LcnOf(l, l.head) <= LcnOf(l, i)
    BY SortedFacts DEF Sorted, Linked
  <2>3. /\ l.head # Null => q \in Items(l)
        /\ l.head # Null /\ end = LcnOf(l, q) /\ p # Null => q # l.head
        /\ p # Null => l.head # Null
    BY <1>1, <2>1, <2>2 DEF q, Sorted, Linked
  <2>4. CASE p # Null /\ EndOf(l, p) = lcn
    BY <1>1, <1>2, <1>4, <2>1, <2>4, GrowRightFills
  <2>5. CASE ~(p # Null /\ EndOf(l, p) = lcn) /\ l.head # Null /\ end = LcnOf(l, q)
    <3>1. m = Lower(l, q, lcn, length)
      BY <1>2, <1>4, <2>5
    <3>2. q # l.head => EndOf(l, PredOf(l, q)) < lcn
      BY <1>1, <2>1, <2>2, <2>5 DEF q
    <3> QED
      BY <1>4, <2>3, <2>5, <3>1, <3>2, GrowLeftFills
  <2>6. CASE ~(p # Null /\ EndOf(l, p) = lcn) /\ ~(l.head # Null /\ end = LcnOf(l, q))
    <3>1. ASSUME NEW i \in Items(l) PROVE EndOf(l, i) < lcn \/ end < LcnOf(l, i)
      <4>1. CASE LcnOf(l, i) <= lcn
        <5>1. p # Null
          <6>1. l.head # Null
            BY SortedFacts
          <6> QED
            BY <1>1, <2>1, <2>2, <4>1, <6>1
        <5>2. EndOf(l, p) < lcn /\ p \in Items(l)
          BY <1>1, <2>1, <2>2, <2>6, <5>1
        <5>3. i = p \/ LcnOf(l, i) < LcnOf(l, p)
          BY <1>1, <2>1, <2>2, <4>1, <5>1 DEF Sorted, Ascending, Apart, Adjacent
        <5> QED
          BY <2>1, <2>2, <5>2, <5>3 DEF Sorted, Ascending, Apart
      <4>2. CASE lcn < LcnOf(l, i)
        <5>1. l.head # Null /\ q \in Items(l) /\ end # LcnOf(l, q)
          BY <2>2, <2>3, <2>6, SortedFacts
        <5>2. LcnOf(l, q) <= LcnOf(l, i)
          BY <1>1, <2>1, <2>2, <4>2, <5>1 DEF q, Sorted, Ascending, Adjacent
        <5>3. i = q \/ LcnOf(l, q) < LcnOf(l, i)
          BY <2>2, <5>1, <5>2 DEF Sorted, Ascending, Apart
        <5>4. lcn < LcnOf(l, q)
          BY <1>1, <2>1, <2>2, <4>2, <5>1 DEF q, Sorted, Ascending, Adjacent
        <5> QED
          BY <2>1, <2>2, <5>1, <5>3, <5>4
      <4> QED
        BY <2>1, <2>2, <4>1, <4>2
    <3>2. Inserted(l, m, lcn, length, n)
      BY <1>4, <2>1, <3>1, AddInserts DEF m
    <3> QED
      BY <1>4, <2>1, <3>2, InsertedFills
  <2> QED
    BY <2>4, <2>5, <2>6
<1> QED
  BY <1>3, <1>4

-----------------------------------------------------------------------------
(* winx_sub_volume_region and the bitmap scan, on one list.                *)

LEMMA RemoveKeeps ==
    ASSUME NEW l, Sorted(l), NEW i \in Items(l)
    PROVE  LET m == Remove(l, i) IN
           /\ Sorted(m) /\ Items(m) = Items(l) \ {i}
           /\ \A j \in Items(m) : LcnOf(m, j) = LcnOf(l, j) /\ EndOf(m, j) = EndOf(l, j)
<1>1. Unlinking(l, Remove(l, i), i)
  BY RemoveUnlinks, HeadAlone DEF Sorted
<1>2. Sorted(Remove(l, i))
  BY <1>1, KeepRemove
<1> QED
  BY <1>1, <1>2 DEF Unlinking

LEMMA ShortenKeeps ==
    ASSUME NEW l, Sorted(l), NEW i \in Items(l), NEW end \in Int,
           LcnOf(l, i) < end, end <= EndOf(l, i)
    PROVE  LET m == [l EXCEPT !.item[i].length = end - l.item[i].lcn] IN
           /\ Sorted(m) /\ Items(m) = Items(l)
           /\ \A j \in Items(m) : /\ LcnOf(m, j) = LcnOf(l, j)
                                  /\ EndOf(m, j) = IF j = i THEN end ELSE EndOf(l, j)
<1> DEFINE length == end - l.item[i].lcn
           m == [l EXCEPT !.item[i].length = length]
<1>1. /\ IsList(l) /\ LcnOf(l, i) \in Clusters /\ LcnOf(l, i) \in Int
      /\ EndOf(l, i) \in Int /\ EndOf(l, i) \in 1 .. NClusters /\ SuccOf(l, i) \in Items(l)
      /\ \A j \in Items(l) : LcnOf(l, j) \in Int /\ EndOf(l, j) \in Int
  BY SortedFacts DEF Sorted
<1>2. end \in 1 .. NClusters
  BY <1>1, SizesAssumption DEF Clusters
<1>3. length \in Int /\ LcnOf(l, i) + length = end
  BY <1>1 DEF LcnOf
<1> HIDE DEF length
<1>4. Moving(l, m, i, LcnOf(l, i), end)
  BY <1>1, <1>3, ResizeMoves
<1>5. /\ i # l.head => EndOf(l, PredOf(l, i)) < LcnOf(l, i)
      /\ SuccOf(l, i) # l.head => end < LcnOf(l, SuccOf(l, i))
  BY <1>1 DEF Sorted, Linked, Ascending, Apart, Upward
<1> HIDE DEF m
<1>6. Sorted(m)
  BY <1>1, <1>2, <1>4, <1>5, KeepMove
<1> QED
  BY <1>4, <1>6 DEF Moving, m, length

\* The list without the part of region i that lies between a and b.
Cut(l, m, i, a, b) ==
    /\ Sorted(m)
    /\ \A j \in Items(l) \ {i} : j \in Items(m) /\ LcnOf(m, j) = LcnOf(l, j)
    /\ \A c \in Int : Covers(m, c) <=>
         Covers(l, c) /\ ~(LcnOf(l, i) <= c /\ c < EndOf(l, i) /\ a <= c /\ c < b)

LEMMA CutInside ==
    ASSUME NEW l, Sorted(l), NEW i \in Items(l), NEW a \in Int, NEW b \in Int,
           LcnOf(l, i) >= a, EndOf(l, i) <= b
    PROVE  Cut(l, Remove(l, i), i, a, b)
<1> DEFINE m == Remove(l, i)
<1>1. /\ Sorted(m) /\ Items(m) = Items(l) \ {i}
      /\ \A j \in Items(m) : LcnOf(m, j) = LcnOf(l, j) /\ EndOf(m, j) = EndOf(l, j)
  BY RemoveKeeps
<1> HIDE DEF m
<1>2. /\ \A j \in Items(l) : LcnOf(l, j) \in Int /\ EndOf(l, j) \in Int
      /\ \A j \in Items(l) : i = j \/ EndOf(l, i) < LcnOf(l, j) \/ EndOf(l, j) < LcnOf(l, i)
  BY SortedFacts
<1>3. ASSUME NEW c \in Int
      PROVE  Covers(m, c) <=>
               Covers(l, c) /\ ~(LcnOf(l, i) <= c /\ c < EndOf(l, i) /\ a <= c /\ c < b)
  BY <1>1, <1>2 DEF Covers
<1> QED
  BY <1>1, <1>3 DEF Cut, m

LEMMA CutRight ==
    ASSUME NEW l, Sorted(l), NEW i \in Items(l), NEW a \in Int, NEW b \in Int,
           LcnOf(l, i) < a, EndOf(l, i) > a, EndOf(l, i) <= b
    PROVE  Cut(l, [l EXCEPT !.item[i].length = a - l.item[i].lcn], i, a, b)
<1> DEFINE m == [l EXCEPT !.item[i].length = a - l.item[i].lcn]
<1>1. /\ \A j \in Items(l) : LcnOf(l, j) \in Int /\ EndOf(l, j) \in Int
      /\ \A j \in Items(l) : i = j \/ EndOf(l, i) < LcnOf(l, j) \/ EndOf(l, j) < LcnOf(l, i)
  BY SortedFacts
<1>2. /\ Sorted(m) /\ Items(m) = Items(l)
      /\ \A j \in Items(m) : /\ LcnOf(m, j) = LcnOf(l, j)
                             /\ EndOf(m, j) = IF j = i THEN a ELSE EndOf(l, j)
  BY <1>1, ShortenKeeps
<1> HIDE DEF m
<1>3. ASSUME NEW c \in Int
      PROVE  Covers(m, c) <=>
               Covers(l, c) /\ ~(LcnOf(l, i) <= c /\ c < EndOf(l, i) /\ a <= c /\ c < b)
  BY <1>1, <1>2 DEF Covers
<1> QED
  BY <1>2, <1>3 DEF Cut, m

LEMMA CutFront ==
    ASSUME NEW l, Sorted(l), NEW i \in Items(l), NEW a \in Int, NEW b \in Int,
           LcnOf(l, i) >= a, LcnOf(l, i) < b, EndOf(l, i) > b,
           NEW n \in Addresses, n = i \/ n \notin Items(l)
    PROVE  Cut(l, CutLeft(l, i, b, n), i, a, b)
<1> DEFINE k == Remove(l, i)
           m == CutLeft(l, i, b, n)
           length == EndOf(l, i) - b
<1>1. /\ Sorted(k) /\ Items(k) = Items(l) \ {i}
      /\ \A j \in Items(k) : LcnOf(k, j) = LcnOf(l, j) /\ EndOf(k, j) = EndOf(l, j)
  BY RemoveKeeps
<1>2. /\ \A j \in Items(l) : LcnOf(l, j) \in Int /\ EndOf(l, j) \in Int
      /\ \A j \in Items(l) : i = j \/ EndOf(l, i) < LcnOf(l, j) \/ EndOf(l, j) < LcnOf(l, i)
      /\ LcnOf(l, i) \in Clusters /\ EndOf(l, i) \in 1 .. NClusters
  BY SortedFacts
<1>3. /\ b \in Clusters /\ length \in Nat /\ length > 0 /\ b + length = EndOf(l, i)
      /\ b + length <= NClusters
  BY <1>2, SizesAssumption DEF Clusters
<1>4. m = AddRegion(k, b, length, n)
  BY DEF CutLeft, End, EndOf
<1> HIDE DEF k, m, length
<1>5. \A j \in Items(k) : EndOf(k, j) < b \/ b + length < LcnOf(k, j)
  BY <1>1, <1>2, <1>3
<1>6. Inserted(k, m, b, length, n)
  BY <1>1, <1>3, <1>4, <1>5, AddInserts
<1>7. Filled(k, m, b, EndOf(l, i))
  <2>1. n \notin Items(k)
    BY <1>1
  <2>2. Filled(k, m, b, b + length)
    BY <1>1, <1>3, <1>6, <2>1, InsertedFills
  <2> QED
    BY <1>3, <2>2
<1>8. ASSUME NEW c \in Int
      PROVE  Covers(m, c) <=>
               Covers(l, c) /\ ~(LcnOf(l, i) <= c /\ c < EndOf(l, i) /\ a <= c /\ c < b)
  <2>1. Covers(m, c) <=> Covers(k, c) \/ (b <= c /\ c < EndOf(l, i))
    BY <1>7 DEF Filled
  <2>2. Covers(l, c) <=> Covers(k, c) \/ (LcnOf(l, i) <= c /\ c < EndOf(l, i))
    BY <1>1 DEF Covers
  <2>3. Covers(k, c) => ~(LcnOf(l, i) <= c /\ c < EndOf(l, i))
    BY <1>1, <1>2 DEF Covers
  <2> QED
    BY <1>2, <2>1, <2>2, <2>3
<1> QED
  BY <1>1, <1>6, <1>8 DEF Cut, Inserted, m

LEMMA CutMiddle ==
    ASSUME NEW l, Sorted(l), NEW i \in Items(l), NEW a \in Int, NEW b \in Int,
           LcnOf(l, i) < a, a < b, EndOf(l, i) > b, NEW n \in Addresses, n \notin Items(l)
    PROVE  Cut(l, Split(l, i, a, b, n), i, a, b)
<1> DEFINE k == [l EXCEPT !.item[i].length = a - l.item[i].lcn]
           m == Split(l, i, a, b, n)
           length == EndOf(l, i) - b
<1>1. /\ \A j \in Items(l) : LcnOf(l, j) \in Int /\ EndOf(l, j) \in Int
      /\ \A j \in Items(l) : i = j \/ EndOf(l, i) < LcnOf(l, j) \/ EndOf(l, j) < LcnOf(l, i)
      /\ LcnOf(l, i) \in Clusters /\ EndOf(l, i) \in 1 .. NClusters
  BY SortedFacts
<1>2. /\ Sorted(k) /\ Items(k) = Items(l)
      /\ \A j \in Items(k) : /\ LcnOf(k, j) = LcnOf(l, j)
                             /\ EndOf(k, j) = IF j = i THEN a ELSE EndOf(l, j)
  BY <1>1, ShortenKeeps
<1>3. /\ b \in Clusters /\ length \in Nat /\ length > 0 /\ b + length = EndOf(l, i)
      /\ b + length <= NClusters
  BY <1>1, SizesAssumption DEF Clusters
<1>4. m = AddRegion(k, b, length, n)
  BY DEF Split, End, EndOf
<1> HIDE DEF k, m, length
<1>5. \A j \in Items(k) : EndOf(k, j) < b \/ b + length < LcnOf(k, j)
  BY <1>1, <1>2, <1>3
<1>6. Inserted(k, m, b, length, n)
  BY <1>2, <1>3, <1>4, <1>5, AddInserts
<1>7. Filled(k, m, b, EndOf(l, i))
  <2>1. n \notin Items(k)
    BY <1>2
  <2>2. Filled(k, m, b, b + length)
    BY <1>2, <1>3, <1>6, <2>1, InsertedFills
  <2> QED
    BY <1>3, <2>2
<1>8. ASSUME NEW c \in Int
      PROVE  Covers(m, c) <=>
               Covers(l, c) /\ ~(LcnOf(l, i) <= c /\ c < EndOf(l, i) /\ a <= c /\ c < b)
  <2>1. Covers(m, c) <=> Covers(k, c) \/ (b <= c /\ c < EndOf(l, i))
    BY <1>7 DEF Filled
  <2>2. Covers(k, c) <=> Covers(l, c) /\ ~(a <= c /\ c < EndOf(l, i))
    BY <1>1, <1>2 DEF Covers
  <2>3. b <= c /\ c < EndOf(l, i) => Covers(l, c)
    BY <1>1 DEF Covers
  <2> QED
    BY <1>1, <2>1, <2>2, <2>3
<1> QED
  BY <1>2, <1>6, <1>8 DEF Cut, Inserted, m

\* One turn of the loop: the list stays between what it was and what it is to
\* become, and what is left of the range lies behind the next region.
LEMMA CutSound ==
    ASSUME NEW l, Sorted(l), NEW i \in Items(l), NEW lcn \in Int, NEW length \in Int,
           NEW m, Cut(l, m, i, lcn, lcn + length), NEW B,
           ClustersOf(l) \subseteq B, B \ ClustersOf(l) \subseteq Span(lcn, length),
           \A c \in ClustersOf(l) \cap Span(lcn, length) : c >= LcnOf(l, i)
    PROVE  /\ ClustersOf(m) \subseteq B /\ B \ ClustersOf(m) \subseteq Span(lcn, length)
           /\ \A c \in ClustersOf(m) \cap Span(lcn, length) :
                /\ EndOf(l, i) < c /\ c < lcn + length
                /\ SuccOf(l, i) # l.head /\ LcnOf(l, SuccOf(l, i)) <= c
                /\ Items(m) # {}
<1>1. /\ \A c \in ClustersOf(l) : c \in Int /\ Covers(l, c)
      /\ \A c \in ClustersOf(m) : c \in Int /\ Covers(m, c)
      /\ \A c \in Int : Covers(l, c) => c \in ClustersOf(l)
      /\ \A c \in Int : Covers(m, c) => c \in ClustersOf(m)
  BY ClustersAre DEF Clusters, Cut
<1>2. \A c : c \in Span(lcn, length) <=> c \in Int /\ lcn <= c /\ c < lcn + length
  BY DEF Span
<1>3. /\ \A j \in Items(l) : LcnOf(l, j) \in Int /\ EndOf(l, j) \in Int
                              /\ LcnOf(l, j) < EndOf(l, j) /\ SuccOf(l, j) \in Items(l)
      /\ \A j \in Items(l) : i = j \/ EndOf(l, i) < LcnOf(l, j) \/ EndOf(l, j) < LcnOf(l, i)
  BY SortedFacts
<1>4. \A c \in Int : Covers(m, c) <=>
        Covers(l, c) /\ ~(LcnOf(l, i) <= c /\ c < EndOf(l, i) /\ c \in Span(lcn, length))
  BY <1>2 DEF Cut
<1>5. ClustersOf(m) \subseteq B
  BY <1>1, <1>4
<1>6. B \ ClustersOf(m) \subseteq Span(lcn, length)
  BY <1>1, <1>4
<1>7. ASSUME NEW c \in ClustersOf(m) \cap Span(lcn, length)
      PROVE  /\ EndOf(l, i) < c /\ SuccOf(l, i) # l.head /\ LcnOf(l, SuccOf(l, i)) <= c
             /\ Items(m) # {}
  <2>1. /\ c \in Int /\ Covers(m, c) /\ Covers(l, c) /\ c >= LcnOf(l, i)
        /\ ~(LcnOf(l, i) <= c /\ c < EndOf(l, i))
    BY <1>1, <1>4, <1>7
  <2>2. PICK j \in Items(l) : LcnOf(l, j) <= c /\ c < EndOf(l, j)
    BY <2>1 DEF Covers
  <2>3. EndOf(l, i) < LcnOf(l, j) /\ LcnOf(l, i) < LcnOf(l, j)
    BY <1>3, <2>1, <2>2
  <2>4. SuccOf(l, i) # l.head /\ LcnOf(l, SuccOf(l, i)) <= LcnOf(l, j)
    BY <2>3 DEF Sorted, Ascending, Adjacent
  <2>5. Items(m) # {}
    BY <2>1 DEF Covers
  <2> QED
    BY <1>3, <2>1, <2>2, <2>3, <2>4, <2>5
<1> QED
  BY <1>2, <1>5, <1>6, <1>7

\* The scan appends a region behind the last one.
LEMMA Appended ==
    ASSUME NEW l, Sorted(l), NEW p,
           p = Null <=> Items(l) = {},
           p # Null => p \in Items(l) /\ SuccOf(l, p) = l.head,
           NEW lcn \in Clusters, p # Null => EndOf(l, p) < lcn,
           NEW length \in Nat, length > 0, lcn + length <= NClusters,
           NEW n \in Addresses, n \notin Items(l)
    PROVE  LET m == Insert(l, p, n, lcn, length) IN
           /\ Inserted(l, m, lcn, length, n) /\ SuccOf(m, n) = m.head
           /\ ClustersOf(m) = ClustersOf(l) \cup Span(lcn, length)
<1> DEFINE m == Insert(l, p, n, lcn, length)
<1>1. lcn \in Int /\ lcn < lcn + length /\ lcn + length \in 1 .. NClusters /\ n # Null
  BY SizesAssumption DEF Clusters
<1>2. l.head = Null <=> Items(l) = {}
  BY SortedFacts
<1>3. CASE p = Null
  <2>1. l.head = Null
    BY <1>2, <1>3
  <2>2. /\ IsList(m) /\ m.head = n /\ Items(m) = {n}
        /\ SuccOf(m, n) = n /\ PredOf(m, n) = n
        /\ LcnOf(m, n) = lcn /\ EndOf(m, n) = lcn + length
    BY SMTT(20), <2>1, InsertFirst
  <2> HIDE DEF m
  <2>3. Inserted(l, m, lcn, length, n)
    BY <2>1, InsertAlone DEF m
  <2>4. Filled(l, m, lcn, lcn + length)
    BY <1>1, <2>3, InsertedFills
  <2> QED
    BY <1>1, <2>2, <2>3, <2>4, ClustersGrow DEF Filled, m
<1>4. CASE p # Null
  <2>1. l.head # Null /\ p \in Items(l)
    BY <1>2, <1>4
  <2>2. Linking(l, m, p, n, lcn, lcn + length) /\ m.head = l.head
    BY <1>4, <2>1, InsertLinks DEF Sorted
  <2> HIDE DEF m
  <2>3. Sorted(m)
    BY <1>1, <1>4, <2>1, <2>2, KeepInsert
  <2>4. Inserted(l, m, lcn, length, n) /\ SuccOf(m, n) = m.head
    BY <1>4, <2>2, <2>3 DEF Inserted, Linking
  <2>5. Filled(l, m, lcn, lcn + length)
    BY <1>1, <2>4, InsertedFills
  <2> QED
    BY <1>1, <2>4, <2>5, ClustersGrow DEF Filled, m
<1> QED
  BY <1>3, <1>4

-----------------------------------------------------------------------------
(* The invariant.                                                          *)

\* The regions inserted so far and the open one are what the scan was told;
\* the region inserted last is the last one of the list, and an occupied
\* cluster lies behind it.
ScanInv ==
    /\ rgn = Null <=> Items(list) = {}
    /\ rgn # Null => /\ rgn \in Items(list) /\ SuccOf(list, rgn) = list.head
                     /\ EndOf(list, rgn) < IF open = Nowhere THEN at ELSE open
    /\ open # Nowhere => open < at
    /\ told = ClustersOf(list) \cup (IF open = Nowhere THEN {} ELSE open .. at - 1)
    /\ \A c \in told : c < at

\* The cursor is an item, the list has lost clusters of the range only, all
\* of the range in front of the cursor, and what is left to subtract is
\* counted generously enough.
SubInv ==
    /\ cut.length > 0 /\ CutEnd <= NClusters
    /\ r \in Items(list)
    /\ ClustersOf(list) \subseteq before
    /\ before \ ClustersOf(list) \subseteq Span(cut.lcn, cut.length)
    /\ \A c \in ClustersOf(list) \cap Span(cut.lcn, cut.length) : c >= Lcn
    /\ remaining <= cut.length
    /\ remaining >= CutEnd - Lcn \/ remaining >= cut.length

IInv ==
    /\ Sorted(list)
    /\ pc \in {"idle", "scanning", "subtracting"}
    /\ scan \in {"running", "complete", "partial"} /\ told \subseteq Clusters
    /\ at \in 0 .. NClusters /\ open \in 0 .. NClusters /\ rgn \in Addresses \cup {Null}
    /\ cut \in [lcn : Clusters, length : 0 .. NClusters]
    /\ r \in Addresses \cup {Null} /\ remaining \in 0 .. NClusters
    /\ before \subseteq Clusters
    /\ scan = "running" <=> pc = "scanning"
    /\ pc = "scanning" => ScanInv
    /\ pc = "subtracting" => SubInv

LEMMA InitSound == Init => IInv /\ Promise!Init
<1> SUFFICES ASSUME Init PROVE IInv /\ Promise!Init
  OBVIOUS
<1>1. list = Empty /\ list.head = Null /\ Items(list) = {}
  BY DEF Init, Empty, Items
<1>2. IsList(list)
  BY <1>1, FS_EmptySet DEF IsList, Empty, Items
<1>3. Sorted(list)
  BY <1>1, <1>2 DEF Sorted, Linked, Ascending, Placed, Apart, Upward, Adjacent
<1>4. ClustersOf(list) = {}
  BY <1>1 DEF ClustersOf
<1>5. IInv
  BY <1>3, SizesAssumption DEF Init, IInv, NoCut, Nowhere, Clusters
<1>6. Promise!Init
  BY <1>4 DEF Init, Promise!Init
<1> QED
  BY <1>5, <1>6

\* The set of free clusters the list stands for.
Space == CASE pc = "scanning" -> {} [] pc = "subtracting" -> before
           [] OTHER -> ClustersOf(list)

\* A step keeps the invariant and does to the set what the module FreeSpace
\* allows, or nothing.
StepSound == IInv' /\ (Promise!Next \/ UNCHANGED <<Space, told, scan>>)

LEMMA AddStep ==
    ASSUME IInv, Add
    PROVE  StepSound
<1>1. PICK lcn \in Clusters, length \in 0 .. NClusters, n \in Addresses :
        /\ Free(n) /\ Span(lcn, length) \subseteq Clusters \ ClustersOf(list)
        /\ list' = AddRegion(list, lcn, length, n)
  BY DEF Add
<1>2. Sorted(list') /\ ClustersOf(list') = ClustersOf(list) \cup Span(lcn, length)
  <2>1. length \in Nat /\ n \notin Items(list) /\ Sorted(list)
    BY <1>1, SizesAssumption DEF Free, IInv
  <2> QED
    BY <1>1, <2>1, AddKeeps
<1>3. /\ pc = "idle" /\ pc' = pc /\ scan' = scan /\ told' = told /\ at' = at /\ open' = open
      /\ rgn' = rgn /\ cut' = cut /\ r' = r /\ remaining' = remaining /\ before' = before
  BY DEF Add, scanner, cutter
<1>4. IInv'
  BY <1>2, <1>3 DEF IInv
<1>5. Promise!Add
  <2>1. scan # "running"
    BY <1>3 DEF IInv
  <2> QED
    BY <1>1, <1>2, <1>3, <2>1 DEF Promise!Add, Promise!Clusters, Promise!Span, Clusters, Span
<1> QED
  BY <1>4, <1>5 DEF StepSound, Promise!Next

LEMMA SubBeginStep ==
    ASSUME IInv, SubBegin
    PROVE  StepSound
<1>1. PICK lcn \in Clusters, length \in 0 .. NClusters :
        /\ lcn + length <= NClusters /\ length > 0 /\ list.head # Null
        /\ cut' = [lcn |-> lcn, length |-> length] /\ remaining' = length
  BY DEF SubBegin
<1>2. /\ pc = "idle" /\ pc' = "subtracting" /\ r' = list.head /\ before' = ClustersOf(list)
      /\ list' = list /\ scan' = scan /\ told' = told /\ at' = at /\ open' = open /\ rgn' = rgn
  BY DEF SubBegin, scanner
<1>3. /\ list.head \in Items(list) /\ list.head \in Addresses
      /\ \A i \in Items(list) : LcnOf(list, list.head) <= LcnOf(list, i) /\ LcnOf(list, i) \in Int
  BY <1>1, SortedFacts DEF IInv
<1>4. ClustersOf(list) \subseteq Clusters /\ \A c \in ClustersOf(list) : c \in Int /\ Covers(list, c)
  BY ClustersAre DEF IInv, Clusters
<1>5. SubInv'
  <2>1. /\ cut'.lcn = lcn /\ cut'.length = length /\ CutEnd' = lcn + length
        /\ Lcn' = LcnOf(list, list.head) /\ ClustersOf(list)' = ClustersOf(list)
    BY <1>1, <1>2 DEF CutEnd, End, Lcn, LcnOf
  <2>2. \A c \in ClustersOf(list) : c >= LcnOf(list, list.head)
    BY <1>3, <1>4 DEF Covers
  <2> QED
    BY <1>1, <1>2, <1>3, <2>1, <2>2 DEF SubInv, Span
<1>6. IInv'
  <2>1. remaining' \in 0 .. NClusters
    BY <1>1
  <2> QED
    BY <1>1, <1>2, <1>3, <1>4, <1>5, <2>1 DEF IInv
<1>7. Space' = Space /\ told' = told /\ scan' = scan
  BY <1>2 DEF Space
<1> QED
  BY <1>6, <1>7 DEF StepSound

\* The loop ends when nothing of the range is in the list any more.
LEMMA ReturnStep ==
    ASSUME IInv, pc = "subtracting", Sorted(list'), Return,
           UNCHANGED <<scan, told, scanner>>,
           ClustersOf(list') \subseteq before,
           before \ ClustersOf(list') \subseteq Span(cut.lcn, cut.length),
           ClustersOf(list') \cap Span(cut.lcn, cut.length) = {}
    PROVE  StepSound
<1>1. /\ pc' = "idle" /\ r' = Null /\ cut' = NoCut /\ remaining' = 0 /\ before' = {}
      /\ scan' = scan /\ told' = told /\ at' = at /\ open' = open /\ rgn' = rgn
  BY DEF Return, scanner
<1>2. IInv'
  BY <1>1, SizesAssumption DEF IInv, NoCut, Clusters
<1>3. ClustersOf(list') = before \ Span(cut.lcn, cut.length)
  OBVIOUS
<1>4. Promise!Sub
  <2>1. scan # "running" /\ cut.lcn \in Clusters /\ cut.length \in 0 .. NClusters
    BY DEF IInv
  <2> QED
    BY <1>1, <1>3, <2>1 DEF Promise!Sub, Promise!Clusters, Promise!Span, Clusters, Span
<1> QED
  BY <1>2, <1>4 DEF StepSound, Promise!Next

\* One turn of the loop, whatever it does with the region at the cursor.
LEMMA TurnStep ==
    ASSUME IInv, InLoop, Cut(list, list', r, cut.lcn, CutEnd),
           NEW left \in Int, 0 <= left, left <= remaining,
           left >= CutEnd - Stop \/ left >= cut.length,
           Advance(left)
    PROVE  StepSound
<1>1. /\ pc = "subtracting" /\ SubInv /\ Sorted(list) /\ r \in Items(list)
      /\ cut.lcn \in Int /\ cut.length \in Int /\ CutEnd = cut.lcn + cut.length
      /\ cut.length > 0 /\ cut.length <= NClusters /\ remaining \in Int
  BY SizesAssumption DEF IInv, InLoop, SubInv, CutEnd, End, Clusters
<1>2. /\ Lcn = LcnOf(list, r) /\ Stop = EndOf(list, r) /\ Lcn \in Int /\ Stop \in Int /\ Lcn < Stop
      /\ list.item[r].next = SuccOf(list, r) /\ SuccOf(list, r) \in Items(list)
      /\ SuccOf(list, r) \in Addresses
  BY <1>1, SortedFacts DEF Lcn, Stop, End, LcnOf, EndOf, SuccOf
<1>3. /\ ClustersOf(list') \subseteq before
      /\ before \ ClustersOf(list') \subseteq Span(cut.lcn, cut.length)
      /\ \A c \in ClustersOf(list') \cap Span(cut.lcn, cut.length) :
           /\ Stop < c /\ c < CutEnd
           /\ SuccOf(list, r) # list.head /\ LcnOf(list, SuccOf(list, r)) <= c
           /\ Items(list') # {}
  <2>1. /\ ClustersOf(list) \subseteq before
        /\ before \ ClustersOf(list) \subseteq Span(cut.lcn, cut.length)
        /\ \A c \in ClustersOf(list) \cap Span(cut.lcn, cut.length) : c >= LcnOf(list, r)
    BY <1>1, <1>2 DEF SubInv
  <2>2. Cut(list, list', r, cut.lcn, cut.lcn + cut.length)
    BY <1>1
  <2> QED
    BY <1>1, <1>2, <2>1, <2>2, CutSound
<1>4. Sorted(list')
  BY DEF Cut
<1>5. UNCHANGED <<scan, told, scanner>>
  BY DEF Advance
<1>6. CASE list'.head = Null \/ SuccOf(list, r) = list.head \/ left = 0
  <2>1. Return
    BY <1>2, <1>6 DEF Advance
  <2>2. ASSUME NEW c \in ClustersOf(list') \cap Span(cut.lcn, cut.length) PROVE FALSE
    <3>1. c \in Int
      BY <1>1 DEF Span
    <3>2. list'.head # Null
      BY <1>3, <1>4, SortedFacts
    <3>3. CutEnd <= Stop
      BY <1>1, <1>2, <1>3, <1>6, <3>2
    <3> QED
      BY <1>1, <1>2, <1>3, <3>1, <3>3
  <2> QED
    BY <1>1, <1>3, <1>4, <1>5, <2>1, <2>2, ReturnStep
<1>7. CASE ~(list'.head = Null \/ SuccOf(list, r) = list.head \/ left = 0)
  <2> DEFINE next == SuccOf(list, r)
  <2>1. /\ r' = next /\ remaining' = left /\ pc' = pc /\ cut' = cut /\ before' = before
        /\ scan' = scan /\ told' = told /\ at' = at /\ open' = open /\ rgn' = rgn
    BY <1>2, <1>5, <1>7 DEF Advance, scanner
  <2>2. LcnOf(list, next) \in Int /\ Stop < LcnOf(list, next) /\ next # r
    BY <1>1, <1>2, <1>7, SortedFacts DEF Sorted, Ascending, Apart, Upward
  <2>3. next \in Items(list') /\ LcnOf(list', next) = LcnOf(list, next)
    BY <1>2, <2>2 DEF Cut
  <2>4. Lcn' = LcnOf(list, next) /\ CutEnd' = CutEnd
    BY <2>1, <2>3 DEF Lcn, LcnOf, CutEnd, End
  <2>5. SubInv'
    <3>1. left <= cut.length
      BY <1>1 DEF SubInv
    <3>2. CutEnd <= NClusters
      BY <1>1 DEF SubInv
    <3>3. left >= CutEnd - LcnOf(list, next) \/ left >= cut.length
      BY <1>1, <1>2, <2>2
    <3> QED
      BY <1>1, <1>3, <2>1, <2>3, <2>4, <3>1, <3>2, <3>3 DEF SubInv
  <2>6. IInv'
    <3>1. left \in 0 .. NClusters
      BY <1>1, SizesAssumption DEF SubInv, IInv
    <3> QED
      BY <1>1, <1>2, <1>4, <2>1, <2>5, <3>1 DEF IInv
  <2>7. Space' = Space
    BY <1>1, <2>1 DEF Space
  <2> QED
    BY <2>1, <2>6, <2>7 DEF StepSound
<1> QED
  BY <1>6, <1>7

LEMMA SubStep ==
    ASSUME IInv, Sub
    PROVE  StepSound
<1>1. CASE SubBegin
  BY <1>1, SubBeginStep
<1>2. CASE SubBreak
  <2>1. /\ pc = "subtracting" /\ Lcn >= CutEnd /\ Return /\ list' = list
        /\ UNCHANGED <<scan, told, scanner>>
    BY <1>2 DEF SubBreak
  <2>2. /\ Sorted(list) /\ r \in Items(list) /\ ClustersOf(list) \subseteq before
        /\ before \ ClustersOf(list) \subseteq Span(cut.lcn, cut.length)
        /\ \A c \in ClustersOf(list) \cap Span(cut.lcn, cut.length) : c >= Lcn
        /\ cut.lcn \in Int /\ cut.length \in Int
    BY <2>1 DEF IInv, SubInv, Clusters
  <2>3. Lcn \in Int /\ CutEnd = cut.lcn + cut.length
    BY <2>2, SortedFacts DEF Lcn, LcnOf, CutEnd, End
  <2>4. ClustersOf(list) \cap Span(cut.lcn, cut.length) = {}
    BY <2>1, <2>2, <2>3 DEF Span
  <2> QED
    BY <2>1, <2>2, <2>4, ReturnStep
<1>3. ASSUME pc = "subtracting"
      PROVE  /\ Sorted(list) /\ r \in Items(list)
             /\ Lcn = LcnOf(list, r) /\ Stop = EndOf(list, r) /\ Lcn \in Int /\ Stop \in Int
             /\ Lcn < Stop /\ Stop = Lcn + list.item[r].length /\ list.item[r].length \in Int
             /\ cut.lcn \in Int /\ cut.length \in Int /\ CutEnd = cut.lcn + cut.length
             /\ cut.length > 0 /\ CutEnd \in Int /\ remaining \in Int /\ 0 <= remaining
             /\ remaining >= CutEnd - Lcn \/ remaining >= cut.length
  <2>1. /\ SubInv /\ Sorted(list) /\ r \in Items(list)
        /\ cut.lcn \in Int /\ cut.length \in Int /\ remaining \in Int /\ 0 <= remaining
    BY <1>3, SizesAssumption DEF IInv, SubInv, Clusters
  <2>2. /\ Lcn = LcnOf(list, r) /\ Stop = EndOf(list, r) /\ CutEnd = cut.lcn + cut.length
    BY DEF Lcn, LcnOf, Stop, EndOf, CutEnd, End
  <2> QED
    BY <2>1, <2>2, SortedFacts DEF SubInv
<1>4. CASE SubSkip
  <2>1. InLoop /\ Stop <= cut.lcn /\ list' = list /\ Advance(remaining)
    BY <1>4 DEF SubSkip
  <2>2. Cut(list, list', r, cut.lcn, CutEnd)
    BY <1>3, <2>1 DEF Cut, InLoop
  <2> QED
    BY <1>3, <2>1, <2>2, TurnStep DEF InLoop
<1>5. CASE SubInside
  <2>1. /\ InLoop /\ Lcn >= cut.lcn /\ Stop <= CutEnd
        /\ list' = Remove(list, r) /\ Advance(remaining - list.item[r].length)
    BY <1>5 DEF SubInside
  <2>2. Cut(list, list', r, cut.lcn, CutEnd)
    BY <1>3, <2>1, CutInside DEF InLoop
  <2> DEFINE left == remaining - list.item[r].length
  <2>3. left \in Int /\ 0 <= left /\ left <= remaining /\ left >= CutEnd - Stop
    BY <1>3, <2>1 DEF InLoop
  <2> HIDE DEF left
  <2> QED
    BY <2>1, <2>2, <2>3, TurnStep DEF left
<1>6. CASE SubCutRight
  <2>1. /\ InLoop /\ Lcn < cut.lcn /\ Stop > cut.lcn /\ Stop <= CutEnd
        /\ list' = [list EXCEPT !.item[r].length = cut.lcn - list.item[r].lcn] /\ Advance(remaining)
    BY <1>6 DEF SubCutRight, Lcn
  <2>2. Cut(list, list', r, cut.lcn, CutEnd)
    BY <1>3, <2>1, CutRight DEF InLoop
  <2>3. remaining >= CutEnd - Stop \/ remaining >= cut.length
    BY <1>3, <2>1 DEF InLoop
  <2> QED
    BY <1>3, <2>1, <2>2, <2>3, TurnStep DEF InLoop
<1>7. CASE SubCutLeft
  <2>1. /\ InLoop /\ Lcn < CutEnd /\ Lcn >= cut.lcn /\ Stop > CutEnd /\ Advance(remaining)
        /\ \E n \in Addresses : (n = r \/ Free(n)) /\ list' = CutLeft(list, r, CutEnd, n)
    BY <1>7 DEF SubCutLeft, InLoop
  <2>2. PICK n \in Addresses : (n = r \/ n \notin Items(list)) /\ list' = CutLeft(list, r, CutEnd, n)
    BY <2>1 DEF Free
  <2>3. Cut(list, list', r, cut.lcn, CutEnd)
    BY <1>3, <2>1, <2>2, CutFront DEF InLoop
  <2>4. remaining >= CutEnd - Stop \/ remaining >= cut.length
    BY <1>3, <2>1 DEF InLoop
  <2> QED
    BY <1>3, <2>1, <2>3, <2>4, TurnStep DEF InLoop
<1>8. CASE SubSplit
  <2>1. /\ InLoop /\ Lcn < cut.lcn /\ Stop > CutEnd /\ Advance(remaining)
        /\ \E n \in Addresses : Free(n) /\ list' = Split(list, r, cut.lcn, CutEnd, n)
    BY <1>8 DEF SubSplit
  <2>2. PICK n \in Addresses : n \notin Items(list) /\ list' = Split(list, r, cut.lcn, CutEnd, n)
    BY <2>1 DEF Free
  <2>3. cut.lcn < CutEnd
    BY <1>3, <2>1 DEF InLoop
  <2>4. Cut(list, list', r, cut.lcn, CutEnd)
    BY <1>3, <2>1, <2>2, <2>3, CutMiddle DEF InLoop
  <2>5. remaining >= CutEnd - Stop \/ remaining >= cut.length
    BY <1>3, <2>1 DEF InLoop
  <2> QED
    BY <1>3, <2>1, <2>4, <2>5, TurnStep DEF InLoop
<1> QED
  BY <1>1, <1>2, <1>4, <1>5, <1>6, <1>7, <1>8 DEF Sub

\* What every step that leaves the scan does to the variables.
LEMMA LeaveStep ==
    ASSUME IInv, pc = "scanning", NEW outcome \in {"partial", "complete"}, Leave(outcome),
           Sorted(list'), ClustersOf(list') \subseteq told,
           outcome = "complete" => ClustersOf(list') = told
    PROVE  StepSound
<1>1. /\ pc' = "idle" /\ scan' = outcome /\ told' = {} /\ at' = 0 /\ open' = Nowhere /\ rgn' = Null
      /\ cut' = cut /\ r' = r /\ remaining' = remaining /\ before' = before
  BY DEF Leave, cutter
<1>2. IInv'
  BY <1>1, SizesAssumption DEF IInv, Nowhere
<1>3. Promise!EndScan
  <2>1. scan = "running"
    BY DEF IInv
  <2> QED
    BY <1>1, <2>1 DEF Promise!EndScan
<1> QED
  BY <1>2, <1>3 DEF StepSound, Promise!Next

\* The open region gets an item when an occupied cluster closes it.
LEMMA Closed ==
    ASSUME IInv, pc = "scanning", open # Nowhere, NEW n \in Addresses, Free(n)
    PROVE  LET m == Insert(list, rgn, n, open, at - open) IN
           /\ Sorted(m) /\ ClustersOf(m) = told
           /\ n \in Items(m) /\ SuccOf(m, n) = m.head /\ EndOf(m, n) = at
<1>1. /\ Sorted(list)
      /\ rgn = Null <=> Items(list) = {}
      /\ rgn # Null => /\ rgn \in Items(list) /\ SuccOf(list, rgn) = list.head
                       /\ EndOf(list, rgn) < open
      /\ open < at /\ told = ClustersOf(list) \cup open .. at - 1
      /\ n \notin Items(list)
  BY DEF IInv, ScanInv, Free
<1>2. /\ open \in Clusters /\ open \in Int /\ at \in Int /\ at - open \in Nat /\ at - open > 0
      /\ open + (at - open) = at /\ at <= NClusters
  BY <1>1, SizesAssumption DEF IInv, Clusters
<1>3. open .. at - 1 = Span(open, at - open)
  BY <1>2 DEF Span
<1> DEFINE length == at - open
<1> HIDE DEF length
<1>4. LET m == Insert(list, rgn, n, open, length) IN
      /\ Inserted(list, m, open, length, n) /\ SuccOf(m, n) = m.head
      /\ ClustersOf(m) = ClustersOf(list) \cup Span(open, length)
  <2>1. length \in Nat /\ length > 0 /\ open + length <= NClusters
    BY <1>2 DEF length
  <2> QED
    BY <1>1, <1>2, <2>1, Appended
<1> QED
  BY <1>1, <1>2, <1>3, <1>4 DEF Inserted, length

LEMMA ScanBeginStep ==
    ASSUME IInv, ScanBegin
    PROVE  StepSound
<1>1. /\ pc = "idle" /\ list' = Empty /\ pc' = "scanning" /\ scan' = "running" /\ told' = {}
      /\ at' = 0 /\ open' = Nowhere /\ rgn' = Null
      /\ cut' = cut /\ r' = r /\ remaining' = remaining /\ before' = before
  BY DEF ScanBegin, cutter
<1>2. Items(list') = {} /\ ClustersOf(list') = {} /\ Sorted(list')
  <2>1. list'.head = Null /\ Items(list') = {}
    BY <1>1 DEF Empty, Items
  <2>2. IsList(list')
    BY <1>1, <2>1, FS_EmptySet DEF IsList, Empty, Items
  <2> QED
    BY <2>1, <2>2 DEF Sorted, Linked, Ascending, Placed, Apart, Upward, Adjacent, ClustersOf
<1>3. ScanInv'
  BY <1>1, <1>2 DEF ScanInv
<1>4. IInv'
  BY <1>1, <1>2, <1>3, SizesAssumption DEF IInv, Nowhere
<1>5. Promise!Begin
  <2>1. scan # "running"
    BY <1>1 DEF IInv
  <2> QED
    BY <1>1, <2>1 DEF Promise!Begin
<1> QED
  BY <1>4, <1>5 DEF StepSound, Promise!Next

LEMMA ScanFreeStep ==
    ASSUME IInv, ScanFree
    PROVE  StepSound
<1>1. /\ pc = "scanning" /\ at < NClusters /\ told' = told \cup {at} /\ at' = at + 1
      /\ open' = IF open = Nowhere THEN at ELSE open
      /\ list' = list /\ pc' = pc /\ scan' = scan /\ rgn' = rgn
      /\ cut' = cut /\ r' = r /\ remaining' = remaining /\ before' = before
  BY DEF ScanFree, cutter
<1>2. /\ at \in Int /\ at \in Clusters /\ open \in Int /\ ScanInv /\ told \subseteq Int /\ NClusters \in Int
      /\ Nowhere = NClusters
  BY <1>1, SizesAssumption DEF IInv, Clusters, Nowhere
<1>3. ScanInv'
  <2>1. open' # Nowhere /\ open' < at'
    BY <1>1, <1>2 DEF ScanInv
  <2>2. rgn # Null => EndOf(list, rgn) < open'
    BY <1>1, <1>2 DEF ScanInv
  <2>3. told' = ClustersOf(list) \cup open' .. at' - 1
    <3>1. CASE open = Nowhere
      BY <1>1, <1>2, <3>1 DEF ScanInv
    <3>2. CASE open # Nowhere
      <4>1. open .. at = open .. at - 1 \cup {at} /\ at' - 1 = at
        BY <1>1, <1>2, <3>2 DEF ScanInv
      <4> QED
        BY <1>1, <1>2, <3>2, <4>1 DEF ScanInv
    <3> QED
      BY <3>1, <3>2
  <2>4. \A c \in told' : c < at'
    BY <1>1, <1>2 DEF ScanInv
  <2>5. /\ rgn' = Null <=> Items(list') = {}
        /\ rgn # Null => rgn \in Items(list) /\ SuccOf(list, rgn) = list.head
    BY <1>1, <1>2 DEF ScanInv
  <2> QED
    BY <1>1, <1>2, <2>1, <2>2, <2>3, <2>4, <2>5 DEF ScanInv, Nowhere
<1>4. IInv'
  <2>1. told' \subseteq Clusters /\ at' \in 0 .. NClusters /\ open' \in 0 .. NClusters
    BY <1>1, <1>2 DEF IInv, Clusters
  <2> QED
    BY <1>1, <1>3, <2>1 DEF IInv
<1>5. Promise!Tell
  <2>1. scan = "running" /\ at \notin told
    BY <1>1, <1>2 DEF IInv, ScanInv
  <2> QED
    BY <1>1, <1>2, <2>1 DEF Promise!Tell, Promise!Clusters, Clusters
<1> QED
  BY <1>4, <1>5 DEF StepSound, Promise!Next

LEMMA ScanUsedStep ==
    ASSUME IInv, ScanUsed
    PROVE  StepSound
<1>1. /\ pc = "scanning" /\ at < NClusters /\ at \in Int /\ open \in Int /\ told \subseteq Int
      /\ NClusters \in Int /\ Nowhere = NClusters /\ ScanInv /\ at \in 0 .. NClusters
  BY SizesAssumption DEF ScanUsed, IInv, Clusters, Nowhere
<1>2. CASE open = Nowhere
  <2>1. /\ at' = at + 1 /\ list' = list /\ pc' = pc /\ scan' = scan /\ told' = told /\ open' = open
        /\ rgn' = rgn /\ cut' = cut /\ r' = r /\ remaining' = remaining /\ before' = before
    BY <1>2 DEF ScanUsed, cutter
  <2>2. ScanInv'
    <3>1. \A c \in told : c < at + 1
      BY <1>1 DEF ScanInv
    <3>2. rgn # Null => EndOf(list, rgn) < at + 1
      <4>1. rgn # Null => EndOf(list, rgn) < at /\ EndOf(list, rgn) \in Int
        BY <1>1, <1>2, SortedFacts DEF ScanInv, IInv
      <4> QED
        BY <1>1, <4>1
    <3> QED
      BY <1>1, <1>2, <2>1, <3>1, <3>2 DEF ScanInv, Nowhere
  <2>3. IInv'
    BY <1>1, <2>1, <2>2 DEF IInv
  <2>4. Space' = Space
    BY <1>1, <2>1 DEF Space
  <2> QED
    BY <2>1, <2>3, <2>4 DEF StepSound
<1>3. CASE open # Nowhere
  <2>1. PICK n \in Addresses :
          /\ Free(n) /\ list' = Insert(list, rgn, n, open, at - open)
          /\ \/ /\ at' = at + 1 /\ open' = Nowhere /\ rgn' = n
                /\ UNCHANGED <<pc, scan, told, cutter>>
             \/ Leave("partial")
    BY <1>3 DEF ScanUsed
  <2>2. /\ Sorted(list') /\ ClustersOf(list') = told
        /\ n \in Items(list') /\ SuccOf(list', n) = list'.head /\ EndOf(list', n) = at
    BY <1>1, <1>3, <2>1, Closed
  <2>3. CASE Leave("partial")
    BY <1>1, <2>2, <2>3, LeaveStep
  <2>4. CASE /\ at' = at + 1 /\ open' = Nowhere /\ rgn' = n
             /\ UNCHANGED <<pc, scan, told, cutter>>
    <3>1. /\ pc' = pc /\ scan' = scan /\ told' = told
          /\ cut' = cut /\ r' = r /\ remaining' = remaining /\ before' = before
      BY <2>4 DEF cutter
    <3>2. ScanInv'
      <4>1. \A c \in told : c < at + 1
        BY <1>1 DEF ScanInv
      <4>2. n # Null
        BY SizesAssumption
      <4> QED
        BY <1>1, <2>2, <2>4, <3>1, <4>1, <4>2 DEF ScanInv, Nowhere
    <3>3. IInv'
      BY <1>1, <2>2, <2>4, <3>1, <3>2 DEF IInv
    <3>4. Space' = Space
      BY <1>1, <3>1 DEF Space
    <3> QED
      BY <3>1, <3>3, <3>4 DEF StepSound
  <2> QED
    BY <2>1, <2>3, <2>4
<1> QED
  BY <1>2, <1>3

LEMMA ScanStep ==
    ASSUME IInv, Scan
    PROVE  StepSound
<1>1. CASE ScanBegin
  BY <1>1, ScanBeginStep
<1>2. CASE ScanFree
  BY <1>2, ScanFreeStep
<1>3. CASE ScanUsed
  BY <1>3, ScanUsedStep
<1>4. CASE ScanFails
  <2>1. pc = "scanning" /\ (list' = list \/ list' = Empty) /\ Leave("partial")
    BY <1>4 DEF ScanFails
  <2>2. Sorted(list) /\ ClustersOf(list) \subseteq told
    BY <2>1 DEF IInv, ScanInv
  <2>3. CASE list' = list
    BY <2>1, <2>2, <2>3, LeaveStep
  <2>4. CASE list' = Empty
    <3>1. list'.head = Null /\ Items(list') = {}
      BY <2>4 DEF Empty, Items
    <3>2. IsList(list')
      BY <2>4, <3>1, FS_EmptySet DEF IsList, Empty, Items
    <3>3. Sorted(list') /\ ClustersOf(list') = {}
      BY <3>1, <3>2 DEF Sorted, Linked, Ascending, Placed, Apart, Upward, Adjacent, ClustersOf
    <3> QED
      BY <2>1, <3>3, LeaveStep
  <2> QED
    BY <2>1, <2>3, <2>4
<1>5. CASE ScanEnds
  <2>1. pc = "scanning" /\ Leave("complete")
    BY <1>5 DEF ScanEnds
  <2>2. CASE open = Nowhere
    <3>1. list' = list /\ Sorted(list) /\ ClustersOf(list) = told
      BY <1>5, <2>1, <2>2 DEF ScanEnds, IInv, ScanInv
    <3> QED
      BY <2>1, <3>1, LeaveStep
  <2>3. CASE open # Nowhere
    <3>1. PICK n \in Addresses : Free(n) /\ list' = Insert(list, rgn, n, open, at - open)
      BY <1>5, <2>3 DEF ScanEnds
    <3>2. Sorted(list') /\ ClustersOf(list') = told
      BY <2>1, <2>3, <3>1, Closed
    <3> QED
      BY <2>1, <3>2, LeaveStep
  <2> QED
    BY <2>2, <2>3
<1> QED
  BY <1>1, <1>2, <1>3, <1>4, <1>5 DEF Scan

LEMMA NextSound == IInv /\ [Next]_vars => StepSound
<1> SUFFICES ASSUME IInv, [Next]_vars PROVE StepSound
  OBVIOUS
<1>1. CASE Add
  BY <1>1, AddStep
<1>2. CASE Sub
  BY <1>2, SubStep
<1>3. CASE Scan
  BY <1>3, ScanStep
<1>4. CASE UNCHANGED vars
  <2>1. /\ list' = list /\ pc' = pc /\ scan' = scan /\ told' = told /\ at' = at /\ open' = open
        /\ rgn' = rgn /\ cut' = cut /\ r' = r /\ remaining' = remaining /\ before' = before
    BY <1>4 DEF vars, scanner, cutter
  <2>2. IInv'
    BY <2>1 DEF IInv, ScanInv, SubInv, Lcn, CutEnd, End
  <2>3. Space' = Space
    BY <2>1 DEF Space
  <2> QED
    BY <2>1, <2>2, <2>3 DEF StepSound
<1> QED
  BY <1>1, <1>2, <1>3, <1>4 DEF Next

\* The invariant says in terms of pairs of regions what RingSound says in
\* terms of the walk.
LEMMA InvariantMeansRing == IInv => RingSound
<1> SUFFICES ASSUME IInv PROVE RingSound
  OBVIOUS
<1>1. Sorted(list)
  BY DEF IInv
<1> DEFINE w == Order(list)
           n == Cardinality(Items(list))
<1>2. /\ n \in Nat /\ DOMAIN w = 1 .. n
      /\ \A k \in 1 .. n : w[k] = IF k = 1 THEN list.head ELSE SuccOf(list, w[k - 1])
  BY <1>1, OrderIs DEF Sorted, IsList
<1>3. \A k \in 1 .. n : w[k] \in Items(list)
  BY <1>1, OrderMeets DEF Met
<1>4. TypeOK
  <2>1. ASSUME NEW i \in Items(list) PROVE list.item[i] \in Item
    <3>1. /\ list.item[i] \in Record /\ LcnOf(list, i) < EndOf(list, i) /\ EndOf(list, i) \in 1 .. NClusters
          /\ EndOf(list, i) = LcnOf(list, i) + list.item[i].length /\ LcnOf(list, i) \in Clusters
          /\ list.item[i].length \in Int
      BY <1>1, SortedFacts
    <3>2. list.item[i].length \in 1 .. NClusters
      BY <3>1, SizesAssumption DEF Clusters
    <3> QED
      BY <3>1, <3>2 DEF Record, Item
  <2>2. list.head \in Addresses \cup {Null} /\ Items(list) \subseteq Addresses
    BY <1>1, SortedFacts
  <2> QED
    BY <2>1, <2>2 DEF IInv, TypeOK
<1>5. RingClosed
  <2>1. \A i \in Items(list) :
          /\ list.item[i].next \in Items(list) /\ list.item[i].prev \in Items(list)
          /\ list.item[list.item[i].next].prev = i
          /\ list.item[list.item[i].prev].next = i
    BY <1>1 DEF Sorted, Linked, SuccOf, PredOf
  <2>2. {Order(list)[k] : k \in DOMAIN Order(list)} = Items(list)
    <3>1. \A i \in Items(list) : \E k \in 1 .. n : i = w[k]
      BY <1>1, OrderCovers
    <3> QED
      BY <1>2, <1>3, <3>1
  <2> QED
    BY <1>1, <2>1, <2>2, SortedFacts DEF RingClosed
<1>6. SortedAndMerged
  <2> SUFFICES ASSUME NEW k \in 1 .. n, k > 1
               PROVE  EndOf(list, w[k - 1]) < LcnOf(list, w[k])
    BY <1>2 DEF SortedAndMerged, End, EndOf, LcnOf
  <2>1. LcnOf(list, w[k - 1]) < LcnOf(list, w[k]) /\ w[k] \in Items(list) /\ w[k - 1] \in Items(list)
    <3>1. k - 1 \in 1 .. n
      BY <1>2
    <3> QED
      BY <1>1, <1>3, <3>1, OrderMeets DEF Met
  <2> HIDE DEF w
  <2> QED
    BY <1>1, <2>1, SortedFacts
<1>7. CursorSound
  BY DEF IInv, SubInv, CursorSound
<1> QED
  BY <1>4, <1>5, <1>6, <1>7 DEF RingSound

\* The ring is closed, sorted and merged and the cursor of the subtraction
\* points into it, for volumes of every size, any number of addresses and
\* any sequence of insertions, removals and scans (list.c 45-115, volume.c
\* 450-714).
THEOREM RingStaysSound == Spec => []RingSound
<1>1. Init => IInv
  BY InitSound
<1>2. IInv /\ [Next]_vars => IInv'
  BY NextSound DEF StepSound
<1> QED
  BY <1>1, <1>2, InvariantMeansRing, PTL DEF Spec

\* The ring implements the set of clusters it stands for: what
\* winx_get_free_volume_regions, winx_add_volume_region and
\* winx_sub_volume_region do to it is exactly what FreeSpace says.
THEOREM RingImplementsFreeSpace == Spec => ImplementsFreeSpace
<1>1. Init => IInv /\ Promise!Init
  BY InitSound
<1>2. IInv /\ [Next]_vars =>
        IInv' /\ [Promise!Next]_<<CASE pc = "scanning" -> {} [] pc = "subtracting" -> before
                                    [] OTHER -> ClustersOf(list), told, scan>>
  BY NextSound DEF StepSound, Space
<1> QED
  BY <1>1, <1>2, PTL DEF Spec, ImplementsFreeSpace, Promise!Spec

-----------------------------------------------------------------------------
(* The searches.                                                           *)

LengthOf(l, i) == l.item[i].length

\* A loop that stops after `steps' regions or at the end of the list.
LEMMA Stopped ==
    ASSUME NEW steps \in Nat, NEW n \in Nat
    PROVE  LET m == Min({steps, n}) IN
           m \in Nat /\ m <= n /\ m <= steps /\ (steps >= n => m = n)
<1>1. {steps, n} \subseteq Nat /\ {steps, n} # {}
  OBVIOUS
<1>2. Min({steps, n}) \in {steps, n} /\ \A x \in {steps, n} : Min({steps, n}) <= x
  BY <1>1, MinIs
<1> QED
  BY <1>2

\* The forward loop meets the regions in the order of the disk.
LEMMA ForwardIs ==
    ASSUME NEW l, Sorted(l), NEW steps \in Nat
    PROVE  LET n == Cardinality(Items(l))
               m == Min({steps, n})
               w == Forward(l, steps)
           IN /\ n \in Nat /\ m \in Nat /\ m <= n /\ (steps >= n => m = n) /\ DOMAIN w = 1 .. m
              /\ \A k \in 1 .. m : w[k] \in Items(l) /\ w[k] = Order(l)[k]
              /\ \A j, k \in 1 .. m : j < k => LcnOf(l, w[j]) < LcnOf(l, w[k])
              /\ \A i \in Items(l) : \/ \E k \in 1 .. m : i = w[k]
                                     \/ m < n /\ \A k \in 1 .. m : LcnOf(l, w[k]) < LcnOf(l, i)
<1> DEFINE n == Cardinality(Items(l))
           m == Min({steps, n})
           w == Forward(l, steps)
<1>1. n \in Nat
  BY OrderIs DEF Sorted, IsList
<1>2. m \in Nat /\ m <= n /\ (steps >= n => m = n)
  BY <1>1, Stopped
<1>3. w = [k \in 1 .. m |-> Order(l)[k]]
  BY DEF Forward
<1>4. \A k \in 1 .. n : Order(l)[k] \in Items(l)
  BY OrderMeets DEF Met
<1>5. \A j, k \in 1 .. n : j < k => LcnOf(l, Order(l)[j]) < LcnOf(l, Order(l)[k])
  BY OrderAscends
<1>6. \A i \in Items(l) : \E k \in 1 .. n : i = Order(l)[k]
  BY OrderCovers
<1> HIDE DEF n, m, w
<1>7. \A k \in 1 .. m : k \in 1 .. n
  BY <1>1, <1>2
<1>8. DOMAIN w = 1 .. m /\ \A k \in 1 .. m : w[k] \in Items(l) /\ w[k] = Order(l)[k]
  BY <1>3, <1>4, <1>7
<1>9. \A j, k \in 1 .. m : j < k => LcnOf(l, w[j]) < LcnOf(l, w[k])
  BY <1>5, <1>7, <1>8
<1>10. ASSUME NEW i \in Items(l)
       PROVE  \/ \E k \in 1 .. m : i = w[k]
              \/ m < n /\ \A k \in 1 .. m : LcnOf(l, w[k]) < LcnOf(l, i)
  <2>1. PICK k \in 1 .. n : i = Order(l)[k]
    BY <1>6
  <2>2. CASE k \in 1 .. m
    BY <1>8, <2>1, <2>2
  <2>3. CASE k \notin 1 .. m
    <3>1. m < k /\ m < n
      BY <1>1, <1>2, <2>3
    <3> QED
      BY <1>1, <1>2, <1>5, <1>7, <1>8, <2>1, <3>1
  <2> QED
    BY <2>2, <2>3
<1> QED
  BY <1>1, <1>2, <1>8, <1>9, <1>10 DEF n, m, w

\* find_first_free_region.
LEMMA FirstIs ==
    ASSUME NEW l, Sorted(l), NEW min_lcn \in Int, NEW min_length \in Int, NEW steps \in Nat
    PROVE  LET beyond == {i \in Items(l) : LcnOf(l, i) >= min_lcn}
               fit == {i \in beyond : LengthOf(l, i) >= min_length}
               lowest == {i \in fit : \A j \in fit : LcnOf(l, i) <= LcnOf(l, j)}
               found == FindFirst(l, min_lcn, min_length, steps)
           IN /\ found.region \in {Null} \cup lowest
              /\ steps >= Cardinality(Items(l)) =>
                    IF fit = {}
                    THEN found = [region |-> Null,
                                  max_length |-> Max({0} \cup {LengthOf(l, j) : j \in beyond})]
                    ELSE found.region \in lowest
<1> DEFINE n == Cardinality(Items(l))
           m == Min({steps, n})
           w == Forward(l, steps)
           hits == {k \in DOMAIN w : LcnOf(l, w[k]) >= min_lcn /\ LengthOf(l, w[k]) >= min_length}
           seen == {k \in DOMAIN w : LcnOf(l, w[k]) >= min_lcn /\ (hits = {} \/ k <= Min(hits))}
           found == FindFirst(l, min_lcn, min_length, steps)
           beyond == {i \in Items(l) : LcnOf(l, i) >= min_lcn}
           fit == {i \in beyond : LengthOf(l, i) >= min_length}
           lowest == {i \in fit : \A j \in fit : LcnOf(l, i) <= LcnOf(l, j)}
<1>1. found = [region |-> IF hits = {} THEN Null ELSE w[Min(hits)],
               max_length |-> Max({0} \cup {LengthOf(l, w[k]) : k \in seen})]
  BY DEF FindFirst, Search, LcnOf, LengthOf
<1>2. /\ n \in Nat /\ m \in Nat /\ m <= n /\ (steps >= n => m = n) /\ DOMAIN w = 1 .. m
      /\ \A k \in 1 .. m : w[k] \in Items(l)
      /\ \A j, k \in 1 .. m : j < k => LcnOf(l, w[j]) < LcnOf(l, w[k])
      /\ \A i \in Items(l) : \/ \E k \in 1 .. m : i = w[k]
                             \/ m < n /\ \A k \in 1 .. m : LcnOf(l, w[k]) < LcnOf(l, i)
  BY ForwardIs
<1>3. \A i \in Items(l) : LcnOf(l, i) \in Int
  BY SortedFacts
<1> HIDE DEF n, m, w, found
<1>4. ASSUME hits # {} PROVE w[Min(hits)] \in lowest
  <2>1. Min(hits) \in hits /\ \A k \in hits : Min(hits) <= k
    <3>1. hits \subseteq Nat
      BY <1>2
    <3> HIDE DEF hits
    <3> QED
      BY <1>4, <3>1, MinIs
  <2> DEFINE b == Min(hits)
  <2>2. b \in 1 .. m /\ w[b] \in fit
    BY <1>2, <2>1
  <2>3. ASSUME NEW j \in fit PROVE LcnOf(l, w[b]) <= LcnOf(l, j)
    <3>1. CASE \E k \in 1 .. m : j = w[k]
      <4>1. PICK k \in 1 .. m : j = w[k]
        BY <3>1
      <4>2. k \in hits /\ b <= k
        BY <1>2, <2>1, <2>3, <4>1
      <4> HIDE DEF b, hits
      <4> QED
        BY <1>2, <1>3, <2>2, <2>3, <4>1, <4>2
    <3>2. CASE ~ \E k \in 1 .. m : j = w[k]
      <4> HIDE DEF b, hits
      <4> QED
        BY <1>2, <1>3, <2>2, <2>3, <3>2
    <3> QED
      BY <3>1, <3>2
  <2> QED
    BY <2>2, <2>3
<1>5. ASSUME steps >= n, fit # {} PROVE hits # {}
  <2>1. PICK j \in fit : TRUE
    BY <1>5
  <2>2. PICK k \in 1 .. m : j = w[k]
    BY <1>2, <1>5
  <2> QED
    BY <1>2, <2>1, <2>2
<1>6. ASSUME steps >= n, fit = {}
      PROVE  hits = {} /\ {LengthOf(l, w[k]) : k \in seen} = {LengthOf(l, j) : j \in beyond}
  <2>1. hits = {}
    BY <1>2, <1>6
  <2>2. seen = {k \in 1 .. m : LcnOf(l, w[k]) >= min_lcn}
    BY <1>2, <2>1
  <2>3. \A k \in seen : w[k] \in beyond
    BY <1>2, <2>2
  <2>4. \A j \in beyond : \E k \in seen : j = w[k]
    BY <1>2, <1>6, <2>2
  <2> HIDE DEF seen, beyond
  <2> QED
    BY <2>1, <2>3, <2>4
<1> HIDE DEF hits, seen, fit, lowest, beyond
<1>7. found.region \in {Null} \cup lowest
  BY <1>1, <1>4
<1>8. ASSUME steps >= n
      PROVE  IF fit = {}
             THEN found = [region |-> Null, max_length |-> Max({0} \cup {LengthOf(l, j) : j \in beyond})]
             ELSE found.region \in lowest
  BY <1>1, <1>4, <1>5, <1>6, <1>8
<1> QED
  BY <1>7, <1>8 DEF n, found, fit, lowest, beyond

\* The backward loop meets them in the opposite order.
LEMMA BackwardIs ==
    ASSUME NEW l, Sorted(l), NEW steps \in Nat
    PROVE  LET n == Cardinality(Items(l))
               m == Min({steps, n})
               w == Backward(l, steps)
           IN /\ n \in Nat /\ m \in Nat /\ m <= n /\ (steps >= n => m = n) /\ DOMAIN w = 1 .. m
              /\ \A k \in 1 .. m : w[k] \in Items(l)
              /\ \A j, k \in 1 .. m : j < k => LcnOf(l, w[k]) < LcnOf(l, w[j])
              /\ \A i \in Items(l) : \/ \E k \in 1 .. m : i = w[k]
                                     \/ m < n /\ \A k \in 1 .. m : LcnOf(l, i) < LcnOf(l, w[k])
<1> DEFINE n == Cardinality(Items(l))
           m == Min({steps, n})
           w == Backward(l, steps)
           h == PredOf(l, l.head)
<1>1. n \in Nat /\ \A k \in 1 .. n : Order(l)[k] = IF k = 1 THEN l.head ELSE SuccOf(l, Order(l)[k - 1])
  BY OrderIs DEF Sorted, IsList
<1>2. m \in Nat /\ m <= n /\ (steps >= n => m = n)
  BY <1>1, Stopped
<1>3. Back(l, h, m, w)
  <2>1. \E v : Back(l, h, m, v)
    BY <1>2, WalksExist
  <2>2. w = CHOOSE v : Back(l, h, m, v)
    BY DEF Backward, Back, PredOf
  <2> HIDE DEF m, w, h
  <2> QED
    BY <2>1, <2>2
<1>4. \A k \in 1 .. n : Order(l)[k] \in Items(l) /\ (k > 1 => Order(l)[k] # l.head)
  BY OrderMeets DEF Met
<1>5. \A j, k \in 1 .. n : j < k => LcnOf(l, Order(l)[j]) < LcnOf(l, Order(l)[k])
  BY OrderAscends
<1>6. \A i \in Items(l) : \E k \in 1 .. n : i = Order(l)[k]
  BY OrderCovers
<1>7. \A i \in Items(l) : SuccOf(l, i) \in Items(l) /\ PredOf(l, SuccOf(l, i)) = i
  BY DEF Sorted, Linked
<1> HIDE DEF n, m, w, h
<1>8. DOMAIN w = 1 .. m /\ \A k \in 1 .. m : w[k] = IF k = 1 THEN h ELSE PredOf(l, w[k - 1])
  BY <1>2, <1>3 DEF Back, PredOf
<1>9. n >= 1 => h = Order(l)[n]
  <2> HAVE n >= 1
  <2>1. n \in 1 .. n /\ 1 \in 1 .. n /\ Order(l)[1] = l.head
    BY <1>1
  <2>2. PICK k \in 1 .. n : SuccOf(l, Order(l)[n]) = Order(l)[k]
    BY <1>4, <1>6, <1>7, <2>1
  <2>3. k = 1
    <3> SUFFICES ASSUME k # 1 PROVE FALSE
      OBVIOUS
    <3>1. k - 1 \in 1 .. n /\ Order(l)[k] = SuccOf(l, Order(l)[k - 1])
      BY <1>1
    <3>2. Order(l)[k - 1] = Order(l)[n]
      BY <1>4, <1>7, <2>1, <2>2, <3>1
    <3>3. k - 1 < n
      BY <1>1
    <3>4. LcnOf(l, Order(l)[n]) \in Int
      BY <1>4, <2>1, SortedFacts
    <3> QED
      BY <1>5, <2>1, <3>1, <3>2, <3>3, <3>4
  <2> QED
    BY <1>4, <1>7, <2>1, <2>2, <2>3 DEF h
<1>10. ASSUME NEW k \in 1 .. m PROVE w[k] = Order(l)[n + 1 - k]
  <2> DEFINE Bad == {a \in 1 .. m : w[a] # Order(l)[n + 1 - a]}
  <2>1. ASSUME Bad # {} PROVE FALSE
    <3>1. PICK a \in Bad : \A b \in Bad : a <= b
      <4>1. Bad \subseteq Nat
        BY <1>2
      <4> HIDE DEF Bad
      <4> QED
        BY <2>1, <4>1, LeastNatural
    <3>2. a \in 1 .. m /\ n >= 1
      BY <1>1, <1>2, <3>1
    <3>3. a # 1
      BY <1>1, <1>8, <1>9, <3>1, <3>2
    <3>4. a - 1 \in 1 .. m /\ w[a - 1] = Order(l)[n + 1 - (a - 1)]
      BY <1>2, <3>1, <3>2, <3>3
    <3> DEFINE b == n + 1 - a
    <3>5. b \in 1 .. n /\ b + 1 \in 1 .. n /\ n + 1 - (a - 1) = b + 1 /\ b + 1 # 1 /\ b + 1 - 1 = b
      BY <1>1, <1>2, <3>2, <3>3
    <3> HIDE DEF b
    <3>6. Order(l)[b + 1] = SuccOf(l, Order(l)[b])
      BY <1>1, <3>5
    <3>7. w[a] = PredOf(l, w[a - 1])
      BY <1>8, <3>2, <3>3
    <3>8. w[a] = Order(l)[b]
      BY <1>4, <1>7, <3>4, <3>5, <3>6, <3>7
    <3> QED
      BY <3>1, <3>8 DEF b
  <2> QED
    BY <2>1
<1>11. \A k \in 1 .. m : n + 1 - k \in 1 .. n /\ w[k] \in Items(l)
  BY <1>1, <1>2, <1>4, <1>10
<1>12. \A j, k \in 1 .. m : j < k => LcnOf(l, w[k]) < LcnOf(l, w[j])
  <2> SUFFICES ASSUME NEW j \in 1 .. m, NEW k \in 1 .. m, j < k
               PROVE  LcnOf(l, w[k]) < LcnOf(l, w[j])
    OBVIOUS
  <2>1. n + 1 - k < n + 1 - j
    BY <1>1, <1>2
  <2> QED
    BY <1>5, <1>10, <1>11, <2>1
<1>13. ASSUME NEW i \in Items(l)
       PROVE  \/ \E k \in 1 .. m : i = w[k]
              \/ m < n /\ \A k \in 1 .. m : LcnOf(l, i) < LcnOf(l, w[k])
  <2>1. PICK a \in 1 .. n : i = Order(l)[a]
    BY <1>6
  <2>2. CASE n + 1 - a \in 1 .. m
    <3>1. n + 1 - (n + 1 - a) = a
      BY <1>1
    <3> QED
      BY <1>10, <2>1, <2>2, <3>1
  <2>3. CASE n + 1 - a \notin 1 .. m
    <3>1. m < n
      BY <1>1, <1>2, <2>3
    <3>2. ASSUME NEW k \in 1 .. m PROVE LcnOf(l, i) < LcnOf(l, w[k])
      <4>1. a < n + 1 - k
        BY <1>1, <1>2, <2>3
      <4> QED
        BY <1>5, <1>10, <1>11, <2>1, <4>1
    <3> QED
      BY <3>1, <3>2
  <2> QED
    BY <2>2, <2>3
<1> QED
  BY <1>1, <1>2, <1>8, <1>11, <1>12, <1>13 DEF n, m, w

\* find_last_free_region.
LEMMA LastIs ==
    ASSUME NEW l, Sorted(l), NEW min_lcn \in Int, NEW min_length \in Int, NEW steps \in Nat
    PROVE  LET beyond == {i \in Items(l) : LcnOf(l, i) >= min_lcn}
               fit == {i \in beyond : LengthOf(l, i) >= min_length}
               highest == {i \in fit : \A j \in fit : LcnOf(l, i) >= LcnOf(l, j)}
               found == FindLast(l, min_lcn, min_length, steps)
           IN /\ found.region \in {Null} \cup highest
              /\ steps >= Cardinality(Items(l)) =>
                    IF fit = {}
                    THEN found = [region |-> Null,
                                  max_length |-> Max({0} \cup {LengthOf(l, j) : j \in beyond})]
                    ELSE found.region \in highest
<1> DEFINE n == Cardinality(Items(l))
           m == Min({steps, n})
           w == Backward(l, steps)
           reached == {k \in DOMAIN w : \A j \in 1 .. k : LcnOf(l, w[j]) >= min_lcn}
           v == [k \in reached |-> w[k]]
           hits == {k \in DOMAIN v : TRUE /\ LengthOf(l, v[k]) >= min_length}
           seen == {k \in DOMAIN v : TRUE /\ (hits = {} \/ k <= Min(hits))}
           found == FindLast(l, min_lcn, min_length, steps)
           beyond == {i \in Items(l) : LcnOf(l, i) >= min_lcn}
           fit == {i \in beyond : LengthOf(l, i) >= min_length}
           highest == {i \in fit : \A j \in fit : LcnOf(l, i) >= LcnOf(l, j)}
<1>1. found = [region |-> IF hits = {} THEN Null ELSE v[Min(hits)],
               max_length |-> Max({0} \cup {LengthOf(l, v[k]) : k \in seen})]
  BY DEF FindLast, Search, LcnOf, LengthOf
<1>2. /\ n \in Nat /\ m \in Nat /\ m <= n /\ (steps >= n => m = n) /\ DOMAIN w = 1 .. m
      /\ \A k \in 1 .. m : w[k] \in Items(l)
      /\ \A j, k \in 1 .. m : j < k => LcnOf(l, w[k]) < LcnOf(l, w[j])
      /\ \A i \in Items(l) : \/ \E k \in 1 .. m : i = w[k]
                             \/ m < n /\ \A k \in 1 .. m : LcnOf(l, i) < LcnOf(l, w[k])
  BY BackwardIs
<1>3. \A i \in Items(l) : LcnOf(l, i) \in Int
  BY SortedFacts
<1> HIDE DEF n, m, w, found
<1>4. reached = {k \in 1 .. m : LcnOf(l, w[k]) >= min_lcn}
  <2>1. ASSUME NEW k \in 1 .. m, LcnOf(l, w[k]) >= min_lcn, NEW j \in 1 .. k
        PROVE  LcnOf(l, w[j]) >= min_lcn
    <3>1. j \in 1 .. m /\ (j = k \/ j < k)
      BY <1>2, <2>1
    <3>2. LcnOf(l, w[j]) \in Int /\ LcnOf(l, w[k]) \in Int
      BY <1>2, <1>3, <3>1
    <3> QED
      BY <1>2, <2>1, <3>1, <3>2
  <2>2. \A k \in 1 .. m : k \in 1 .. k
    OBVIOUS
  <2> QED
    BY <1>2, <2>1, <2>2
<1>5. DOMAIN v = reached /\ \A k \in reached : v[k] = w[k]
  OBVIOUS
<1> HIDE DEF reached, v
<1>6. hits = {k \in reached : LengthOf(l, w[k]) >= min_length}
  BY <1>5
<1>7. ASSUME hits # {} PROVE v[Min(hits)] \in highest
  <2>1. Min(hits) \in hits /\ \A k \in hits : Min(hits) <= k
    <3>1. hits \subseteq Nat
      BY <1>2, <1>4, <1>6
    <3> HIDE DEF hits
    <3> QED
      BY <1>7, <3>1, MinIs
  <2> DEFINE b == Min(hits)
  <2>2. b \in 1 .. m /\ w[b] \in fit /\ v[b] = w[b]
    BY <1>2, <1>4, <1>5, <1>6, <2>1
  <2>3. ASSUME NEW j \in fit PROVE LcnOf(l, w[b]) >= LcnOf(l, j)
    <3> HIDE DEF b, hits
    <3>1. CASE \E k \in 1 .. m : j = w[k]
      <4>1. PICK k \in 1 .. m : j = w[k]
        BY <3>1
      <4>2. k \in hits /\ b <= k
        BY <1>2, <1>4, <1>6, <2>1, <2>3, <4>1 DEF b
      <4> QED
        BY <1>2, <1>3, <2>2, <2>3, <4>1, <4>2
    <3>2. CASE ~ \E k \in 1 .. m : j = w[k]
      BY <1>2, <1>3, <2>2, <2>3, <3>2
    <3> QED
      BY <3>1, <3>2
  <2> QED
    BY <2>2, <2>3
<1>8. ASSUME steps >= n, fit # {} PROVE hits # {}
  <2>1. PICK j \in fit : TRUE
    BY <1>8
  <2>2. PICK k \in 1 .. m : j = w[k]
    BY <1>2, <1>8
  <2> QED
    BY <1>2, <1>4, <1>6, <2>1, <2>2
<1>9. ASSUME steps >= n, fit = {}
      PROVE  hits = {} /\ {LengthOf(l, v[k]) : k \in seen} = {LengthOf(l, j) : j \in beyond}
  <2>1. hits = {}
    BY <1>2, <1>4, <1>6, <1>9
  <2>2. seen = reached
    BY <1>5, <2>1
  <2>3. \A k \in seen : v[k] \in beyond
    BY <1>2, <1>4, <1>5, <2>2
  <2>4. \A j \in beyond : \E k \in seen : j = v[k]
    BY <1>2, <1>4, <1>5, <1>9, <2>2
  <2> HIDE DEF seen, beyond
  <2> QED
    BY <2>1, <2>3, <2>4
<1> HIDE DEF hits, seen, fit, highest, beyond
<1>10. found.region \in {Null} \cup highest
  BY <1>1, <1>7
<1>11. ASSUME steps >= n
       PROVE  IF fit = {}
              THEN found = [region |-> Null, max_length |-> Max({0} \cup {LengthOf(l, j) : j \in beyond})]
              ELSE found.region \in highest
  BY <1>1, <1>7, <1>8, <1>9, <1>11
<1> QED
  BY <1>10, <1>11 DEF n, found, fit, highest, beyond

\* find_largest_free_region when nobody stops it.
LEMMA LargestIs ==
    ASSUME NEW l, Sorted(l)
    PROVE  LET found == FindLargest(l, Cardinality(Items(l))) IN
           /\ found = Null <=> Items(l) = {}
           /\ found # Null => /\ found \in Items(l)
                              /\ \A j \in Items(l) : LengthOf(l, j) <= LengthOf(l, found)
<1> DEFINE n == Cardinality(Items(l))
           w == Order(l)
           longest == {k \in DOMAIN w : \A j \in DOMAIN w : LengthOf(l, w[j]) <= LengthOf(l, w[k])}
           found == FindLargest(l, n)
<1>1. found = IF n < n \/ l.head = Null THEN Null ELSE w[Min(longest)]
  BY DEF FindLargest, LengthOf
<1>2. n \in Nat /\ DOMAIN w = 1 .. n
  BY OrderIs DEF Sorted, IsList
<1>3. \A k \in 1 .. n : w[k] \in Items(l)
  BY OrderMeets DEF Met
<1>4. \A i \in Items(l) : \E k \in 1 .. n : i = w[k]
  BY OrderCovers
<1>5. /\ l.head = Null <=> Items(l) = {}
      /\ \A i \in Items(l) : i # Null /\ LengthOf(l, i) \in Int /\ LengthOf(l, i) <= NClusters
  <2>1. /\ l.head = Null <=> Items(l) = {}
        /\ \A i \in Items(l) : /\ i # Null /\ l.item[i].length \in Int
                               /\ EndOf(l, i) = LcnOf(l, i) + l.item[i].length
                               /\ LcnOf(l, i) \in Clusters /\ EndOf(l, i) \in 1 .. NClusters
    BY SortedFacts
  <2> QED
    BY <2>1, SizesAssumption DEF LengthOf, Clusters
<1> HIDE DEF n, w, found
<1>6. CASE Items(l) = {}
  BY <1>1, <1>5, <1>6 DEF n, found
<1>7. CASE Items(l) # {}
  <2> DEFINE T == {NClusters - LengthOf(l, w[k]) : k \in 1 .. n}
  <2>1. T \subseteq Nat /\ T # {}
    BY <1>2, <1>3, <1>4, <1>5, <1>7, SizesAssumption
  <2>2. PICK t \in T : \A x \in T : t <= x
    <3> HIDE DEF T
    <3> QED
      BY <2>1, LeastNatural
  <2>3. PICK b \in 1 .. n : t = NClusters - LengthOf(l, w[b])
    BY <2>2
  <2>4. \A k \in 1 .. n : LengthOf(l, w[k]) <= LengthOf(l, w[b])
    <3> TAKE k \in 1 .. n
    <3>1. NClusters - LengthOf(l, w[b]) <= NClusters - LengthOf(l, w[k])
      BY <2>2, <2>3
    <3> QED
      BY <1>3, <1>5, <3>1, SizesAssumption
  <2>5. longest # {} /\ longest \subseteq Nat
    BY SMTT(20), <1>2, <2>4
  <2>6. Min(longest) \in longest
    <3> HIDE DEF longest
    <3> QED
      BY <2>5, MinIs
  <2>7. found = w[Min(longest)]
    BY <1>1, <1>2, <1>5, <1>7
  <2> DEFINE c == Min(longest)
  <2>8. c \in 1 .. n /\ \A j \in 1 .. n : LengthOf(l, w[j]) <= LengthOf(l, w[c])
    BY <1>2, <2>6
  <2> HIDE DEF c, longest
  <2> QED
    BY <1>3, <1>4, <1>5, <1>7, <2>7, <2>8 DEF c, found, n
<1> QED
  BY <1>6, <1>7

\* The searches find what they promise in every list the engine can have:
\* find_first_free_region the lowest region that fits, find_last_free_region
\* the highest one, find_largest_free_region a longest one (search.c 38-174).
THEOREM SearchesStayRight == Spec => []SearchesFind
<1>1. IInv => SearchesFind
  <2> SUFFICES ASSUME IInv PROVE SearchesFind
    OBVIOUS
  <2> DEFINE n == Cardinality(Items(list))
  <2>1. Sorted(list) /\ n \in Nat
    BY OrderIs DEF IInv, Sorted, IsList
  <2>2. /\ FindLargest(list, n) \in
             {Null} \cup {i \in Items(list) :
                             \A j \in Items(list) : list.item[j].length <= list.item[i].length}
        /\ FindLargest(list, n) = Null => Items(list) = {}
    BY <2>1, LargestIs DEF LengthOf
  <2>3. ASSUME NEW min_lcn \in Clusters, NEW min_length \in 1 .. NClusters, NEW steps \in 0 .. n
        PROVE  LET beyond == {i \in Items(list) : list.item[i].lcn >= min_lcn}
                   fit == {i \in beyond : list.item[i].length >= min_length}
                   lowest == {i \in fit : \A j \in fit : list.item[i].lcn <= list.item[j].lcn}
                   highest == {i \in fit : \A j \in fit : list.item[i].lcn >= list.item[j].lcn}
                   first == FindFirst(list, min_lcn, min_length, steps)
                   last == FindLast(list, min_lcn, min_length, steps)
                   nothing == [region |-> Null,
                               max_length |-> Max({0} \cup {list.item[j].length : j \in beyond})]
               IN /\ first.region \in {Null} \cup lowest /\ last.region \in {Null} \cup highest
                  /\ steps >= n => IF fit = {} THEN first = nothing ELSE first.region \in lowest
                  /\ steps >= n => IF fit = {} THEN last = nothing ELSE last.region \in highest
    <3>1. min_lcn \in Int /\ min_length \in Int /\ steps \in Nat
      BY <2>1 DEF Clusters
    <3> QED
      BY <2>1, <3>1, FirstIs, LastIs DEF LcnOf, LengthOf
  <2>4. n \in 0 .. n /\ n >= n /\ \A steps \in 0 .. n - 1 : steps \in 0 .. n
    BY <2>1
  <2> QED
    BY ZenonT(40), <2>2, <2>3, <2>4 DEF SearchesFind
<1>2. Init => IInv
  BY InitSound
<1>3. IInv /\ [Next]_vars => IInv'
  BY NextSound DEF StepSound
<1> QED
  BY <1>1, <1>2, <1>3, PTL DEF Spec
=============================================================================
