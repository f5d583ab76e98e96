----------------------------- MODULE FreeRegions -----------------------------
(***************************************************************************)
(* The list of free regions: dll/zenwinx/volume.c on top of the double     *)
(* linked ring of dll/zenwinx/list.c, and the searches the algorithms do   *)
(* in it (dll/udefrag/search.c).                                           *)
(*                                                                         *)
(* A list is a record: its head, Null when it is empty, and the memory of  *)
(* its items.  An address that is freed may be handed out again by the     *)
(* next allocation.  The bitmap scan and the loop of                       *)
(* winx_sub_volume_region are modelled step by step, since they keep       *)
(* pointers into the list between two changes of it.                       *)
(***************************************************************************)
EXTENDS Integers, FiniteSets, FiniteSetsExt, Functions

CONSTANTS
    NClusters,   \* the size of the volume
    Portion,     \* BITMAPBYTES * 8: clusters told by one FSCTL call
    Addresses,   \* what winx_malloc may return
    Null

ASSUME SizesAssumption ==
    NClusters \in Nat \ {0} /\ Portion \in Nat \ {0} /\ Null \notin Addresses

VARIABLES
    list,    \* jp->free_regions
    pc,      \* "idle", "scanning" or "subtracting"
    scan,    \* history: how the last scan ended
    told,    \* history: the clusters the scan was told to be free
    at,      \* the next cluster the scan looks at
    open,    \* free_rgn_start, NClusters for LLINVALID
    rgn,     \* the region the scan inserted last
    cut,     \* lcn and length winx_sub_volume_region was called with
    r,       \* its cursor
    remaining, \* its remaining_clusters
    before   \* history: the list's clusters when the subtraction began

scanner == <<at, open, rgn>>
cutter == <<cut, r, remaining, before>>
vars == <<list, pc, scan, told, scanner, cutter>>

Clusters == 0 .. NClusters - 1
Span(lcn, length) == lcn .. lcn + length - 1

-----------------------------------------------------------------------------
(* list.c: the ring.                                                       *)

Empty == [head |-> Null, item |-> [n \in {} |-> 0]]
Items(l) == DOMAIN l.item
End(i) == i.lcn + i.length

\* winx_list_insert: Null as prev makes the new item the head.
Insert(l, prev, n, lcn, length) ==
    LET p == IF prev = Null THEN l.item[l.head].prev ELSE prev
        q == l.item[p].next
        Made(next, previous) ==
            [next |-> next, prev |-> previous, lcn |-> lcn, length |-> length]
    IN IF l.head = Null
       THEN [head |-> n, item |-> [i \in {n} |-> Made(n, n)]]
       ELSE LET linked == [l.item EXCEPT ![p].next = n, ![q].prev = n]
            IN [head |-> IF prev = Null THEN n ELSE l.head,
                item |-> [i \in Items(l) \cup {n} |-> IF i = n THEN Made(q, p) ELSE linked[i]]]

\* winx_list_remove.
Remove(l, i) ==
    LET p == l.item[i].prev
        q == l.item[i].next
    IN IF i = l.head /\ q = l.head
       THEN Empty
       ELSE [head |-> IF i = l.head THEN q ELSE l.head,
             item |-> Restrict([l.item EXCEPT ![p].next = q, ![q].prev = p], Items(l) \ {i})]

\* The items in the order in which a loop along next meets them.
Order(l) ==
    LET walk[k \in 1 .. Cardinality(Items(l))] ==
            IF k = 1 THEN l.head ELSE l.item[walk[k - 1]].next
    IN walk

ClustersOf(l) == UNION {Span(l.item[i].lcn, l.item[i].length) : i \in Items(l)}

-----------------------------------------------------------------------------
(* winx_add_volume_region.                                                 *)

\* The region in front of lcn, Null when lcn comes first.
Previous(l, lcn) ==
    LET w == Order(l)
        after == {k \in DOMAIN w : l.item[w[k]].lcn > lcn}
    IN IF l.head = Null THEN Null
       ELSE IF after = {} THEN w[Cardinality(Items(l))]
       ELSE IF Min(after) = 1 THEN Null ELSE l.item[w[Min(after)]].prev

MutGrowRight(l, p, length) == [l EXCEPT !.item[p].length = @ + length]

\* The region grows to the right and swallows its successor when they meet.
GrowRight(l, p, length) ==
    LET grown == [l EXCEPT !.item[p].length = @ + length]
        q == l.item[p].next
    IN IF End(grown.item[p]) = grown.item[q].lcn
       THEN Remove([grown EXCEPT !.item[p].length = @ + grown.item[q].length], q)
       ELSE grown

\* n is the address a new item would get.
AddRegion(l, lcn, length, n) ==
    LET p == Previous(l, lcn)
        q == IF p = Null THEN l.head ELSE l.item[p].next
    IN IF length = 0 THEN l
       ELSE IF p # Null /\ End(l.item[p]) = lcn THEN GrowRight(l, p, length)
       ELSE IF l.head # Null /\ lcn + length = l.item[q].lcn
            THEN [l EXCEPT !.item[q].lcn = lcn, !.item[q].length = @ + length]
       ELSE Insert(l, p, n, lcn, length)

Free(n) == n \in Addresses \ Items(list)

Add ==
    /\ pc = "idle"
    /\ \E lcn \in Clusters, length \in 0 .. NClusters, n \in Addresses :
        /\ Free(n) /\ Span(lcn, length) \subseteq Clusters \ ClustersOf(list)
        /\ list' = AddRegion(list, lcn, length, n)
    /\ UNCHANGED <<pc, scan, told, scanner, cutter>>

-----------------------------------------------------------------------------
(* winx_sub_volume_region.                                                 *)

NoCut == [lcn |-> 0, length |-> 0]

\* An empty range or an empty list leaves everything as it is.
SubBegin ==
    /\ pc = "idle"
    /\ \E lcn \in Clusters, length \in 0 .. NClusters :
        /\ lcn + length <= NClusters
        /\ length > 0 /\ list.head # Null
        /\ cut' = [lcn |-> lcn, length |-> length] /\ remaining' = length
    /\ pc' = "subtracting" /\ r' = list.head /\ before' = ClustersOf(list)
    /\ UNCHANGED <<list, scan, told, scanner>>

Lcn == list.item[r].lcn
Stop == End(list.item[r])
CutEnd == End(cut)

\* The part of region i behind the end of the range survives in a new item.
CutLeft(l, i, stop, n) == AddRegion(Remove(l, i), stop, End(l.item[i]) - stop, n)

\* The range lies inside of region i, so its tail becomes a new item.
Split(l, i, lcn, stop, n) ==
    AddRegion([l EXCEPT !.item[i].length = lcn - l.item[i].lcn], stop,
              End(l.item[i]) - stop, n)

\* The loop goes on with the successor r had before the step, unless the
\* list is empty or the successor is the head the list had then.
Return ==
    /\ pc' = "idle" /\ r' = Null /\ cut' = NoCut /\ remaining' = 0 /\ before' = {}

Advance(left) ==
    LET next == list.item[r].next
    IN /\ IF list'.head = Null \/ next = list.head \/ left = 0
          THEN Return
          ELSE r' = next /\ remaining' = left /\ UNCHANGED <<pc, cut, before>>
       /\ UNCHANGED <<scan, told, scanner>>

InLoop == pc = "subtracting" /\ Lcn < CutEnd

SubBreak ==
    /\ pc = "subtracting" /\ Lcn >= CutEnd
    /\ Return
    /\ UNCHANGED <<list, scan, told, scanner>>

SubSkip ==
    /\ InLoop /\ Stop <= cut.lcn
    /\ UNCHANGED list /\ Advance(remaining)

SubInside ==
    /\ InLoop /\ Stop > cut.lcn /\ Lcn >= cut.lcn /\ Stop <= CutEnd
    /\ list' = Remove(list, r)
    /\ Advance(remaining - list.item[r].length)

SubCutRight ==
    /\ InLoop /\ Lcn < cut.lcn /\ Stop > cut.lcn /\ Stop <= CutEnd
    /\ list' = [list EXCEPT !.item[r].length = cut.lcn - Lcn]
    /\ Advance(remaining)

SubCutLeft ==
    /\ InLoop /\ Lcn >= cut.lcn /\ Stop > CutEnd
    /\ \E n \in Addresses : /\ n = r \/ Free(n)
                            /\ list' = CutLeft(list, r, CutEnd, n)
    /\ Advance(remaining)

SubSplit ==
    /\ InLoop /\ Lcn < cut.lcn /\ Stop > CutEnd
    /\ \E n \in Addresses : Free(n) /\ list' = Split(list, r, cut.lcn, CutEnd, n)
    /\ Advance(remaining)

Sub == SubBegin \/ SubBreak \/ SubSkip \/ SubInside \/ SubCutRight \/ SubCutLeft \/ SubSplit

-----------------------------------------------------------------------------
(* winx_get_free_volume_regions.                                           *)

Nowhere == NClusters

\* The old list is released, the bitmap is read from its beginning.
ScanBegin ==
    /\ pc = "idle"
    /\ list' = Empty /\ pc' = "scanning" /\ scan' = "running" /\ told' = {}
    /\ at' = 0 /\ open' = Nowhere /\ rgn' = Null
    /\ UNCHANGED cutter

Leave(outcome) ==
    /\ pc' = "idle" /\ scan' = outcome /\ told' = {}
    /\ at' = 0 /\ open' = Nowhere /\ rgn' = Null
    /\ UNCHANGED cutter

MutScanFree ==
    /\ pc = "scanning" /\ at < NClusters
    /\ told' = told \cup {at} /\ at' = at + 1
    /\ open' = IF open = Nowhere \/ at % Portion = 0 THEN at ELSE open
    /\ UNCHANGED <<list, pc, scan, rgn, cutter>>

\* A free cluster opens a region or makes it longer, across portions too.
ScanFree ==
    /\ pc = "scanning" /\ at < NClusters
    /\ told' = told \cup {at} /\ at' = at + 1
    /\ open' = IF open = Nowhere THEN at ELSE open
    /\ UNCHANGED <<list, pc, scan, rgn, cutter>>

\* An occupied cluster closes the open region; the callback may stop the scan.
ScanUsed ==
    /\ pc = "scanning" /\ at < NClusters
    /\ IF open = Nowhere
       THEN at' = at + 1 /\ UNCHANGED <<list, pc, scan, told, open, rgn, cutter>>
       ELSE \E n \in Addresses :
            /\ Free(n)
            /\ list' = Insert(list, rgn, n, open, at - open)
            /\ \/ /\ at' = at + 1 /\ open' = Nowhere /\ rgn' = n
                  /\ UNCHANGED <<pc, scan, told, cutter>>
               \/ Leave("partial")

\* The next portion cannot be read.  A caller that allows partial scans keeps
\* the regions found so far, except for the open one.
ScanFails ==
    /\ pc = "scanning" /\ at < NClusters /\ at % Portion = 0
    /\ list' = list \/ list' = Empty
    /\ Leave("partial")

\* The region open at the end of the volume is added as well.
ScanEnds ==
    /\ pc = "scanning" /\ at = NClusters
    /\ IF open = Nowhere
       THEN UNCHANGED list
       ELSE \E n \in Addresses : Free(n) /\ list' = Insert(list, rgn, n, open, at - open)
    /\ Leave("complete")

Scan == ScanBegin \/ ScanFree \/ ScanUsed \/ ScanFails \/ ScanEnds

-----------------------------------------------------------------------------
(* The searches.  The loops ask the termination router before every region *)
(* they look at; it allows them `steps' regions here.                      *)

\* What a search that breaks out of its loop returns: the region, if any,
\* and the length of the biggest region it met.
Search(l, walk, Wanted(_), Fits(_)) ==
    LET hits == {k \in DOMAIN walk : Wanted(walk[k]) /\ Fits(walk[k])}
        seen == {k \in DOMAIN walk : Wanted(walk[k]) /\ (hits = {} \/ k <= Min(hits))}
    IN [region |-> IF hits = {} THEN Null ELSE walk[Min(hits)],
        max_length |-> Max({0} \cup {l.item[walk[k]].length : k \in seen})]

Forward(l, steps) == [k \in 1 .. Min({steps, Cardinality(Items(l))}) |-> Order(l)[k]]

MutBackward(l, steps) ==
    LET n == Cardinality(Items(l))
        walk[k \in 1 .. Min({steps, n})] ==
            IF k = 1 THEN l.head ELSE l.item[walk[k - 1]].prev
    IN walk

\* From the last region towards the head, along prev.
Backward(l, steps) ==
    LET n == Cardinality(Items(l))
        walk[k \in 1 .. Min({steps, n})] ==
            IF k = 1 THEN l.item[l.head].prev ELSE l.item[walk[k - 1]].prev
    IN walk

FindFirst(l, min_lcn, min_length, steps) ==
    Search(l, Forward(l, steps), LAMBDA i : l.item[i].lcn >= min_lcn,
           LAMBDA i : l.item[i].length >= min_length)

\* The loop leaves at the first region in front of min_lcn.
FindLast(l, min_lcn, min_length, steps) ==
    LET walk == Backward(l, steps)
        beyond == {k \in DOMAIN walk : \A j \in 1 .. k : l.item[walk[j]].lcn >= min_lcn}
    IN Search(l, [k \in beyond |-> walk[k]], LAMBDA i : TRUE,
              LAMBDA i : l.item[i].length >= min_length)

\* A termination request makes it forget what it has found.
FindLargest(l, steps) ==
    LET walk == Order(l)
        longest == {k \in DOMAIN walk :
                      \A j \in DOMAIN walk : l.item[walk[j]].length <= l.item[walk[k]].length}
    IN IF steps < Cardinality(Items(l)) \/ l.head = Null THEN Null ELSE walk[Min(longest)]

-----------------------------------------------------------------------------
Init ==
    /\ list = Empty /\ pc = "idle" /\ scan = "partial" /\ told = {}
    /\ at = 0 /\ open = Nowhere /\ rgn = Null
    /\ cut = NoCut /\ r = Null /\ remaining = 0 /\ before = {}

Next == Add \/ Sub \/ Scan

Spec == Init /\ [][Next]_vars

-----------------------------------------------------------------------------
(* Properties.                                                             *)

Item == [next : Addresses, prev : Addresses, lcn : Clusters, length : 1 .. NClusters]

\* Every variable keeps its type; in particular no region is empty or longer
\* than the volume and remaining_clusters never wraps below zero.
TypeOK ==
    /\ list.head \in Addresses \cup {Null} /\ Items(list) \subseteq Addresses
    /\ \A i \in Items(list) : list.item[i] \in Item
    /\ pc \in {"idle", "scanning", "subtracting"}
    /\ scan \in {"running", "complete", "partial"} /\ told \subseteq Clusters
    /\ at \in 0 .. NClusters /\ open \in 0 .. NClusters /\ rgn \in Addresses \cup {Null}
    /\ cut \in [lcn : Clusters, length : 0 .. NClusters]
    /\ r \in Addresses \cup {Null} /\ remaining \in 0 .. NClusters
    /\ before \subseteq Clusters

\* The ring is closed: next and prev are inverse to each other and a walk
\* from the head meets every item of the list exactly once.
RingClosed ==
    /\ list.head = Null <=> Items(list) = {}
    /\ \A i \in Items(list) :
        /\ list.item[i].next \in Items(list) /\ list.item[i].prev \in Items(list)
        /\ list.item[list.item[i].next].prev = i
        /\ list.item[list.item[i].prev].next = i
    /\ {Order(list)[k] : k \in DOMAIN Order(list)} = Items(list)

\* Regions are sorted and maximal: between two of them lies at least one
\* cluster that is not free.  The traversals that stop at the first region
\* beyond a limit and the merging in winx_add_volume_region rely on it.
SortedAndMerged ==
    \A k \in DOMAIN Order(list) : k > 1 =>
        End(list.item[Order(list)[k - 1]]) < list.item[Order(list)[k]].lcn

\* The successor winx_sub_volume_region saved before it removes, cuts or
\* splits a region is still an item of the list when the loop gets to it,
\* and everything in front of it is subtracted already.
CursorSound ==
    pc = "subtracting" =>
        /\ r \in Items(list)
        /\ \A c \in ClustersOf(list) \cap Span(cut.lcn, cut.length) : c >= Lcn

\* After any sequence of insertions and removals at any place, with addresses
\* reused, the ring is closed (list.c 45-115), no region is empty, and the
\* cursor of a subtraction still points into the list (volume.c 657-713); the
\* regions are sorted and no two of them should have been merged.
RingSound == TypeOK /\ RingClosed /\ SortedAndMerged /\ CursorSound

\* The region that fits: find_first_free_region returns the lowest one,
\* find_last_free_region the highest one, find_largest_free_region a longest
\* one; when nothing fits, max_length tells the longest region that was
\* looked at, which callers use as the next limit.  A search that is stopped
\* early returns nothing rather than a wrong region.
SearchesFind ==
    \A min_lcn \in Clusters, min_length \in 1 .. NClusters :
        LET beyond == {i \in Items(list) : list.item[i].lcn >= min_lcn}
            fit == {i \in beyond : list.item[i].length >= min_length}
            all == Cardinality(Items(list))
            lowest == {i \in fit : \A j \in fit : list.item[i].lcn <= list.item[j].lcn}
            highest == {i \in fit : \A j \in fit : list.item[i].lcn >= list.item[j].lcn}
            Right(found, best) ==
                IF fit = {}
                THEN found = [region |-> Null,
                              max_length |-> Max({0} \cup {list.item[j].length : j \in beyond})]
                ELSE found.region \in best
        IN /\ FindLargest(list, all) \in
                {Null} \cup {i \in Items(list) :
                                \A j \in Items(list) : list.item[j].length <= list.item[i].length}
           /\ FindLargest(list, all) = Null => Items(list) = {}
           /\ Right(FindFirst(list, min_lcn, min_length, all), lowest)
           /\ Right(FindLast(list, min_lcn, min_length, all), highest)
           /\ \A steps \in 0 .. all - 1 :
                /\ FindFirst(list, min_lcn, min_length, steps).region \in {Null} \cup lowest
                /\ FindLast(list, min_lcn, min_length, steps).region \in {Null} \cup highest

\* The ring implements the set: adding and subtracting ranges is exact, a
\* complete scan keeps precisely what it was told, an interrupted one
\* nothing else.
Promise ==
    INSTANCE FreeSpace WITH
        space <- CASE pc = "scanning" -> {} [] pc = "subtracting" -> before
                   [] OTHER -> ClustersOf(list)
ImplementsFreeSpace == Promise!Spec
=============================================================================
