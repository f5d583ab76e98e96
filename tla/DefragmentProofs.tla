--------------------------- MODULE DefragmentProofs ---------------------------
(***************************************************************************)
(* What module Defragment promises, for volumes of every size, any number  *)
(* of files and every threshold.                                           *)
(*                                                                         *)
(* PassesAreExhaustive: a sequence of passes ends only when no file which  *)
(* is to be moved as a whole fits into a free region. A pass goes through  *)
(* the list in the order of Precedes, which is total, so a file left out   *)
(* would be behind the one that is next. Nothing can make room for a file  *)
(* passed over before, as long as no move succeeds: the free list only     *)
(* shrinks.                                                                *)
(*                                                                         *)
(* FilesStayApart: the range a move is about is free, so it is vacant, and *)
(* no place is used twice after it.                                        *)
(*                                                                         *)
(* JoiningAlwaysHelps: what is chosen to be joined is a range of VCNs p .. *)
(* q - 1 in which a fragment begins at some s behind p. After the move     *)
(* only p and q may begin fragments in that range, and fragments outside   *)
(* stay as they are. What is cut from a neighbour, and what is left of it, *)
(* are not little; so the joined piece replaces a little fragment by one   *)
(* which is not little, or two little ones by one. This is so for files    *)
(* without holes only: Chain counts clusters, the lengths which are cut    *)
(* count VCNs.                                                             *)
(***************************************************************************)
EXTENDS Defragment, FiniteSetTheorems, WellFoundedInduction, TLAPS

-----------------------------------------------------------------------------
(* Numbers.                                                                *)

\* Every set of natural numbers has a least element.
LEMMA LeastNatural ==
    ASSUME NEW T, T \subseteq Nat, T # {}
    PROVE  \E n \in T : \A m \in T : n <= m
<1> DEFINE R == OpToRel(<, Nat)
<1>1. PICK x \in T : \A y \in T : ~ (<<y, x>> \in R)
    <2>1. IsWellFoundedOn(R, Nat)
        BY NatLessThanWellFounded
    <2> HIDE DEF R
    <2> QED
        BY <2>1, WFMin
<1>2. ASSUME NEW y \in T PROVE x <= y
    <2>1. x \in Nat /\ y \in Nat /\ (y < x => <<y, x>> \in R)
        BY DEF OpToRel
    <2> HIDE DEF R
    <2> QED
        BY <1>1, <2>1
<1> QED
    BY <1>2

LEMMA MinIs ==
    ASSUME NEW T, T \subseteq Nat, T # {}
    PROVE  Min(T) \in T /\ \A m \in T : Min(T) <= m
<1>1. \E x \in T : \A y \in T : x =< y
    BY LeastNatural
<1> QED
    BY <1>1 DEF Min

-----------------------------------------------------------------------------
(* The order of the list.                                                  *)

\* Moves do not change which clusters a file has, only where they are.
MapsSized ==
    /\ DOMAIN map = Files
    /\ \A f \in Files :
        /\ DOMAIN map[f] \subseteq Nat /\ IsFiniteSet(DOMAIN map[f])
        /\ Cardinality(DOMAIN map[f]) <= NClusters

LEMMA CountIs ==
    ASSUME MapsSized, NEW f \in Files
    PROVE  /\ Count(map[f]) \in Nat /\ Size(map[f]) \in Nat
           /\ Count(map[f]) <= Size(map[f]) /\ Size(map[f]) <= NClusters
<1>1. IsFiniteSet(DOMAIN map[f]) /\ Cardinality(DOMAIN map[f]) <= NClusters
    BY DEF MapsSized
<1>2. /\ Cardinality({v \in DOMAIN map[f] : Begins(map[f], v)}) \in Nat
      /\ Cardinality({v \in DOMAIN map[f] : Begins(map[f], v)}) <= Cardinality(DOMAIN map[f])
    <2>1. {v \in DOMAIN map[f] : Begins(map[f], v)} \subseteq DOMAIN map[f]
        OBVIOUS
    <2> QED
        BY <1>1, <2>1, FS_Subset, FS_CardinalityType
<1>3. Cardinality(DOMAIN map[f]) \in Nat
    BY <1>1, FS_CardinalityType
<1> QED
    BY <1>1, <1>2, <1>3 DEF Count, Size

\* Precedes is a total order of the files.
LEMMA OrderIsTotal ==
    ASSUME MapsSized, NEW f \in Files, NEW g \in Files
    PROVE  /\ Precedes(f, g) \/ Precedes(g, f) \/ f = g
           /\ ~(Precedes(f, g) /\ Precedes(g, f)) /\ ~Precedes(f, f)
           /\ \A h \in Files : Precedes(f, g) /\ Precedes(g, h) => Precedes(f, h)
<1>1. \A h \in Files : Count(map[h]) \in Nat /\ h \in Nat
    BY CountIs, VolumeAssumption
<1> QED
    BY <1>1 DEF Precedes

LEMMA FirstOfIs ==
    ASSUME MapsSized, NEW S, S \subseteq Files
    PROVE  /\ S = {} => FirstOf(S) = None
           /\ S # {} => /\ FirstOf(S) \in S
                        /\ \A g \in S \ {FirstOf(S)} : Precedes(FirstOf(S), g)
<1>1. CASE S = {}
    BY <1>1 DEF FirstOf
<1>2. CASE S # {}
    <2>1. \A f \in S : /\ Count(map[f]) \in Nat /\ Count(map[f]) <= NClusters
                       /\ NClusters - Count(map[f]) \in Nat /\ f \in Nat
        BY CountIs, VolumeAssumption
    <2>2. PICK f \in S : \A g \in S : NClusters - Count(map[f]) <= NClusters - Count(map[g])
        <3> DEFINE T == {NClusters - Count(map[g]) : g \in S}
        <3>1. T \subseteq Nat /\ T # {}
            BY <1>2, <2>1
        <3> HIDE DEF T
        <3>2. PICK n \in T : \A m \in T : n <= m
            BY <3>1, LeastNatural
        <3> QED
            BY <3>2 DEF T
    <2>3. \A g \in S : Count(map[g]) <= Count(map[f])
        BY <2>1, <2>2, VolumeAssumption
    <2>4. PICK h \in S : /\ Count(map[h]) = Count(map[f])
                         /\ \A g \in S : Count(map[g]) = Count(map[f]) => h <= g
        <3> DEFINE T == {g \in S : Count(map[g]) = Count(map[f])}
        <3>1. T \subseteq Nat /\ T # {}
            BY <2>1
        <3> HIDE DEF T
        <3>2. PICK n \in T : \A m \in T : n <= m
            BY <3>1, LeastNatural
        <3> QED
            BY <3>2 DEF T
    <2>5. \A g \in S \ {h} : Precedes(h, g)
        BY <2>1, <2>3, <2>4 DEF Precedes
    <2> QED
        BY <1>2, <2>5 DEF FirstOf
<1> QED
    BY <1>1, <1>2

\* The file after f is the next of the list: nothing is left out.
LEMMA NextOfIs ==
    ASSUME MapsSized, NEW f \in Files
    PROVE  /\ NextOf(f) \in Listed \cup {None}
           /\ NextOf(f) # None => Precedes(f, NextOf(f))
           /\ \A g \in Listed : NextOf(f) = None \/ Precedes(g, NextOf(f)) => g = f \/ Precedes(g, f)
<1> DEFINE S == {g \in Listed : Precedes(f, g)}
<1>1. S \subseteq Files /\ Listed \subseteq Files /\ NextOf(f) = FirstOf(S)
    BY DEF Listed, NextOf
<1>2. None \notin Files
    BY VolumeAssumption DEF None
<1>3. \A g \in Listed : (g = f \/ Precedes(g, f)) \/ g \in S
    BY <1>1, OrderIsTotal
<1>4. \A g \in S : g \in Listed /\ Precedes(f, g)
    OBVIOUS
<1> HIDE DEF S
<1>5. CASE S = {}
    BY <1>1, <1>3, <1>5, FirstOfIs
<1>6. CASE S # {}
    <2>1. NextOf(f) \in S /\ NextOf(f) # None /\ \A g \in S \ {NextOf(f)} : Precedes(NextOf(f), g)
        BY <1>1, <1>2, <1>6, FirstOfIs
    <2>2. ASSUME NEW g \in Listed, Precedes(g, NextOf(f)) PROVE g \notin S
        <3>1. g \in Files /\ NextOf(f) \in Files
            BY <1>1, <2>1
        <3> QED
            BY <2>1, <2>2, <3>1, OrderIsTotal
    <2> QED
        BY <1>3, <1>4, <2>1, <2>2
<1> QED
    BY <1>5, <1>6

-----------------------------------------------------------------------------
(* The free list.                                                          *)

\* A region is a free range on the volume.
LEMMA RegionIs ==
    ASSUME free \subseteq Clusters, NEW r \in Regions
    PROVE  /\ r = [lcn |-> r.lcn, length |-> r.length]
           /\ r.lcn \in Nat /\ r.length \in Nat \ {0} /\ r.lcn + r.length <= NClusters
           /\ r.lcn .. r.lcn + r.length - 1 \subseteq free
<1>1. PICK c \in {d \in free : d - 1 \notin free} :
            r = [lcn |-> c, length |-> Min({n \in 1 .. NClusters : c + n \notin free})]
    BY DEF Regions
<1> DEFINE ends == {n \in 1 .. NClusters : c + n \notin free}
<1>2. c \in Nat /\ c < NClusters /\ NClusters \in Nat /\ NClusters - c \in ends /\ c \in free
    BY VolumeAssumption DEF Clusters
<1>3. ends \subseteq Nat /\ \A n \in ends : n \in 1 .. NClusters
    BY VolumeAssumption
<1>4. r.lcn = c /\ r.length = Min(ends) /\ r = [lcn |-> r.lcn, length |-> r.length]
    BY <1>1
<1>5. Min(ends) \in ends /\ \A m \in ends : Min(ends) <= m
    <2> HIDE DEF ends
    <2> QED
        BY <1>2, <1>3, MinIs
<1> DEFINE n == Min(ends)
<1>6. n \in 1 .. NClusters /\ n <= NClusters - c
    BY <1>2, <1>3, <1>5
<1>7. ASSUME NEW d \in c .. c + n - 1 PROVE d \in free
    <2>1. d - c \in Nat /\ d - c < n /\ d = c + (d - c)
        BY <1>2, <1>6
    <2>2. CASE d - c = 0
        BY <1>2, <2>1, <2>2
    <2>3. CASE d - c # 0
        <3>1. d - c \in 1 .. NClusters /\ d - c \notin ends
            <4>1. ~ (n <= d - c)
                BY <1>6, <2>1
            <4> HIDE DEF n, ends
            <4> QED
                BY <1>2, <1>5, <1>6, <2>1, <2>3, <4>1 DEF n
        <3> QED
            BY <2>1, <3>1
    <2> QED
        BY <2>2, <2>3
<1> HIDE DEF n, ends
<1> QED
    BY <1>2, <1>4, <1>6, <1>7 DEF n

\* So is what find_first_free_region finds, behind min_lcn and long enough.
LEMMA FirstRegionIs ==
    ASSUME free \subseteq Clusters, NEW a \in Nat, NEW n \in Nat, NEW c \in FirstRegion(a, n)
    PROVE  /\ ~stopped /\ c \in Nat /\ c >= a /\ c < NClusters /\ c + n <= NClusters
           /\ c .. c + n - 1 \subseteq free
<1> DEFINE fits == {r.lcn : r \in {q \in Regions : q.lcn >= a /\ q.length >= n}}
<1>1. ~stopped /\ fits # {} /\ c = Min(fits)
    BY DEF FirstRegion
<1>2. fits \subseteq Nat
    BY RegionIs
<1>3. c \in fits
    <2> HIDE DEF fits
    <2> QED
        BY <1>1, <1>2, MinIs
<1>4. PICK r \in Regions : c = r.lcn /\ r.lcn >= a /\ r.length >= n
    BY <1>3
<1>5. /\ r.lcn \in Nat /\ r.length \in Nat \ {0} /\ r.lcn + r.length <= NClusters
      /\ r.lcn .. r.lcn + r.length - 1 \subseteq free
    BY <1>4, RegionIs
<1>6. c .. c + n - 1 \subseteq free
    BY <1>4, <1>5
<1> QED
    BY <1>1, <1>4, <1>5, <1>6, VolumeAssumption

\* A search that is not stopped finds room where there is some.
LEMMA NoTargets ==
    ASSUME free \subseteq Clusters, NEW n \in Nat \ {0}
    PROVE  Targets(n) = {} <=> stopped \/ \A c \in Clusters : ~(c .. c + n - 1 \subseteq free)
<1>1. ASSUME Targets(n) # {}
      PROVE  ~stopped /\ \E c \in Clusters : c .. c + n - 1 \subseteq free
    <2>1. PICK c \in FirstRegion(0, n) : TRUE
        BY <1>1 DEF Targets
    <2>2. ~stopped /\ c \in Nat /\ c < NClusters /\ c .. c + n - 1 \subseteq free
        <3>1. 0 \in Nat /\ n \in Nat
            OBVIOUS
        <3> QED
            BY <2>1, <3>1, FirstRegionIs
    <2> QED
        BY <2>2, VolumeAssumption DEF Clusters
<1>2. ASSUME ~stopped, NEW c \in Clusters, c .. c + n - 1 \subseteq free
      PROVE  Targets(n) # {}
    <2> DEFINE T == {x \in 0 .. c : x .. c \subseteq free}
    <2>1. c \in Nat /\ c \in free /\ free \subseteq Nat
        BY <1>2, VolumeAssumption DEF Clusters
    <2>2. T \subseteq Nat /\ c \in T
        <3>1. c .. c \subseteq free
            BY <2>1
        <3> QED
            BY <2>1, <3>1
    <2>3. PICK d \in T : \A x \in T : d <= x
        <3> HIDE DEF T
        <3> QED
            BY <2>2, LeastNatural
    <2>4. d \in Nat /\ d <= c /\ d .. c \subseteq free /\ d \in free
        BY <2>1, <2>3
    <2>5. d - 1 \notin free
        <3> SUFFICES ASSUME d - 1 \in free PROVE FALSE
            OBVIOUS
        <3>1. d - 1 \in Nat
            BY <2>1
        <3>2. d - 1 .. c \subseteq free
            BY <2>4
        <3>3. d - 1 \in T
            BY <2>1, <2>4, <3>1, <3>2
        <3> QED
            BY <2>3, <2>4, <3>3
    <2> DEFINE ends == {k \in 1 .. NClusters : d + k \notin free}
    <2>6. ends \subseteq Nat /\ NClusters - d \in ends
        BY <2>4, VolumeAssumption DEF Clusters
    <2>7. Min(ends) \in ends
        <3> HIDE DEF ends
        <3> QED
            BY <2>6, MinIs
    <2> DEFINE r == [lcn |-> d, length |-> Min(ends)]
    <2>8. r \in Regions
        BY <2>4, <2>5 DEF Regions
    <2>9. r.length \in Nat /\ r.length >= n /\ r.lcn = d
        <3>1. Min(ends) \in Nat /\ d + Min(ends) \notin free
            BY <2>7
        <3>2. \A x \in d .. c + n - 1 : x \in free
            <4>1. ASSUME NEW x \in d .. c + n - 1 PROVE x \in d .. c \/ x \in c .. c + n - 1
                BY <2>1, <2>4
            <4> QED
                BY <4>1, <1>2, <2>4
        <3>3. d + Min(ends) > c + n - 1
            <4> HIDE DEF ends
            <4> QED
                BY <2>1, <2>4, <3>1, <3>2
        <3> HIDE DEF ends
        <3> QED
            BY <2>1, <2>4, <3>1, <3>3
    <2> HIDE DEF ends, r
    <2>10. d \in {q.lcn : q \in {p \in Regions : p.lcn >= 0 /\ p.length >= n}}
        BY <2>4, <2>8, <2>9
    <2> QED
        BY <1>2, <2>10 DEF Targets, FirstRegion
<1> QED
    BY <1>1, <1>2

\* No room appears while the free list shrinks.
NoRoom(n) == stopped \/ \A c \in Clusters : ~(c .. c + n - 1 \subseteq free)

RoomKnown == free \subseteq Clusters => \A n \in Nat \ {0} : Targets(n) = {} <=> NoRoom(n)

LEMMA RoomIs == RoomKnown
BY NoTargets DEF NoRoom, RoomKnown

LEMMA RoomShrinks ==
    ASSUME free \subseteq Clusters, free' \subseteq free, stopped => stopped',
           NEW n \in Nat \ {0}, Targets(n) = {}
    PROVE  Targets(n)' = {}
<1>1. RoomKnown'
    BY RoomIs, PTL
<1>2. NoRoom(n)
    BY RoomIs DEF RoomKnown
<1>3. NoRoom(n)'
    BY <1>2 DEF NoRoom, Clusters
<1>4. (free \subseteq Clusters)'
    BY DEF Clusters
<1> QED
    BY <1>1, <1>3, <1>4 DEF RoomKnown

-----------------------------------------------------------------------------
(* What a pass has behind it.                                              *)

\* f is not reached any more when g is the next file.
Passed(f, g) == g = None \/ Precedes(f, g)
Current == IF pc = "fragments" THEN next ELSE file

\* The file had its chance.
Hopeless(f) == f \in failed \cup stuck \/ (Entirely(f) => Targets(Size(map[f])) = {})

PassTypes ==
    /\ MapsSized /\ tried \subseteq Files
    /\ file \in Files \cup {None} /\ next \in Files \cup {None}
    /\ pc = "fragments" => file \in Files /\ next # file

\* Nothing has been moved in this pass.  A move which has failed may have
\* taken some of the file elsewhere.
Fruitless ==
    pc \in {"files", "fragments"} /\ ~moved =>
        /\ free \subseteq Clusters
        /\ \A f \in tried : f \in failed \cup stuck \/ Passed(f, Current)
        /\ \A f \in Listed : Passed(f, Current) /\ (pc = "fragments" => f # file) => Hopeless(f)
        /\ pc = "fragments" =>
              /\ file \in failed \cup stuck \/ ~Entirely(file)
              /\ file \in failed \cup stuck \/ Passed(file, next)

PassInv == PassTypes /\ Fruitless

LEMMA MoveIs ==
    ASSUME MapsSized, NEW f \in Files, NEW vcn, NEW length, NEW lcn,
           MoveFile(f, vcn, length, lcn)
    PROVE  /\ MapsSized' /\ fs' = fs
           /\ \A g \in Files : g # f => map'[g] = map[g]
           /\ \/ moved' = TRUE
              \/ /\ moved' = moved /\ free' \subseteq free
                 /\ failed \subseteq failed' /\ stuck \subseteq stuck' /\ f \in failed' \cup stuck'
<1>1. \A m, chain : DOMAIN Relocated(m, chain, lcn) = DOMAIN m
    BY DEF Relocated
<1>2. CASE Success(f, vcn, length, lcn)
    <2>1. /\ fs' = fs /\ moved' = TRUE
          /\ map' = [map EXCEPT ![f] = Relocated(map[f], Chain(map[f], vcn, length), lcn)]
        BY <1>2 DEF Success
    <2> QED
        BY <1>1, <2>1 DEF MapsSized
<1>3. CASE Failure(f, vcn, length, lcn)
    <2>1. PICK n : map' = [map EXCEPT ![f] = Relocated(map[f], Chain(map[f], vcn, n), lcn)]
        BY <1>3 DEF Failure, Partly
    <2>2. /\ fs' = fs /\ moved' \in {moved, TRUE} /\ stuck' = stuck
          /\ failed' = failed \cup {f} /\ free' \subseteq free
        BY <1>3 DEF Failure, Partly
    <2> QED
        BY <1>1, <2>1, <2>2 DEF MapsSized
<1>4. CASE Reject(f, vcn, length, lcn) \/ Locked(f, vcn, length, lcn)
    BY <1>4 DEF Reject, Locked, disk, MapsSized
<1> QED
    BY <1>2, <1>3, <1>4 DEF MoveFile, MoveFails

\* What the list and its order say of a file that has not been moved.
LEMMA SameFile ==
    ASSUME NEW f \in Files, map'[f] = map[f], fs' = fs, threshold' = threshold,
           setting' = setting
    PROVE  /\ (f \in Listed)' <=> f \in Listed
           /\ Entirely(f)' <=> Entirely(f)
<1>1. CountLittle(map[f])' = CountLittle(map[f])
    BY DEF CountLittle, Little
<1>2. Filtered(map[f])' <=> Filtered(map[f])
    BY <1>1 DEF Filtered
<1> QED
    BY <1>2 DEF Listed, Entirely

\* A chance that has been missed does not come back.
LEMMA ChanceMissed ==
    ASSUME MapsSized, free \subseteq Clusters, free' \subseteq free, stopped => stopped',
           failed \subseteq failed', stuck \subseteq stuck',
           fs' = fs, threshold' = threshold, setting' = setting,
           NEW f \in Listed, map'[f] = map[f], Hopeless(f)
    PROVE  Hopeless(f)'
<1>1. f \in Files /\ Fragmented(map[f])
    BY DEF Listed
<1>2. Entirely(f)' <=> Entirely(f)
    BY <1>1, SameFile
<1>3. Size(map[f]) \in Nat \ {0}
    BY <1>1, CountIs DEF Fragmented
<1>4. (Targets(Size(map[f])) = {}) => (Targets(Size(map[f])) = {})'
    <2>1. Size(map[f])' = Size(map[f])
        BY DEF Size
    <2> DEFINE n == Size(map[f])
    <2> HIDE DEF n
    <2>2. n \in Nat \ {0} /\ n' = n
        BY <1>3, <2>1 DEF n
    <2>3. ASSUME Targets(n) = {} PROVE Targets(n)' = {}
        BY <2>2, <2>3, RoomShrinks
    <2> QED
        BY <2>3 DEF n
<1> QED
    BY <1>2, <1>4 DEF Hopeless

-----------------------------------------------------------------------------
(* The steps.                                                              *)

LEMMA PassInit == Init => PassInv
<1> SUFFICES ASSUME Init PROVE PassInv
    OBVIOUS
<1>1. PICK s \in Scenarios : map = s.map
    BY DEF Init
<1>2. MapsSized
    <2>1. ASSUME NEW f \in Files
          PROVE  /\ DOMAIN map[f] \subseteq Nat /\ IsFiniteSet(DOMAIN map[f])
                 /\ Cardinality(DOMAIN map[f]) <= NClusters
        <3> DEFINE m == map[f]
        <3>1. /\ DOMAIN m \subseteq Nat /\ IsFiniteSet(DOMAIN m)
              /\ \A v \in DOMAIN m : m[v] \in 0 .. NClusters - 1
              /\ \A v, w \in DOMAIN m : m[v] = m[w] => v = w
            BY <1>1, ScenariosAssumption DEF Clusters
        <3>2. [v \in DOMAIN m |-> m[v]] \in Injection(DOMAIN m, 0 .. NClusters - 1)
            BY <3>1 DEF Injection, IsInjective
        <3>3. IsFiniteSet(0 .. NClusters - 1) /\ Cardinality(0 .. NClusters - 1) = NClusters
            BY VolumeAssumption, FS_Interval
        <3> HIDE DEF m
        <3>4. Cardinality(DOMAIN m) <= NClusters
            BY <3>2, <3>3, FS_Injection
        <3> QED
            BY <3>1, <3>4 DEF m
    <2> QED
        BY <1>1, <2>1, ScenariosAssumption DEF MapsSized
<1> QED
    BY <1>2 DEF Init, PassInv, PassTypes, Fruitless

LEMMA BeginPassKeeps == PassInv /\ BeginPass => PassInv'
<1> SUFFICES ASSUME PassInv, BeginPass PROVE PassInv'
    OBVIOUS
<1>1. /\ map' = map /\ fs' = fs /\ threshold' = threshold /\ setting' = setting
      /\ tried' = {} /\ next' = next /\ pc' = "files" /\ file' = FirstOf(Listed)
      /\ free' = Released /\ Listed # {}
    BY DEF BeginPass
<1>2. MapsSized /\ Listed \subseteq Files /\ free' \subseteq Clusters
    BY <1>1 DEF PassInv, PassTypes, Listed, Released
<1>3. file' \in Listed /\ \A g \in Listed \ {file'} : Precedes(file', g)
    BY <1>1, <1>2, FirstOfIs
<1>4. MapsSized'
    BY <1>1, <1>2 DEF MapsSized
<1>5. PassTypes'
    BY <1>1, <1>2, <1>3, <1>4 DEF PassTypes, PassInv
<1>6. ASSUME NEW f \in Listed' PROVE ~Passed(f, file)'
    <2>1. f \in Files
        BY DEF Listed
    <2>2. f \in Listed
        BY <1>1, <2>1, SameFile
    <2>3. Passed(f, file)' <=> Passed(f, file')
        BY <1>1 DEF Passed, Precedes
    <2>4. file' # None
        BY <1>2, <1>3, VolumeAssumption DEF None
    <2>5. ~Precedes(f, file')
        BY <1>2, <1>3, <2>1, <2>2, OrderIsTotal
    <2> QED
        BY <2>3, <2>4, <2>5 DEF Passed
<1>7. Current' = file'
    BY <1>1 DEF Current
<1>8. Fruitless'
    BY <1>1, <1>2, <1>6, <1>7 DEF Fruitless, Clusters
<1> QED
    BY <1>5, <1>8 DEF PassInv

\* A file is done without success, and the next one of the list is its turn.
LEMMA Onward ==
    ASSUME PassInv, pc = "files", file \in Files, ~moved, PassTypes',
           pc' = "files", file' = NextOf(file), tried' = tried \cup {file},
           free' \subseteq free, stopped => stopped',
           failed \subseteq failed', stuck \subseteq stuck',
           fs' = fs, threshold' = threshold, setting' = setting,
           \A g \in Files : g # file => map'[g] = map[g],
           \/ file \in failed' \cup stuck'
           \/ map' = map /\ (file \in Listed => Hopeless(file))
    PROVE  Fruitless'
<1>1. /\ MapsSized /\ MapsSized' /\ free \subseteq Clusters /\ tried \subseteq Files
      /\ \A f \in tried : f \in failed \cup stuck \/ Passed(f, file)
      /\ \A f \in Listed : Passed(f, file) => Hopeless(f)
    BY DEF PassInv, PassTypes, Fruitless, Current
<1>2. file # None
    BY VolumeAssumption DEF None
<1> DEFINE n == NextOf(file)
<1>3. /\ n \in Files \cup {None} /\ (n # None => Precedes(file, n)) /\ n # file
      /\ \A g \in Listed : Passed(g, n) => g = file \/ Precedes(g, file)
    <2>1. /\ n \in Listed \cup {None} /\ (n # None => Precedes(file, n))
          /\ \A g \in Listed : n = None \/ Precedes(g, n) => g = file \/ Precedes(g, file)
        BY <1>1, NextOfIs
    <2>2. n # file
        BY <1>1, <1>2, <2>1, OrderIsTotal
    <2> QED
        BY <2>1, <2>2 DEF Passed, Listed
<1> HIDE DEF n
<1>4. file' = n /\ (n # None => map'[n] = map[n])
    BY <1>3 DEF n
<1>5. ASSUME NEW f \in tried'
      PROVE  (f \in failed \cup stuck \/ Passed(f, file))'
    <2>1. CASE f \in failed' \cup stuck'
        BY <2>1
    <2>2. CASE f \notin failed' \cup stuck' /\ f # file
        <3>1. f \in Files /\ Passed(f, file) /\ map'[f] = map[f]
            BY <1>1, <2>2
        <3>2. n # None => Precedes(f, n)
            BY <1>1, <1>2, <1>3, <3>1, OrderIsTotal DEF Passed
        <3>3. Passed(f, n)
            BY <3>2 DEF Passed
        <3>4. Passed(f, file)' <=> Passed(f, n)
            BY <1>3, <1>4, <3>1 DEF Passed, Precedes
        <3> QED
            BY <3>3, <3>4
    <2>3. CASE f \notin failed' \cup stuck' /\ f = file
        <3>1. map' = map /\ Passed(file, n)
            BY <2>3, <1>3 DEF Passed
        <3>2. Passed(f, file)' <=> Passed(f, n)
            BY <1>4, <3>1 DEF Passed, Precedes
        <3> QED
            BY <2>3, <3>1, <3>2
    <2> QED
        BY <2>1, <2>2, <2>3
<1>6. ASSUME NEW f \in Listed', Passed(f, file)'
      PROVE  Hopeless(f)'
    <2>1. CASE f \in failed' \cup stuck'
        BY <2>1 DEF Hopeless
    <2>2. CASE f \notin failed' \cup stuck'
        <3>1. f \in Files /\ map'[f] = map[f]
            BY <2>2 DEF Listed
        <3>2. f \in Listed
            BY <3>1, SameFile
        <3>3. Passed(f, n)
            BY <1>3, <1>4, <1>6, <3>1 DEF Passed, Precedes
        <3>4. Hopeless(f)
            <4>1. CASE f = file
                BY <2>2, <3>2, <4>1
            <4>2. CASE f # file
                BY <1>1, <1>3, <3>2, <3>3, <4>2 DEF Passed
            <4> QED
                BY <4>1, <4>2
        <3> QED
            BY <1>1, <3>1, <3>2, <3>4, ChanceMissed
    <2> QED
        BY <2>1, <2>2
<1>7. Current' = file' /\ free' \subseteq Clusters
    BY <1>1 DEF Current
<1>8. \A f \in tried' : (f \in failed \cup stuck \/ Passed(f, Current))'
    BY <1>5, <1>7 DEF Passed, Precedes
<1>9. \A f \in Listed' : Passed(f, Current)' => Hopeless(f)'
    BY <1>6, <1>7 DEF Passed, Precedes
<1> QED
    BY <1>7, <1>8, <1>9 DEF Fruitless, Clusters

LEMMA InFilesIs ==
    ASSUME PassInv, InFiles
    PROVE  /\ pc = "files" /\ file \in Files /\ MapsSized /\ ~stopped
           /\ NextOf(file) \in Files \cup {None}
BY NextOfIs DEF PassInv, PassTypes, InFiles, Listed

LEMMA SkipFileKeeps == PassInv /\ SkipFile => PassInv'
<1> SUFFICES ASSUME PassInv, SkipFile PROVE PassInv'
    OBVIOUS
<1>1. /\ InFiles /\ pc' = "files" /\ file' = NextOf(file) /\ tried' = tried \cup {file}
      /\ next' = None /\ UNCHANGED <<fs, map, free, setting, failed, stuck, moved, threshold, stopped>>
      /\ ~CanDefragment(file) \/ (Entirely(file) /\ Targets(Size(map[file])) = {})
    BY DEF SkipFile, Complete, volume, disk
<1>2. pc = "files" /\ file \in Files /\ MapsSized /\ NextOf(file) \in Files \cup {None}
    BY <1>1, InFilesIs
<1>3. PassTypes'
    BY <1>1, <1>2 DEF PassTypes, MapsSized, PassInv
<1>4. CASE moved
    BY <1>1, <1>3, <1>4 DEF PassInv, Fruitless
<1>5. CASE ~moved
    <2>1. file \in Listed => Hopeless(file)
        <3>1. ~Passed(file, file)
            BY <1>2, OrderIsTotal, VolumeAssumption DEF Passed, None
        <3>2. file \in tried => file \in failed \cup stuck
            BY <1>2, <1>5, <3>1 DEF PassInv, Fruitless, Current
        <3> QED
            BY <1>1, <3>2 DEF Hopeless, CanDefragment, Listed
    <2>2. Fruitless'
        BY <1>1, <1>2, <1>3, <1>5, <2>1, Onward
    <2> QED
        BY <1>3, <2>2 DEF PassInv
<1> QED
    BY <1>4, <1>5

LEMMA MoveEntirelyKeeps == PassInv /\ MoveEntirely => PassInv'
<1> SUFFICES ASSUME PassInv, MoveEntirely PROVE PassInv'
    OBVIOUS
<1>1. /\ InFiles /\ pc' = "files" /\ file' = NextOf(file) /\ tried' = tried \cup {file}
      /\ next' = None /\ UNCHANGED <<setting, threshold, stopped>>
    BY DEF MoveEntirely, Complete
<1>2. pc = "files" /\ file \in Files /\ MapsSized /\ NextOf(file) \in Files \cup {None}
    BY <1>1, InFilesIs
<1>3. /\ MapsSized' /\ fs' = fs
      /\ \A g \in Files : g # file => map'[g] = map[g]
      /\ \/ moved' = TRUE
         \/ /\ moved' = moved /\ free' \subseteq free
            /\ failed \subseteq failed' /\ stuck \subseteq stuck' /\ file \in failed' \cup stuck'
    <2>1. PICK lcn : MoveFile(file, FirstVcn(map[file]), Size(map[file]), lcn)
        BY DEF MoveEntirely
    <2> QED
        BY <1>2, <2>1, MoveIs
<1>4. PassTypes'
    BY <1>1, <1>2, <1>3 DEF PassTypes, PassInv
<1>5. CASE moved'
    BY <1>1, <1>4, <1>5 DEF PassInv, Fruitless
<1>6. CASE ~moved'
    <2>1. Fruitless'
        BY <1>1, <1>2, <1>3, <1>4, <1>6, Onward
    <2> QED
        BY <1>4, <2>1 DEF PassInv
<1> QED
    BY <1>5, <1>6

LEMMA EnterFileKeeps == PassInv /\ EnterFile => PassInv'
<1> SUFFICES ASSUME PassInv, EnterFile PROVE PassInv'
    OBVIOUS
<1>1. /\ InFiles /\ ~Entirely(file) /\ next' = NextOf(file) /\ pc' = "fragments"
      /\ UNCHANGED <<fs, map, free, setting, failed, stuck, tried, file, moved, threshold, stopped>>
    BY DEF EnterFile, volume, disk, flags
<1>2. pc = "files" /\ file \in Files /\ MapsSized /\ NextOf(file) \in Files \cup {None}
    BY <1>1, InFilesIs
<1> DEFINE n == NextOf(file)
<1>3. /\ (n # None => Precedes(file, n)) /\ n # file
      /\ \A g \in Listed : Passed(g, n) => g = file \/ Precedes(g, file)
    <2>1. /\ n # None => Precedes(file, n)
          /\ \A g \in Listed : n = None \/ Precedes(g, n) => g = file \/ Precedes(g, file)
        BY <1>2, NextOfIs
    <2>2. n # file
        BY <1>2, <2>1, OrderIsTotal, VolumeAssumption DEF None
    <2> QED
        BY <2>1, <2>2 DEF Passed
<1> HIDE DEF n
<1>4. PassTypes'
    BY <1>1, <1>2, <1>3 DEF PassTypes, MapsSized, PassInv, n
<1>5. CASE moved
    BY <1>1, <1>4, <1>5 DEF PassInv, Fruitless
<1>6. CASE ~moved
    <2>1. /\ free \subseteq Clusters /\ tried \subseteq Files
          /\ \A f \in tried : f \in failed \cup stuck \/ Passed(f, file)
          /\ \A f \in Listed : Passed(f, file) => Hopeless(f)
        BY <1>2, <1>6 DEF PassInv, PassTypes, Fruitless, Current
    <2>2. next' = n /\ n \in Files \cup {None} /\ file # None
        BY <1>1, <1>2, VolumeAssumption DEF n, None
    <2>3. ASSUME NEW f PROVE Passed(f, next)' <=> Passed(f, n)
        BY <1>1, <2>2 DEF Passed, Precedes
    <2>4. ASSUME NEW f \in tried PROVE f \in failed \cup stuck \/ Passed(f, n)
        BY <1>2, <1>3, <2>1, <2>2, <2>4, OrderIsTotal DEF Passed
    <2>5. ASSUME NEW f \in Listed', Passed(f, n), f # file PROVE Hopeless(f)'
        <3>1. f \in Files
            BY DEF Listed
        <3>2. f \in Listed
            BY <1>1, <3>1, SameFile
        <3>3. Hopeless(f)
            BY <1>3, <2>1, <2>5, <3>2 DEF Passed
        <3> QED
            BY <1>1, <1>2, <2>1, <3>2, <3>3, ChanceMissed
    <2>6. Entirely(file)' <=> Entirely(file)
        BY <1>1, <1>2, SameFile
    <2>7. Current' = next' /\ Passed(file, n)
        BY <1>1, <1>3 DEF Current, Passed
    <2>8. \A f \in tried' : (f \in failed \cup stuck \/ Passed(f, Current))'
        BY <1>1, <2>3, <2>4, <2>7 DEF Passed, Precedes
    <2>9. \A f \in Listed' : Passed(f, Current)' /\ f # file' => Hopeless(f)'
        <3>1. \A f : Passed(f, Current)' <=> Passed(f, next)'
            BY <2>7 DEF Passed, Precedes
        <3> QED
            BY <1>1, <2>3, <2>5, <3>1
    <2>10. Passed(file, next)'
        <3>1. Passed(file, next)' <=> Passed(file, next')
            BY <1>1 DEF Passed, Precedes
        <3> QED
            BY <2>2, <2>7, <3>1
    <2>11. Fruitless'
        BY <1>1, <2>1, <2>6, <2>8, <2>9, <2>10 DEF Fruitless, Clusters
    <2> QED
        BY <1>4, <2>11 DEF PassInv
<1> QED
    BY <1>5, <1>6

\* While the fragments of a file are joined nothing but that file changes.
LEMMA WithinFile ==
    ASSUME PassInv, pc = "fragments", pc' = "fragments", PassTypes', ~moved,
           UNCHANGED <<tried, file, next, threshold, setting>>,
           free' \subseteq free, stopped => stopped',
           failed \subseteq failed', stuck \subseteq stuck', fs' = fs,
           \A g \in Files : g # file => map'[g] = map[g],
           map' = map \/ file \in failed' \cup stuck'
    PROVE  Fruitless'
<1>1. /\ MapsSized /\ free \subseteq Clusters /\ tried \subseteq Files
      /\ file \in Files /\ next \in Files \cup {None} /\ next # file
      /\ \A f \in tried : f \in failed \cup stuck \/ Passed(f, next)
      /\ \A f \in Listed : Passed(f, next) /\ f # file => Hopeless(f)
      /\ file \in failed \cup stuck \/ ~Entirely(file)
      /\ file \in failed \cup stuck \/ Passed(file, next)
    BY DEF PassInv, PassTypes, Fruitless, Current
<1>2. next' = next /\ (next # None => map'[next] = map[next])
    BY <1>1
<1>3. ASSUME NEW f \in Files, map'[f] = map[f] PROVE Passed(f, next)' <=> Passed(f, next)
    BY <1>1, <1>2, <1>3 DEF Passed, Precedes
<1>4. ASSUME NEW f \in tried' PROVE (f \in failed \cup stuck \/ Passed(f, next))'
    BY <1>1, <1>3
<1>5. ASSUME NEW f \in Listed', Passed(f, next)', f # file PROVE Hopeless(f)'
    <2>1. f \in Files /\ map'[f] = map[f]
        BY <1>5 DEF Listed
    <2>2. f \in Listed /\ Passed(f, next)
        BY <1>3, <1>5, <2>1, SameFile
    <2>3. Hopeless(f)
        BY <1>1, <1>5, <2>2
    <2> QED
        BY <1>1, <2>1, <2>2, <2>3, ChanceMissed
<1>6. (file \in failed \cup stuck \/ ~Entirely(file))'
    <2>1. CASE file \in failed' \cup stuck'
        BY <2>1
    <2>2. CASE file \notin failed' \cup stuck'
        BY <1>1, <2>2, SameFile
    <2> QED
        BY <2>1, <2>2
<1>7. (file \in failed \cup stuck \/ Passed(file, next))'
    <2>1. CASE file \in failed' \cup stuck'
        BY <2>1
    <2>2. CASE file \notin failed' \cup stuck'
        BY <1>1, <1>3, <2>2
    <2> QED
        BY <2>1, <2>2
<1>8. Current' = next' /\ free' \subseteq Clusters
    BY <1>1 DEF Current
<1>9. \A f : Passed(f, Current)' <=> Passed(f, next)'
    BY <1>8 DEF Passed, Precedes
<1> QED
    BY <1>4, <1>5, <1>6, <1>7, <1>8, <1>9 DEF Fruitless, Clusters

LEMMA NothingToJoinKeeps == PassInv /\ NothingToJoin => PassInv'
<1> SUFFICES ASSUME PassInv, NothingToJoin PROVE PassInv'
    OBVIOUS
<1>1. /\ pc = "fragments" /\ pc' = "fragments"
      /\ UNCHANGED <<fs, map, free, setting, failed, stuck, tried, file, next, moved, threshold, stopped>>
    BY DEF NothingToJoin, Unfinished, volume, disk, flags, control
<1>2. PassTypes'
    BY <1>1 DEF PassInv, PassTypes, MapsSized
<1>3. Fruitless'
    <2>1. CASE moved
        BY <1>1, <2>1 DEF Fruitless
    <2>2. CASE ~moved
        BY <1>1, <1>2, <2>2, WithinFile
    <2> QED
        BY <2>1, <2>2
<1> QED
    BY <1>2, <1>3 DEF PassInv

LEMMA JoinFragmentsKeeps == PassInv /\ JoinFragments => PassInv'
<1> SUFFICES ASSUME PassInv, JoinFragments PROVE PassInv'
    OBVIOUS
<1>1. /\ pc = "fragments" /\ pc' = "fragments"
      /\ UNCHANGED <<setting, tried, file, next, threshold, stopped>>
    BY DEF JoinFragments, Unfinished, control
<1>2. file \in Files /\ MapsSized
    BY <1>1 DEF PassInv, PassTypes
<1>3. PICK c : IF Targets(c.length) = {} THEN UNCHANGED moves
               ELSE \E lcn \in Targets(c.length) : MoveFile(file, c.vcn, c.length, lcn)
    BY DEF JoinFragments
<1>4. /\ MapsSized' /\ fs' = fs
      /\ \A g \in Files : g # file => map'[g] = map[g]
      /\ \/ moved' = TRUE
         \/ /\ moved' = moved /\ free' \subseteq free
            /\ failed \subseteq failed' /\ stuck \subseteq stuck'
            /\ map' = map \/ file \in failed' \cup stuck'
    <2>1. CASE UNCHANGED moves
        BY <1>2, <2>1 DEF moves, disk, MapsSized
    <2>2. ASSUME NEW lcn, MoveFile(file, c.vcn, c.length, lcn)
          PROVE  /\ MapsSized' /\ fs' = fs
                 /\ \A g \in Files : g # file => map'[g] = map[g]
                 /\ \/ moved' = TRUE
                    \/ /\ moved' = moved /\ free' \subseteq free
                       /\ failed \subseteq failed' /\ stuck \subseteq stuck'
                       /\ file \in failed' \cup stuck'
        BY <1>2, <2>2, MoveIs
    <2> QED
        BY <1>3, <2>1, <2>2
<1>5. PassTypes'
    BY <1>1, <1>2, <1>4 DEF PassTypes, PassInv
<1>6. CASE moved'
    BY <1>5, <1>6 DEF PassInv, Fruitless
<1>7. CASE ~moved'
    <2>1. Fruitless'
        BY <1>1, <1>4, <1>5, <1>7, WithinFile
    <2> QED
        BY <1>5, <2>1 DEF PassInv
<1> QED
    BY <1>6, <1>7

LEMMA LeaveFileKeeps == PassInv /\ LeaveFile => PassInv'
<1> SUFFICES ASSUME PassInv, LeaveFile PROVE PassInv'
    OBVIOUS
<1>1. /\ pc = "fragments" /\ pc' = "files" /\ file' = next /\ tried' = tried \cup {file}
      /\ next' = None /\ UNCHANGED <<fs, map, free, setting, failed, stuck, moved, threshold, stopped>>
    BY DEF LeaveFile, Complete, volume, disk
<1>2. MapsSized /\ file \in Files /\ next \in Files \cup {None}
    BY <1>1 DEF PassInv, PassTypes
<1>3. PassTypes'
    BY <1>1, <1>2 DEF PassInv, PassTypes, MapsSized
<1>4. CASE moved
    BY <1>1, <1>3, <1>4 DEF PassInv, Fruitless
<1>5. CASE ~moved
    <2>1. /\ free \subseteq Clusters
          /\ \A f \in tried \cup {file} : f \in failed \cup stuck \/ Passed(f, next)
          /\ \A f \in Listed : Passed(f, next) => Hopeless(f)
        BY <1>1, <1>5 DEF PassInv, Fruitless, Current, Hopeless
    <2>2. \A f : Passed(f, Current)' <=> Passed(f, next)
        BY <1>1 DEF Current, Passed, Precedes
    <2>3. ASSUME NEW f \in Listed', Passed(f, next) PROVE Hopeless(f)'
        <3>1. f \in Files
            BY DEF Listed
        <3>2. f \in Listed
            BY <1>1, <3>1, SameFile
        <3> QED
            BY <1>1, <1>2, <2>1, <2>3, <3>2, ChanceMissed
    <2>4. Fruitless'
        BY <1>1, <2>1, <2>2, <2>3 DEF Fruitless, Clusters
    <2> QED
        BY <1>3, <2>4 DEF PassInv
<1> QED
    BY <1>4, <1>5

LEMMA StopJobKeeps == PassInv /\ (StopJob \/ UNCHANGED vars) => PassInv'
<1> SUFFICES ASSUME PassInv, StopJob \/ UNCHANGED vars PROVE PassInv'
    OBVIOUS
<1>1. /\ UNCHANGED <<fs, map, free, setting, failed, stuck, tried, file, next, pc, moved, threshold>>
      /\ stopped => stopped'
    BY DEF StopJob, Stop, vars, volume, disk, flags, pass, control
<1>2. PassTypes'
    BY <1>1 DEF PassInv, PassTypes, MapsSized
<1>3. CASE moved \/ pc \notin {"files", "fragments"}
    BY <1>1, <1>2, <1>3 DEF PassInv, Fruitless
<1>4. CASE ~moved /\ pc = "fragments"
    BY <1>1, <1>2, <1>4, WithinFile DEF PassInv
<1>5. CASE ~moved /\ pc = "files"
    <2>1. /\ free \subseteq Clusters /\ MapsSized
          /\ \A f \in tried : f \in failed \cup stuck \/ Passed(f, file)
          /\ \A f \in Listed : Passed(f, file) => Hopeless(f)
        BY <1>5 DEF PassInv, PassTypes, Fruitless, Current
    <2>2. \A f : Passed(f, Current)' <=> Passed(f, file)
        BY <1>1, <1>5 DEF Current, Passed, Precedes
    <2>3. ASSUME NEW f \in Listed', Passed(f, file) PROVE Hopeless(f)'
        <3>1. f \in Files
            BY DEF Listed
        <3>2. f \in Listed
            BY <1>1, <3>1, SameFile
        <3> QED
            BY <1>1, <2>1, <2>3, <3>2, ChanceMissed
    <2>4. Fruitless'
        BY <1>1, <1>5, <2>1, <2>2, <2>3 DEF Fruitless, Clusters
    <2> QED
        BY <1>2, <2>4 DEF PassInv
<1> QED
    BY <1>3, <1>4, <1>5

\* Outside of a pass there is nothing to keep.
LEMMA BetweenPassesKeeps ==
    PassInv /\ (LeaveSequence \/ EndPass \/ SecondAttempt \/ Finish) => PassInv'
<1> SUFFICES ASSUME PassInv, LeaveSequence \/ EndPass \/ SecondAttempt \/ Finish PROVE PassInv'
    OBVIOUS
<1>1. /\ pc' \notin {"files", "fragments"} /\ map' = map /\ next' = next
      /\ file' \in {file, None} /\ tried' \subseteq tried
    BY DEF LeaveSequence, EndPass, SecondAttempt, Finish, volume, disk, flags, pass
<1> QED
    BY <1>1 DEF PassInv, PassTypes, MapsSized, Fruitless

LEMMA PassNext == PassInv /\ [Next]_vars => PassInv'
BY BeginPassKeeps, SkipFileKeeps, MoveEntirelyKeeps, EnterFileKeeps, NothingToJoinKeeps,
   JoinFragmentsKeeps, LeaveFileKeeps, StopJobKeeps, BetweenPassesKeeps
   DEF Next, Job, Done

\* In every state of the algorithm, what the pass has gone by without moving
\* anything is hopeless.
THEOREM PassInvariance == Spec => []PassInv
BY PassInit, PassNext, PTL DEF Spec

\* A sequence of passes of defrag_sequence ends only when no file which is to be moved as
\* a whole fits into a free region (defrag.c): no file of the list is left out,
\* although moves change the list while it is gone through.
THEOREM PassesAreExhaustive == Spec => PassesExhaust
<1>1. PassInv /\ [Next]_vars =>
        [EndPass /\ ~moved /\ ~stopped =>
            \A f \in Listed \ (failed \cup stuck) :
                Entirely(f) => Targets(Size(map[f])) = {}]_vars
    BY DEF EndPass, PassInv, Fruitless, Passed, Current, Hopeless
<1> QED
    BY <1>1, PassInvariance, PTL DEF Spec, PassesExhaust

-----------------------------------------------------------------------------
(* The greatest element.                                                   *)

\* Every finite set of natural numbers has a greatest element.
LEMMA MaxIs ==
    ASSUME NEW T, T \subseteq Nat, IsFiniteSet(T), T # {}
    PROVE  Max(T) \in T /\ \A m \in T : m <= Max(T)
<1> DEFINE HasMax(U) == \E x \in U : \A y \in U : x >= y
           Bad == {U \in SUBSET T : U # {} /\ ~HasMax(U)}
           Sizes == {Cardinality(U) : U \in Bad}
<1>1. \A U \in Bad : IsFiniteSet(U) /\ Cardinality(U) \in Nat
    BY FS_Subset, FS_CardinalityType
<1>2. ASSUME Bad # {} PROVE FALSE
    <2>1. Sizes \subseteq Nat /\ Sizes # {}
        BY <1>1, <1>2
    <2>2. PICK k \in Sizes : \A j \in Sizes : k <= j
        <3> HIDE DEF Sizes
        <3> QED
            BY <2>1, LeastNatural
    <2>3. PICK U \in Bad : \A V \in Bad : Cardinality(U) <= Cardinality(V)
        BY <2>2
    <2>4. PICK x \in U : TRUE
        BY <2>3
    <2> DEFINE V == U \ {x}
    <2>5. IsFiniteSet(V) /\ Cardinality(V) = Cardinality(U) - 1
        BY <1>1, <2>4, FS_RemoveElement
    <2>6. V \notin Bad /\ V \in SUBSET T
        <3>1. Cardinality(U) \in Nat /\ (V \in Bad => Cardinality(U) <= Cardinality(V))
            BY <1>1, <2>3
        <3>2. V \in SUBSET T
            BY <2>3
        <3> QED
            BY <2>5, <3>1, <3>2
    <2>7. CASE V = {}
        <3>1. \A y \in U : y = x /\ x \in Nat
            BY <2>4, <2>7
        <3>2. HasMax(U)
            BY <2>4, <3>1
        <3> QED
            BY <2>3, <3>2
    <2>8. CASE V # {}
        <3>1. HasMax(V)
            BY <2>6, <2>8
        <3>2. PICK z \in V : \A y \in V : z >= y
            BY <3>1
        <3>3. x \in Nat /\ z \in Nat /\ z \in U
            BY <2>3, <2>4, <3>2
        <3>4. CASE z >= x
            <4>1. \A y \in U : z >= y
                BY <3>2, <3>4
            <4> QED
                BY <2>3, <3>3, <4>1
        <3>5. CASE x > z
            <4>1. \A y \in U : y \in Nat /\ (y = x \/ z >= y)
                BY <2>3, <3>2
            <4>2. \A y \in U : x >= y
                BY <3>3, <3>5, <4>1
            <4> QED
                BY <2>3, <2>4, <4>2
        <3> QED
            BY <3>3, <3>4, <3>5
    <2> QED
        BY <2>7, <2>8
<1>3. \E x \in T : \A y \in T : x >= y
    BY <1>2
<1>4. Max(T) \in T /\ \A y \in T : Max(T) >= y
    <2> HIDE DEF HasMax, Bad, Sizes
    <2> QED
        BY <1>3 DEF Max
<1> QED
    BY <1>4

-----------------------------------------------------------------------------
(* Maps and chains.                                                        *)

IsMap(m) ==
    /\ DOMAIN m \subseteq Nat /\ IsFiniteSet(DOMAIN m) /\ DOMAIN m # {}
    /\ \A v \in DOMAIN m : m[v] \in Clusters
    /\ \A v, w \in DOMAIN m : m[v] = m[w] => v = w

\* The first VCN of a file.
LEMMA FirstIs ==
    ASSUME NEW m, IsMap(m)
    PROVE  FirstVcn(m) \in DOMAIN m /\ \A v \in DOMAIN m : FirstVcn(m) <= v
BY MinIs DEF IsMap, FirstVcn

\* The VCN behind the last one.
LEMMA EndIs ==
    ASSUME NEW m, IsMap(m)
    PROVE  EndVcn(m) \in Nat /\ \A v \in DOMAIN m : v < EndVcn(m)
<1>1. Max(DOMAIN m) \in DOMAIN m /\ \A v \in DOMAIN m : v <= Max(DOMAIN m)
    BY MaxIs DEF IsMap
<1> QED
    BY <1>1 DEF IsMap, EndVcn

\* The VCNs of a map from a on and below b.
Part(m, a, b) == {u \in DOMAIN m : u \in a .. b - 1}

\* How many clusters of the file are in between.
LEMMA PartIs ==
    ASSUME NEW m, IsMap(m), NEW a \in Nat, NEW b \in Nat
    PROVE  /\ IsFiniteSet(Part(m, a, b)) /\ Cardinality(Part(m, a, b)) \in Nat
           /\ \A u \in Nat : u \in Part(m, a, b) <=> u \in DOMAIN m /\ a <= u /\ u < b
<1>1. IsFiniteSet(Part(m, a, b))
    BY FS_Subset DEF IsMap, Part
<1> QED
    BY <1>1, FS_CardinalityType DEF IsMap, Part

\* A part ending at a VCN of the map is shorter than one which includes it.
LEMMA PartGrows ==
    ASSUME NEW m, IsMap(m), NEW a \in Nat, NEW b \in Nat, NEW v \in DOMAIN m, a <= v, v < b
    PROVE  Cardinality(Part(m, a, v)) < Cardinality(Part(m, a, b))
<1>0. v \in Nat
    BY DEF IsMap
<1>1. Part(m, a, v) \subseteq Part(m, a, b) /\ v \in Part(m, a, b) /\ v \notin Part(m, a, v)
    BY <1>0 DEF Part, IsMap
<1>2. /\ IsFiniteSet(Part(m, a, b)) /\ Cardinality(Part(m, a, b)) \in Nat
      /\ Cardinality(Part(m, a, v)) \in Nat
    BY <1>0, PartIs
<1>3. /\ Cardinality(Part(m, a, v)) <= Cardinality(Part(m, a, b))
      /\ Cardinality(Part(m, a, b)) = Cardinality(Part(m, a, v)) => Part(m, a, b) = Part(m, a, v)
    BY <1>1, <1>2, FS_Subset
<1> QED
    BY <1>1, <1>2, <1>3

\* What a chain consists of, and the rank of each VCN in it.
LEMMA ChainIs ==
    ASSUME NEW m, IsMap(m), NEW a \in Nat, NEW n \in Nat
    PROVE  /\ Chain(m, a, n) \subseteq DOMAIN m /\ IsFiniteSet(Chain(m, a, n))
           /\ \A v \in DOMAIN m : v \in Chain(m, a, n) <=>
                    a <= v /\ Cardinality(Part(m, a, v)) < n
           /\ \A v \in Chain(m, a, n) :
                {u \in Chain(m, a, n) : u < v} = Part(m, a, v)
<1>1. Chain(m, a, n) \subseteq DOMAIN m
    BY DEF Chain
<1>2. \A v \in DOMAIN m : v \in Chain(m, a, n) <=> a <= v /\ Cardinality(Part(m, a, v)) < n
    BY DEF Chain, Part, IsMap
<1>3. IsFiniteSet(Chain(m, a, n))
    BY <1>1, FS_Subset DEF IsMap
<1>4. ASSUME NEW v \in Chain(m, a, n)
      PROVE  {u \in Chain(m, a, n) : u < v} = Part(m, a, v)
    <2>1. v \in DOMAIN m /\ v \in Nat /\ a <= v /\ Cardinality(Part(m, a, v)) < n
        BY <1>1, <1>2 DEF IsMap
    <2>2. ASSUME NEW u \in Chain(m, a, n), u < v PROVE u \in Part(m, a, v)
        <3>1. u \in DOMAIN m /\ u \in Nat /\ a <= u
            BY <1>1, <1>2 DEF IsMap
        <3> QED
            BY <2>1, <2>2, <3>1, PartIs
    <2>3. ASSUME NEW u \in Part(m, a, v) PROVE u \in Chain(m, a, n) /\ u < v
        <3>1. u \in DOMAIN m /\ u \in Nat /\ a <= u /\ u < v
            BY <2>1 DEF Part, IsMap
        <3>2. /\ Cardinality(Part(m, a, u)) < Cardinality(Part(m, a, v))
              /\ Cardinality(Part(m, a, u)) \in Nat /\ Cardinality(Part(m, a, v)) \in Nat
            BY <2>1, <3>1, PartGrows, PartIs
        <3>3. Cardinality(Part(m, a, u)) < n
            BY <2>1, <3>2
        <3> QED
            BY <1>2, <3>1, <3>3
    <2> QED
        BY <2>2, <2>3
<1> QED
    BY <1>1, <1>2, <1>3, <1>4

\* A chain never has more clusters than the move is about.
LEMMA ChainSize ==
    ASSUME NEW m, IsMap(m), NEW a \in Nat, NEW n \in Nat
    PROVE  Cardinality(Chain(m, a, n)) \in Nat /\ Cardinality(Chain(m, a, n)) <= n
<1> DEFINE ch == Chain(m, a, n)
<1>1. IsFiniteSet(ch) /\ ch \subseteq Nat /\ Cardinality(ch) \in Nat
    BY ChainIs, FS_CardinalityType DEF IsMap
<1>2. CASE ch = {}
    BY <1>2, FS_EmptySet
<1>3. CASE ch # {}
    <2> DEFINE v == Max(ch)
    <2>1. v \in ch /\ \A u \in ch : u <= v
        <3> HIDE DEF ch
        <3> QED
            BY <1>1, <1>3, MaxIs
    <2> HIDE DEF v
    <2>2. v \in DOMAIN m /\ v \in Nat /\ Cardinality(Part(m, a, v)) < n /\ Cardinality(Part(m, a, v)) \in Nat
          /\ {u \in ch : u < v} = Part(m, a, v)
        BY <1>1, <2>1, ChainIs, PartIs
    <2>3. ch \ {v} = Part(m, a, v)
        <3>1. \A u \in ch : u \in Nat /\ (u < v <=> u # v)
            BY <1>1, <2>1, <2>2
        <3> HIDE DEF ch
        <3> QED
            BY <2>2, <3>1
    <2>4. Cardinality(ch \ {v}) = Cardinality(ch) - 1
        <3> HIDE DEF ch
        <3> QED
            BY <1>1, <2>1, FS_RemoveElement
    <2> HIDE DEF ch
    <2>5. Cardinality(Part(m, a, v)) = Cardinality(ch) - 1
        BY <2>3, <2>4
    <2>6. Cardinality(ch) <= n
        BY <1>1, <2>2, <2>5
    <2> QED
        BY <1>1, <2>6 DEF ch
<1> QED
    BY <1>1, <1>2, <1>3

\* A shorter chain is a part of a longer one.
LEMMA ChainShorter ==
    ASSUME NEW m, IsMap(m), NEW a \in Nat, NEW n \in Nat, NEW k \in Nat, k <= n
    PROVE  Chain(m, a, k) \subseteq Chain(m, a, n)
<1> SUFFICES ASSUME NEW v \in Chain(m, a, k) PROVE v \in Chain(m, a, n)
    OBVIOUS
<1>1. v \in DOMAIN m /\ v \in Nat /\ a <= v /\ Cardinality(Part(m, a, v)) < k
    BY ChainIs DEF IsMap
<1>2. Cardinality(Part(m, a, v)) < n
    BY <1>1, PartIs
<1> QED
    BY <1>1, <1>2, ChainIs

\* The first VCN belongs to the chain.
LEMMA ChainBegins ==
    ASSUME NEW m, IsMap(m), NEW a \in DOMAIN m, NEW n \in Nat \ {0}
    PROVE  a \in Chain(m, a, n) /\ Part(m, a, a) = {}
<1>1. a \in Nat
    BY DEF IsMap
<1>2. Part(m, a, a) = {}
    BY <1>1 DEF Part
<1>3. Cardinality(Part(m, a, a)) < n
    BY <1>2, FS_EmptySet
<1>4. a \in Chain(m, a, n)
    BY <1>1, <1>3, ChainIs
<1> QED
    BY <1>2, <1>4

\* A range of clusters which belongs to no file.
Vacant(lcn, n) == \A f \in Files : \A v \in DOMAIN map[f] : map[f][v] \notin lcn .. lcn + n - 1

Sound ==
    /\ DOMAIN map = Files
    /\ \A f \in Files : IsMap(map[f])
    /\ \A f, g \in Files : \A v \in DOMAIN map[f], w \in DOMAIN map[g] :
            map[f][v] = map[g][w] => f = g
    /\ free \subseteq Clusters
    /\ \A f \in Files : \A v \in DOMAIN map[f] : map[f][v] \notin free
    /\ failed \cup stuck \subseteq Files

\* A free range of clusters is vacant.
LEMMA FreeIsVacant ==
    ASSUME Sound, NEW lcn, NEW n, lcn .. lcn + n - 1 \subseteq free
    PROVE  Vacant(lcn, n)
BY DEF Sound, Vacant

-----------------------------------------------------------------------------
(* Moves.                                                                  *)

LEMMA RelocatedIs ==
    ASSUME NEW m, IsMap(m), NEW a \in Nat, NEW k \in Nat, NEW n \in Nat, k <= n,
           NEW lcn \in Nat, lcn + n <= NClusters,
           \A v \in DOMAIN m : m[v] \notin lcn .. lcn + n - 1
    PROVE  LET ch == Chain(m, a, k)
               r == Relocated(m, ch, lcn)
           IN /\ IsMap(r) /\ DOMAIN r = DOMAIN m /\ ch \subseteq DOMAIN m
              /\ \A v \in DOMAIN m \ ch : r[v] = m[v]
              /\ \A v \in ch : r[v] \in lcn .. lcn + n - 1
              /\ \A v, w \in ch : v < w => r[v] < r[w]
              /\ a \in ch => r[a] = lcn
<1> DEFINE ch == Chain(m, a, k)
           r == Relocated(m, ch, lcn)
<1>1. /\ ch \subseteq DOMAIN m
      /\ \A v \in ch : {u \in ch : u < v} = Part(m, a, v)
      /\ \A v \in ch : v \in Nat /\ a <= v /\ Cardinality(Part(m, a, v)) < k
    BY ChainIs DEF IsMap
<1> HIDE DEF ch
<1>2. /\ DOMAIN r = DOMAIN m
      /\ \A v \in DOMAIN m \ ch : r[v] = m[v]
      /\ \A v \in ch : r[v] = lcn + Cardinality({u \in ch : u < v})
    BY <1>1 DEF Relocated
<1>3. \A v \in ch : r[v] = lcn + Cardinality(Part(m, a, v))
    BY <1>1, <1>2
<1>4. \A v \in ch : Cardinality(Part(m, a, v)) \in 0 .. k - 1
    BY <1>1, PartIs
<1> HIDE DEF r
<1>5. \A v \in ch : r[v] \in lcn .. lcn + n - 1
    BY <1>3, <1>4
<1>6. ASSUME NEW v \in ch, NEW w \in ch, v < w PROVE r[v] < r[w]
    <2>1. Cardinality(Part(m, a, v)) < Cardinality(Part(m, a, w))
        BY <1>1, <1>6, PartGrows
    <2> QED
        BY <1>3, <1>4, <2>1
<1>7. a \in ch => r[a] = lcn
    <2> SUFFICES ASSUME a \in ch PROVE r[a] = lcn
        OBVIOUS
    <2>1. Part(m, a, a) = {}
        BY DEF Part
    <2>2. Cardinality(Part(m, a, a)) = 0
        BY <2>1, FS_EmptySet
    <2> QED
        BY <1>3, <2>2
<1>8. IsMap(r)
    <2>1. lcn .. lcn + n - 1 \subseteq Clusters
        BY VolumeAssumption DEF Clusters
    <2>2. \A v \in DOMAIN m : r[v] \in Clusters
        BY <1>2, <1>5, <2>1 DEF IsMap
    <2>3. ASSUME NEW v \in DOMAIN m, NEW w \in DOMAIN m, r[v] = r[w] PROVE v = w
        <3>1. v \in Nat /\ w \in Nat
            BY DEF IsMap
        <3>2. CASE v \in ch /\ w \in ch
            <4>1. ~ (v < w) /\ ~ (w < v)
                <5>1. r[v] \in Nat /\ r[w] \in Nat
                    BY <1>5, <3>2
                <5> QED
                    BY <1>6, <2>3, <3>2, <5>1
            <4> QED
                BY <3>1, <4>1
        <3>3. CASE v \notin ch /\ w \notin ch
            BY <1>2, <2>3, <3>3 DEF IsMap
        <3>4. CASE v \in ch /\ w \notin ch
            BY <1>2, <1>5, <2>3, <3>4
        <3>5. CASE v \notin ch /\ w \in ch
            BY <1>2, <1>5, <2>3, <3>5
        <3> QED
            BY <3>2, <3>3, <3>4, <3>5
    <2> QED
        BY <1>2, <2>2, <2>3 DEF IsMap
<1> QED
    BY <1>1, <1>2, <1>5, <1>6, <1>7, <1>8 DEF r, ch

\* The chain ch of the file gets to n clusters from lcn on.
Shift(f, ch, lcn, n) ==
    /\ DOMAIN map' = Files
    /\ \A g \in Files : DOMAIN map'[g] = DOMAIN map[g] /\ (g # f => map'[g] = map[g])
    /\ ch \subseteq DOMAIN map[f]
    /\ \A v \in DOMAIN map[f] \ ch : map'[f][v] = map[f][v]
    /\ \A v \in ch : map'[f][v] \in lcn .. lcn + n - 1
    /\ \A v, w \in ch : v < w => map'[f][v] < map'[f][w]

\* Each place is what it was or lies within the target.
LEMMA ShiftKeeps ==
    ASSUME Sound, NEW f \in Files, NEW a \in Nat, NEW k \in Nat, NEW n \in Nat, k <= n,
           NEW lcn \in Nat, lcn + n <= NClusters, Vacant(lcn, n),
           map' = [map EXCEPT ![f] = Relocated(map[f], Chain(map[f], a, k), lcn)]
    PROVE  LET ch == Chain(map[f], a, k)
           IN /\ Shift(f, ch, lcn, n)
              /\ a \in ch => map'[f][a] = lcn
              /\ \A g \in Files : IsMap(map'[g])
              /\ \A g, h \in Files : \A v \in DOMAIN map'[g], w \in DOMAIN map'[h] :
                    map'[g][v] = map'[h][w] => g = h
<1> DEFINE ch == Chain(map[f], a, k)
           r == Relocated(map[f], ch, lcn)
<1>1. /\ IsMap(r) /\ DOMAIN r = DOMAIN map[f] /\ ch \subseteq DOMAIN map[f]
      /\ \A v \in DOMAIN map[f] \ ch : r[v] = map[f][v]
      /\ \A v \in ch : r[v] \in lcn .. lcn + n - 1
      /\ \A v, w \in ch : v < w => r[v] < r[w]
      /\ a \in ch => r[a] = lcn
    BY RelocatedIs DEF Sound, Vacant
<1>2. DOMAIN map' = Files /\ map'[f] = r /\ \A g \in Files : g # f => map'[g] = map[g]
    BY DEF Sound
<1> HIDE DEF r, ch
<1>3. Shift(f, ch, lcn, n)
    BY <1>1, <1>2 DEF Shift
<1>4. \A g \in Files : IsMap(map'[g])
    BY <1>1, <1>2 DEF Sound
<1>5. \A g \in Files : \A v \in DOMAIN map'[g] :
            \/ v \in DOMAIN map[g] /\ map'[g][v] = map[g][v]
            \/ g = f /\ map'[g][v] \in lcn .. lcn + n - 1
    BY <1>1, <1>2
<1>6. ASSUME NEW g \in Files, NEW h \in Files, NEW v \in DOMAIN map'[g], NEW w \in DOMAIN map'[h],
             map'[g][v] = map'[h][w]
      PROVE  g = h
    BY <1>5, <1>6 DEF Sound, Vacant
<1> QED
    BY <1>1, <1>2, <1>3, <1>4, <1>6 DEF ch

\* A success moves the whole chain.
LEMMA SuccessKeeps ==
    ASSUME Sound, NEW f \in Files, NEW a \in Nat, NEW n \in Nat \ {0},
           NEW lcn \in Nat, lcn + n <= NClusters, Vacant(lcn, n), Success(f, a, n, lcn)
    PROVE  /\ Sound' /\ Shift(f, Chain(map[f], a, n), lcn, n)
           /\ a \in Chain(map[f], a, n) /\ map'[f][a] = lcn
           /\ UNCHANGED <<fs, others, failed, stuck>>
<1> DEFINE ch == Chain(map[f], a, n)
<1>1. /\ map' = [map EXCEPT ![f] = Relocated(map[f], ch, lcn)]
      /\ free' = (free \ (lcn .. lcn + n - 1)) \cup IF fs # "FAT" THEN {} ELSE {map[f][v] : v \in ch}
      /\ UNCHANGED <<fs, others, failed, stuck>> /\ a \in DOMAIN map[f]
    BY DEF Success, Improper
<1>2. a \in ch
    BY <1>1, ChainBegins DEF Sound
<1>3. /\ Shift(f, ch, lcn, n)
      /\ a \in ch => map'[f][a] = lcn
      /\ \A g \in Files : IsMap(map'[g])
      /\ \A g, h \in Files : \A v \in DOMAIN map'[g], w \in DOMAIN map'[h] :
            map'[g][v] = map'[h][w] => g = h
    <2>1. map' = [map EXCEPT ![f] = Relocated(map[f], Chain(map[f], a, n), lcn)] /\ n <= n
        BY <1>1
    <2> QED
        BY <2>1, ShiftKeeps
<1> HIDE DEF ch
<1>4. free' \subseteq Clusters
    BY <1>1, <1>3 DEF Sound, IsMap, Shift
<1>5. ASSUME NEW g \in Files, NEW v \in DOMAIN map'[g] PROVE map'[g][v] \notin free'
    <2>1. CASE g = f /\ v \in ch
        <3>1. map'[g][v] \in lcn .. lcn + n - 1
            BY <1>3, <2>1 DEF Shift
        <3>2. \A w \in ch : map[f][w] \notin lcn .. lcn + n - 1
            BY <1>3 DEF Shift, Vacant
        <3> QED
            BY <1>1, <3>1, <3>2
    <2>2. CASE ~ (g = f /\ v \in ch)
        <3>1. v \in DOMAIN map[g] /\ map'[g][v] = map[g][v]
            BY <1>3, <2>2 DEF Shift
        <3>2. \A w \in ch : w \in DOMAIN map[f] /\ map[f][w] # map[g][v]
            BY <1>3, <2>2, <3>1 DEF Sound, IsMap, Shift
        <3> QED
            BY <1>1, <3>1, <3>2 DEF Sound
    <2> QED
        BY <2>1, <2>2
<1>6. Sound'
    BY <1>1, <1>3, <1>4, <1>5 DEF Sound, Shift
<1> QED
    BY <1>1, <1>2, <1>3, <1>6 DEF ch

\* A failure moves a part of it, or nothing.
LEMMA PartlyKeeps ==
    ASSUME Sound, NEW f \in Files, NEW a \in Nat, NEW n \in Nat,
           NEW lcn \in Nat, lcn + n <= NClusters, Vacant(lcn, n),
           Partly(f, a, n, lcn), failed' \cup stuck' \subseteq Files
    PROVE  /\ Sound' /\ UNCHANGED <<fs, stuck>>
           /\ \E ch \in SUBSET Chain(map[f], a, n) : Shift(f, ch, lcn, n)
<1>1. PICK k \in 0 .. Cardinality(Chain(map[f], a, n)) - 1 :
            map' = [map EXCEPT ![f] = Relocated(map[f], Chain(map[f], a, k), lcn)]
    BY DEF Partly
<1>2. IsMap(map[f])
    BY DEF Sound
<1>3. k \in Nat /\ k <= n
    BY <1>1, <1>2, ChainSize
<1>4. Chain(map[f], a, k) \subseteq Chain(map[f], a, n)
    BY <1>2, <1>3, ChainShorter
<1> DEFINE ch == Chain(map[f], a, k)
<1>5. /\ Shift(f, ch, lcn, n)
      /\ \A g \in Files : IsMap(map'[g])
      /\ \A g, h \in Files : \A v \in DOMAIN map'[g], w \in DOMAIN map'[h] :
            map'[g][v] = map'[h][w] => g = h
    BY <1>1, <1>3, ShiftKeeps
<1> HIDE DEF ch
<1>6. free' = free \ (lcn .. lcn + n - 1) /\ UNCHANGED <<fs, stuck>>
    BY DEF Partly
<1>7. ASSUME NEW g \in Files, NEW v \in DOMAIN map'[g] PROVE map'[g][v] \notin free'
    BY <1>5, <1>6 DEF Sound, Shift
<1>8. Sound'
    BY <1>5, <1>6, <1>7 DEF Sound, Shift
<1> QED
    BY <1>4, <1>5, <1>6, <1>8 DEF ch

\* A call which is rejected moves nothing, and the file is marked.
LEMMA FailsKeeps ==
    ASSUME Sound, NEW f \in Files, NEW a \in Nat, NEW n \in Nat,
           NEW lcn \in Nat, lcn + n <= NClusters, Vacant(lcn, n), MoveFails(f, a, n, lcn)
    PROVE  /\ Sound' /\ fs' = fs /\ f \in failed' \cup stuck'
           /\ failed \subseteq failed' /\ stuck \subseteq stuck'
           /\ \E ch \in SUBSET Chain(map[f], a, n) : Shift(f, ch, lcn, n)
<1>1. CASE Reject(f, a, n, lcn) \/ Locked(f, a, n, lcn)
    <2>1. /\ UNCHANGED <<fs, map, others, free, failed>> /\ stuck' = stuck \cup {f}
        BY <1>1 DEF Reject, Locked, disk
    <2>2. Sound'
        BY <2>1 DEF Sound
    <2>3. Shift(f, {}, lcn, n)
        BY <2>1 DEF Sound, Shift
    <2> QED
        BY <2>1, <2>2, <2>3
<1>2. CASE Failure(f, a, n, lcn)
    <2>1. Partly(f, a, n, lcn) /\ failed' = failed \cup {f} /\ stuck' = stuck
        BY <1>2 DEF Failure, Partly
    <2>2. failed' \cup stuck' \subseteq Files
        BY <2>1 DEF Sound
    <2>3. /\ Sound' /\ UNCHANGED <<fs, stuck>>
          /\ \E ch \in SUBSET Chain(map[f], a, n) : Shift(f, ch, lcn, n)
        BY <2>1, <2>2, PartlyKeeps
    <2> QED
        BY <2>1, <2>3
<1> QED
    BY <1>1, <1>2 DEF MoveFails

-----------------------------------------------------------------------------
(* Fragments.                                                              *)

\* Where the fragments of a file begin, and the VCNs of the one beginning at v.
Starts(m) == {v \in DOMAIN m : Begins(m, v)}
Piece(m, v) == {u \in DOMAIN m : u >= v /\ \A w \in DOMAIN m \cap (v + 1 .. u) : ~Begins(m, w)}

LEMMA PieceIs ==
    ASSUME NEW m, IsMap(m), NEW v \in DOMAIN m
    PROVE  /\ v \in Piece(m, v) /\ Piece(m, v) \subseteq DOMAIN m /\ IsFiniteSet(Piece(m, v))
           /\ Length(m, v) = Cardinality(Piece(m, v)) /\ Length(m, v) \in Nat \ {0}
<1>1. v \in Nat /\ Piece(m, v) \subseteq DOMAIN m
    BY DEF IsMap, Piece
<1>2. v \in Piece(m, v)
    BY <1>1 DEF Piece
<1>3. IsFiniteSet(Piece(m, v))
    BY <1>1, FS_Subset DEF IsMap
<1>4. Length(m, v) = Cardinality(Piece(m, v))
    BY DEF Length, Piece
<1>5. Cardinality(Piece(m, v)) \in Nat /\ Cardinality(Piece(m, v)) # 0
    BY <1>2, <1>3, FS_CardinalityType, FS_EmptySet
<1> QED
    BY <1>1, <1>2, <1>3, <1>4, <1>5

\* Fragments have no VCN in common.
LEMMA PiecesApart ==
    ASSUME NEW m, IsMap(m), NEW v \in Starts(m), NEW w \in Starts(m), v < w
    PROVE  Piece(m, v) \cap Piece(m, w) = {}
<1> SUFFICES ASSUME NEW u \in Piece(m, v), u \in Piece(m, w) PROVE FALSE
    OBVIOUS
<1>1. /\ v \in Nat /\ w \in Nat /\ u \in Nat /\ w <= u
      /\ \A x \in DOMAIN m \cap (v + 1 .. u) : ~Begins(m, x)
      /\ w \in DOMAIN m /\ Begins(m, w)
    BY DEF Piece, Starts, IsMap
<1>2. w \in DOMAIN m \cap (v + 1 .. u)
    BY <1>1
<1> QED
    BY <1>1, <1>2

\* How many members of a set of VCNs there are up to v, and which is the i-th.
Rank(S, v) == Cardinality({u \in S : u <= v})
Nth(S, i) == CHOOSE u \in S : Rank(S, u) = i

LEMMA RankIs ==
    ASSUME NEW S \in SUBSET Nat, NEW v \in Nat
    PROVE  /\ Rank(S, -1) = 0 /\ Rank(S, v) \in Nat /\ Rank(S, v - 1) \in Nat
           /\ Rank(S, v) = IF v \in S THEN Rank(S, v - 1) + 1 ELSE Rank(S, v - 1)
<1> DEFINE low == {u \in S : u <= v - 1}
           all == {u \in S : u <= v}
<1>0. \A u \in S : u \in Nat /\ ~(u <= -1) /\ (u <= v - 1 <=> u <= v /\ u # v)
    OBVIOUS
<1>1. {u \in S : u <= -1} = {}
    BY <1>0
<1>2. IsFiniteSet(all)
    <2>1. \A u \in all : u \in 0 .. v
        BY <1>0
    <2>2. IsFiniteSet(0 .. v)
        BY FS_Interval
    <2> HIDE DEF all
    <2> QED
        BY <2>1, <2>2, FS_Subset
<1>3. low = all \ {v}
    BY <1>0
<1>4. v \in all <=> v \in S
    OBVIOUS
<1>5. Rank(S, v) = Cardinality(all) /\ Rank(S, v - 1) = Cardinality(low) /\ Rank(S, -1) = 0
    BY <1>1, FS_EmptySet DEF Rank
<1> HIDE DEF all, low
<1>6. /\ IsFiniteSet(low) /\ Cardinality(low) \in Nat /\ Cardinality(all) \in Nat
      /\ Cardinality(low) = IF v \in all THEN Cardinality(all) - 1 ELSE Cardinality(all)
    BY <1>2, <1>3, FS_RemoveElement, FS_CardinalityType
<1> QED
    BY <1>4, <1>5, <1>6

LEMMA RankOrder ==
    ASSUME NEW S \in SUBSET Nat, NEW u \in Nat, NEW w \in S, u < w
    PROVE  Rank(S, u) < Rank(S, w)
<1> DEFINE low == {x \in S : x <= u}
           all == {x \in S : x <= w}
<1>0. w \in Nat /\ ~(w <= u) /\ w <= w /\ \A x \in S : x \in Nat /\ (x <= u => x <= w)
    OBVIOUS
<1>1. low \subseteq all /\ w \in all /\ w \notin low
    BY <1>0
<1>2. IsFiniteSet(all)
    <2>1. \A x \in all : x \in 0 .. w
        BY <1>0
    <2>2. IsFiniteSet(0 .. w)
        BY <1>0, FS_Interval
    <2> HIDE DEF all
    <2> QED
        BY <2>1, <2>2, FS_Subset
<1>3. Rank(S, u) = Cardinality(low) /\ Rank(S, w) = Cardinality(all)
    BY DEF Rank
<1> HIDE DEF low, all
<1>4. /\ Cardinality(low) <= Cardinality(all) /\ Cardinality(all) # Cardinality(low)
      /\ Cardinality(low) \in Nat /\ Cardinality(all) \in Nat
    BY <1>1, <1>2, FS_Subset, FS_CardinalityType
<1> QED
    BY <1>3, <1>4

\* Each member is the one of its rank.
LEMMA NthOfRank ==
    ASSUME NEW S \in SUBSET Nat, NEW u \in S
    PROVE  Nth(S, Rank(S, u)) = u
<1>1. \A w \in S : Rank(S, w) = Rank(S, u) => w = u
    <2> SUFFICES ASSUME NEW w \in S, Rank(S, w) = Rank(S, u), w # u PROVE FALSE
        OBVIOUS
    <2>1. u \in Nat /\ w \in Nat /\ Rank(S, u) \in Nat /\ Rank(S, w) \in Nat
        BY RankIs
    <2>2. CASE u < w
        BY <2>1, <2>2, RankOrder
    <2>3. CASE w < u
        BY <2>1, <2>3, RankOrder
    <2> QED
        BY <2>1, <2>2, <2>3
<1> QED
    BY <1>1 DEF Nth

\* There is a member of every rank.
LEMMA NthIs ==
    ASSUME NEW S \in SUBSET Nat, NEW last \in Nat, NEW i \in 1 .. Rank(S, last)
    PROVE  Nth(S, i) \in S /\ Rank(S, Nth(S, i)) = i
<1> DEFINE T == {v \in Nat : Rank(S, v) >= i}
<1>1. last \in T /\ i \in Nat /\ i >= 1
    BY RankIs
<1>2. PICK v \in T : \A w \in T : v <= w
    <2>1. T \subseteq Nat /\ T # {}
        BY <1>1
    <2> HIDE DEF T
    <2> QED
        BY <2>1, LeastNatural
<1>3. v \in Nat /\ Rank(S, v) >= i /\ Rank(S, v) \in Nat /\ Rank(S, v - 1) \in Nat
    BY <1>2, RankIs
<1>4. Rank(S, v - 1) < i
    <2>1. CASE v = 0
        BY <1>1, <2>1, RankIs
    <2>2. CASE v # 0
        <3>1. v - 1 \in Nat /\ v - 1 \notin T
            BY <1>2, <1>3, <2>2
        <3>2. ~ (Rank(S, v - 1) >= i)
            BY <3>1
        <3> QED
            BY <1>1, <1>3, <3>2
    <2> QED
        BY <2>1, <2>2
<1>5. v \in S /\ Rank(S, v) = i
    BY <1>1, <1>3, <1>4, RankIs
<1> QED
    BY <1>5, NthOfRank

Item(m, v) == [vcn |-> v, length |-> Length(m, v)]
Items(m, S, v) == [k \in 1 .. Rank(S, v) |-> Item(m, Nth(S, k))]

IsList(s, n) == s = [k \in 1 .. n |-> s[k]]

LEMMA AppendIs ==
    ASSUME NEW n \in Nat, NEW s, NEW t, NEW x,
           IsList(s, n), IsList(t, n + 1),
           \A k \in 1 .. n : t[k] = s[k], t[n + 1] = x
    PROVE  t = Append(s, x)
<1> DEFINE V == {s[k] : k \in 1 .. n} \cup {x}
<1>0. /\ DOMAIN s = 1 .. n /\ DOMAIN t = 1 .. n + 1 /\ x \in V
      /\ \A k \in 1 .. n : s[k] \in V
      /\ \A k \in 1 .. n + 1 : t[k] \in V
    <2>1. DOMAIN s = 1 .. n /\ DOMAIN t = 1 .. n + 1
        BY DEF IsList
    <2>2. x \in V /\ \A k \in 1 .. n : s[k] \in V
        OBVIOUS
    <2>3. \A k \in 1 .. n + 1 : k \in 1 .. n \/ k = n + 1
        OBVIOUS
    <2> HIDE DEF V
    <2> QED
        BY <2>1, <2>2, <2>3
<1> HIDE DEF V
<1>1. s \in Seq(V) /\ Len(s) = n /\ t \in Seq(V) /\ Len(t) = n + 1 /\ x \in V
    <2>1. s \in [1 .. n -> V] /\ t \in [1 .. n + 1 -> V]
        BY <1>0 DEF IsList
    <2> QED
        BY <1>0, <2>1
<1>2. /\ Append(s, x) \in Seq(V) /\ Len(Append(s, x)) = n + 1
      /\ \A k \in 1 .. n : Append(s, x)[k] = s[k]
      /\ Append(s, x)[n + 1] = x
    BY <1>1
<1>3. \A k \in 1 .. n + 1 : k \in 1 .. n \/ k = n + 1
    OBVIOUS
<1>4. \A k \in 1 .. n + 1 : Append(s, x)[k] = t[k]
    BY <1>2, <1>3
<1>5. \A a, b \in Seq(V) : Len(a) = n + 1 /\ Len(b) = n + 1 /\ (\A k \in 1 .. n + 1 : a[k] = b[k]) => a = b
    OBVIOUS
<1> QED
    BY <1>1, <1>2, <1>4, <1>5

\* The list is built up in the order of the VCNs.
LEMMA FragmentsAre ==
    ASSUME NEW m, IsMap(m), NEW S, S \subseteq DOMAIN m
    PROVE  Fragments(m, S) = Items(m, S, Max(DOMAIN m))
<1> DEFINE last == Max(DOMAIN m)
           g == [v \in -1 .. last |-> Items(m, S, v)]
           IsUpto(h) == h = [v \in -1 .. last |->
                                IF v = -1 THEN <<>>
                                ELSE IF v \in S THEN Append(h[v - 1], Item(m, v))
                                ELSE h[v - 1]]
<1>1. last \in Nat /\ S \subseteq Nat
    BY MaxIs DEF IsMap
<1>2. Fragments(m, S) = (CHOOSE h : IsUpto(h))[last]
    BY DEF Fragments, Item
<1> HIDE DEF last
<1>3. ASSUME NEW v \in 0 .. last
      PROVE  Items(m, S, v) = IF v \in S THEN Append(Items(m, S, v - 1), Item(m, v))
                              ELSE Items(m, S, v - 1)
    <2>1. v \in Nat /\ Rank(S, v) \in Nat /\ Rank(S, v - 1) \in Nat
          /\ Rank(S, v) = IF v \in S THEN Rank(S, v - 1) + 1 ELSE Rank(S, v - 1)
        BY <1>1, RankIs
    <2>2. CASE v \notin S
        BY <2>1, <2>2 DEF Items
    <2>3. CASE v \in S
        <3> DEFINE n == Rank(S, v - 1)
                   s == Items(m, S, v - 1)
                   t == Items(m, S, v)
        <3>1. Nth(S, n + 1) = v
            BY <1>1, <2>1, <2>3, NthOfRank
        <3>2. /\ IsList(s, n) /\ IsList(t, n + 1)
              /\ \A k \in 1 .. n : t[k] = s[k]
              /\ t[n + 1] = Item(m, v)
            BY <2>1, <2>3, <3>1 DEF Items, IsList
        <3> HIDE DEF n, s, t
        <3>3. n \in Nat
            BY <2>1 DEF n
        <3>4. t = Append(s, Item(m, v))
            BY <3>2, <3>3, AppendIs
        <3> QED
            BY <2>3, <3>4 DEF s, t
    <2> QED
        BY <2>2, <2>3
<1>4. Items(m, S, -1) = <<>>
    BY <1>1, RankIs DEF Items
<1>5. IsUpto(g)
    <2>1. ASSUME NEW v \in -1 .. last
          PROVE  g[v] = IF v = -1 THEN <<>>
                        ELSE IF v \in S THEN Append(g[v - 1], Item(m, v)) ELSE g[v - 1]
        <3>1. CASE v = -1
            BY <1>4, <3>1
        <3>2. CASE v # -1
            <4>1. v \in 0 .. last /\ v - 1 \in -1 .. last
                BY <1>1, <3>2
            <4>2. g[v] = Items(m, S, v) /\ g[v - 1] = Items(m, S, v - 1)
                BY <4>1
            <4> HIDE DEF g
            <4> QED
                BY <1>3, <3>2, <4>1, <4>2
        <3> QED
            BY <3>1, <3>2
    <2>2. g = [v \in -1 .. last |-> g[v]]
        OBVIOUS
    <2> HIDE DEF g
    <2> QED
        BY <2>1, <2>2
<1>6. ASSUME NEW h, IsUpto(h) PROVE h[last] = g[last]
    <2> DEFINE Bad == {n \in Nat : n - 1 <= last /\ h[n - 1] # g[n - 1]}
    <2>1. \A v \in -1 .. last :
            /\ h[v] = IF v = -1 THEN <<>>
                      ELSE IF v \in S THEN Append(h[v - 1], Item(m, v)) ELSE h[v - 1]
            /\ g[v] = IF v = -1 THEN <<>>
                      ELSE IF v \in S THEN Append(g[v - 1], Item(m, v)) ELSE g[v - 1]
        <3> HIDE DEF g
        <3> QED
            BY <1>5, <1>6
    <2> HIDE DEF g
    <2>2. Bad = {}
        <3> SUFFICES ASSUME Bad # {} PROVE FALSE
            OBVIOUS
        <3>1. PICK n \in Bad : \A k \in Bad : n <= k
            <4>1. Bad \subseteq Nat
                OBVIOUS
            <4> HIDE DEF Bad
            <4> QED
                BY <4>1, LeastNatural
        <3>2. n \in Nat /\ n - 1 <= last /\ h[n - 1] # g[n - 1]
            BY <3>1
        <3>3. n # 0
            <4>1. -1 \in -1 .. last
                BY <1>1
            <4>2. h[-1] = <<>> /\ g[-1] = <<>>
                BY <2>1, <4>1
            <4> QED
                BY <3>2, <4>2
        <3>4. n - 1 \in Nat /\ n - 1 \notin Bad /\ n - 1 \in -1 .. last /\ n - 1 # -1
            BY <1>1, <3>1, <3>2, <3>3
        <3>5. h[n - 1 - 1] = g[n - 1 - 1]
            BY <1>1, <3>2, <3>4
        <3> QED
            BY <2>1, <3>2, <3>4, <3>5
    <2>3. last + 1 \notin Bad
        BY <2>2
    <2> QED
        BY <1>1, <2>3
<1>7. (CHOOSE h : IsUpto(h))[last] = g[last]
    <2> HIDE DEF IsUpto, g
    <2> QED
        BY <1>5, <1>6
<1>8. g[last] = Items(m, S, last)
    BY <1>1
<1> QED
    BY <1>2, <1>7, <1>8 DEF last

\* What the list of the fragments beginning in S is like.
IsFragmentList(fr, m, S) ==
    /\ Len(fr) \in Nat /\ DOMAIN fr = 1 .. Len(fr)
    /\ \A k \in 1 .. Len(fr) :
        /\ fr[k].vcn \in S /\ fr[k].vcn \in Nat
        /\ fr[k].length = Length(m, fr[k].vcn) /\ fr[k].length \in Nat \ {0}
    /\ \A j, k \in 1 .. Len(fr) : j < k => fr[j].vcn < fr[k].vcn
    /\ \A k \in 1 .. Len(fr) - 1 : \A u \in S : ~ (fr[k].vcn < u /\ u < fr[k + 1].vcn)

LEMMA FragmentListIs ==
    ASSUME NEW m, IsMap(m), NEW S, S \subseteq DOMAIN m
    PROVE  IsFragmentList(Fragments(m, S), m, S)
<1> DEFINE last == Max(DOMAIN m)
           n == Rank(S, last)
           fr == Fragments(m, S)
<1>1. last \in Nat /\ S \in SUBSET Nat
    BY MaxIs DEF IsMap
<1> HIDE DEF last
<1>2. n \in Nat
    BY <1>1, RankIs
<1>3. fr = [k \in 1 .. n |-> Item(m, Nth(S, k))]
    BY FragmentsAre DEF last, Items
<1>4. ASSUME NEW k \in 1 .. n PROVE Nth(S, k) \in S /\ Rank(S, Nth(S, k)) = k
    BY <1>1, NthIs
<1> HIDE DEF n, fr
<1>5. DOMAIN fr = 1 .. n /\ Len(fr) = n
    <2> DEFINE V == {Item(m, Nth(S, k)) : k \in 1 .. n}
    <2>1. fr \in [1 .. n -> V] /\ DOMAIN fr = 1 .. n
        BY <1>3
    <2> HIDE DEF V
    <2> QED
        BY <1>2, <2>1
<1>6. ASSUME NEW k \in 1 .. n
      PROVE  /\ fr[k].vcn \in S /\ fr[k].vcn \in Nat /\ Rank(S, fr[k].vcn) = k
             /\ fr[k].length = Length(m, fr[k].vcn) /\ fr[k].length \in Nat \ {0}
    <2>1. fr[k].vcn = Nth(S, k) /\ fr[k].length = Length(m, Nth(S, k))
        BY <1>3 DEF Item
    <2>2. Nth(S, k) \in DOMAIN m /\ Nth(S, k) \in Nat
        BY <1>1, <1>4
    <2> QED
        BY <1>4, <2>1, <2>2, PieceIs
<1>7. ASSUME NEW j \in 1 .. n, NEW k \in 1 .. n, j < k PROVE fr[j].vcn < fr[k].vcn
    <2> SUFFICES ASSUME ~ (fr[j].vcn < fr[k].vcn) PROVE FALSE
        OBVIOUS
    <2>1. /\ fr[j].vcn \in Nat /\ fr[k].vcn \in Nat /\ fr[j].vcn \in S
          /\ Rank(S, fr[j].vcn) = j /\ Rank(S, fr[k].vcn) = k
        BY <1>6
    <2>2. fr[j].vcn = fr[k].vcn \/ fr[k].vcn < fr[j].vcn
        BY <2>1
    <2>3. fr[k].vcn < fr[j].vcn
        BY <1>2, <1>7, <2>1, <2>2
    <2>4. k < j
        BY <1>1, <2>1, <2>3, RankOrder
    <2> QED
        BY <1>2, <1>7, <2>4
<1>8. ASSUME NEW k \in 1 .. n - 1, NEW u \in S, fr[k].vcn < u, u < fr[k + 1].vcn PROVE FALSE
    <2>1. k \in 1 .. n /\ k + 1 \in 1 .. n
        BY <1>2
    <2>2. u \in Nat /\ Rank(S, u) \in Nat
        BY <1>1, RankIs
    <2>3. /\ fr[k].vcn \in Nat /\ fr[k + 1].vcn \in S
          /\ Rank(S, fr[k].vcn) = k /\ Rank(S, fr[k + 1].vcn) = k + 1
        BY <1>6, <2>1
    <2>4. k < Rank(S, u)
        BY <1>1, <1>8, <2>2, <2>3, RankOrder
    <2>5. Rank(S, u) < k + 1
        BY <1>1, <1>8, <2>2, <2>3, RankOrder
    <2> QED
        BY <2>1, <2>2, <2>4, <2>5
<1> QED
    BY <1>2, <1>5, <1>6, <1>7, <1>8 DEF IsFragmentList, fr

\* A smallest counterexample among the subsets of a finite set.
LEMMA SmallestSubset ==
    ASSUME NEW S, IsFiniteSet(S), NEW Bad \in SUBSET (SUBSET S), Bad # {}
    PROVE  \E s \in Bad : \A t \in Bad : Cardinality(s) <= Cardinality(t)
<1> DEFINE Sizes == {Cardinality(s) : s \in Bad}
<1>1. \A s \in Bad : Cardinality(s) \in Nat
    BY FS_Subset, FS_CardinalityType
<1>2. Sizes \subseteq Nat /\ Sizes # {}
    BY <1>1
<1>3. PICK k \in Sizes : \A j \in Sizes : k <= j
    <2> HIDE DEF Sizes
    <2> QED
        BY <1>2, LeastNatural
<1> QED
    BY <1>3

\* The clusters of some of the fragments.
Covered(fr, m, s) == UNION {Piece(m, fr[k].vcn) : k \in s}

\* Their lengths add up to the number of their clusters.
LEMMA TotalIs ==
    ASSUME NEW m, IsMap(m), NEW S, S \subseteq Starts(m), NEW fr, IsFragmentList(fr, m, S),
           NEW i \in 1 .. Len(fr), NEW j \in 1 .. Len(fr)
    PROVE  /\ IsFiniteSet(Covered(fr, m, i .. j))
           /\ Total(fr, i, j) = Cardinality(Covered(fr, m, i .. j))
<1> DEFINE D == i .. j
           Any(s) == CHOOSE x \in s : TRUE
           IsSum(h) == h = [s \in SUBSET D |->
                              IF s = {} THEN 0 ELSE fr[Any(s)].length + h[s \ {Any(s)}]]
           g == [s \in SUBSET D |-> Cardinality(Covered(fr, m, s))]
<1>1. Total(fr, i, j) = (CHOOSE h : IsSum(h))[D]
    BY DEF Total, MapThenSumSet, MapThenFoldSet
<1>2. /\ Len(fr) \in Nat /\ i \in Nat /\ j \in Nat /\ \A k \in D : k \in 1 .. Len(fr)
      /\ IsFiniteSet(D)
    BY FS_Interval DEF IsFragmentList
<1> HIDE DEF D
<1>3. ASSUME NEW k \in D
      PROVE  /\ fr[k].vcn \in Starts(m) /\ fr[k].vcn \in DOMAIN m /\ fr[k].vcn \in Nat
             /\ fr[k].length = Cardinality(Piece(m, fr[k].vcn))
             /\ Piece(m, fr[k].vcn) \subseteq DOMAIN m
    <2>1. fr[k].vcn \in S /\ fr[k].vcn \in Nat /\ fr[k].length = Length(m, fr[k].vcn)
        BY <1>2 DEF IsFragmentList
    <2>2. fr[k].vcn \in Starts(m) /\ fr[k].vcn \in DOMAIN m
        BY <2>1 DEF Starts
    <2> QED
        BY <2>1, <2>2, PieceIs
<1>4. ASSUME NEW k \in D, NEW l \in D, k # l
      PROVE  Piece(m, fr[k].vcn) \cap Piece(m, fr[l].vcn) = {}
    <2>1. k \in 1 .. Len(fr) /\ l \in 1 .. Len(fr)
        BY <1>2
    <2>2. CASE k < l
        <3>1. fr[k].vcn < fr[l].vcn
            BY <2>1, <2>2 DEF IsFragmentList
        <3> QED
            BY <1>3, <3>1, PiecesApart
    <2>3. CASE l < k
        <3>1. fr[l].vcn < fr[k].vcn
            BY <2>1, <2>3 DEF IsFragmentList
        <3>2. Piece(m, fr[l].vcn) \cap Piece(m, fr[k].vcn) = {}
            BY <1>3, <3>1, PiecesApart
        <3> QED
            BY <3>2
    <2> QED
        BY <1>2, <1>4, <2>1, <2>2, <2>3
<1>5. ASSUME NEW s \in SUBSET D PROVE IsFiniteSet(Covered(fr, m, s))
    <2>1. Covered(fr, m, s) \subseteq DOMAIN m
        BY <1>3 DEF Covered
    <2> QED
        BY <2>1, FS_Subset DEF IsMap
<1>6. ASSUME NEW s \in SUBSET D, s # {}
      PROVE  /\ Any(s) \in s /\ s \ {Any(s)} \in SUBSET D
             /\ g[s] = fr[Any(s)].length + g[s \ {Any(s)}]
    <2> DEFINE x == Any(s)
               t == s \ {x}
    <2>1. x \in s /\ x \in D /\ t \in SUBSET D
        BY <1>6
    <2> HIDE DEF x
    <2>2. Covered(fr, m, s) = Piece(m, fr[x].vcn) \cup Covered(fr, m, t)
        BY <2>1 DEF Covered
    <2>3. Piece(m, fr[x].vcn) \cap Covered(fr, m, t) = {}
        BY <1>4, <2>1 DEF Covered
    <2>4. IsFiniteSet(Piece(m, fr[x].vcn))
        BY <1>3, <2>1, PieceIs
    <2>5. IsFiniteSet(Covered(fr, m, t))
        BY <1>5, <2>1
    <2>6. Cardinality(Covered(fr, m, s)) =
            Cardinality(Piece(m, fr[x].vcn)) + Cardinality(Covered(fr, m, t))
        <3> DEFINE A == Piece(m, fr[x].vcn)
                   B == Covered(fr, m, t)
        <3> HIDE DEF A, B
        <3>1. IsFiniteSet(A) /\ IsFiniteSet(B) /\ A \cap B = {}
            BY <2>3, <2>4, <2>5 DEF A, B
        <3>2. /\ Cardinality(A \cup B) = Cardinality(A) + Cardinality(B) - Cardinality(A \cap B)
              /\ Cardinality(A) \in Nat /\ Cardinality(B) \in Nat /\ Cardinality(A \cap B) = 0
            BY <3>1, FS_Union, FS_CardinalityType, FS_EmptySet
        <3>3. Cardinality(A \cup B) = Cardinality(A) + Cardinality(B)
            BY <3>2
        <3> QED
            BY <2>2, <3>3 DEF A, B
    <2>7. g[s] = Cardinality(Covered(fr, m, s)) /\ g[t] = Cardinality(Covered(fr, m, t))
        BY <2>1
    <2> HIDE DEF g, t
    <2>8. g[s] = fr[x].length + g[t]
        BY <1>3, <2>1, <2>6, <2>7
    <2> QED
        BY <2>1, <2>8 DEF x, t
<1>7. g[{}] = 0
    <2>1. Covered(fr, m, {}) = {}
        BY DEF Covered
    <2> QED
        BY <2>1, FS_EmptySet
<1>8. g = [s \in SUBSET D |-> g[s]]
    OBVIOUS
<1> HIDE DEF g
<1>9. IsSum(g)
    <2>1. \A s \in SUBSET D : g[s] = IF s = {} THEN 0 ELSE fr[Any(s)].length + g[s \ {Any(s)}]
        BY <1>6, <1>7
    <2> HIDE DEF Any
    <2> QED
        BY <1>8, <2>1
<1>10. ASSUME NEW h, IsSum(h) PROVE h[D] = g[D]
    <2> DEFINE Bad == {s \in SUBSET D : h[s] # g[s]}
    <2>1. \A s \in SUBSET D :
            /\ h[s] = IF s = {} THEN 0 ELSE fr[Any(s)].length + h[s \ {Any(s)}]
            /\ g[s] = IF s = {} THEN 0 ELSE fr[Any(s)].length + g[s \ {Any(s)}]
        <3> HIDE DEF Any
        <3> QED
            BY <1>9, <1>10
    <2>2. Bad = {}
        <3> SUFFICES ASSUME Bad # {} PROVE FALSE
            OBVIOUS
        <3>1. Bad \in SUBSET (SUBSET D)
            OBVIOUS
        <3>2. PICK s \in Bad : \A t \in Bad : Cardinality(s) <= Cardinality(t)
            <4> HIDE DEF Bad
            <4> QED
                BY <1>2, <3>1, SmallestSubset
        <3>3. s # {} /\ s \in SUBSET D /\ h[s] # g[s]
            BY <2>1, <3>2
        <3>4. Any(s) \in s /\ s \ {Any(s)} \in SUBSET D
            BY <1>6, <3>3
        <3> HIDE DEF Any
        <3>5. Cardinality(s) \in Nat /\ Cardinality(s \ {Any(s)}) = Cardinality(s) - 1
            BY <1>2, <3>3, <3>4, FS_Subset, FS_RemoveElement, FS_CardinalityType
        <3>6. s \ {Any(s)} \notin Bad
            <4> HIDE DEF Bad
            <4> QED
                BY <3>2, <3>5
        <3>7. h[s \ {Any(s)}] = g[s \ {Any(s)}]
            BY <3>4, <3>6
        <3> QED
            BY <2>1, <3>3, <3>7
    <2> QED
        BY <2>2
<1>11. (CHOOSE h : IsSum(h))[D] = g[D]
    <2> HIDE DEF IsSum
    <2> QED
        BY <1>9, <1>10
<1>12. g[D] = Cardinality(Covered(fr, m, D))
    BY DEF g
<1> QED
    BY <1>1, <1>5, <1>11, <1>12 DEF D

-----------------------------------------------------------------------------
(* What is chosen to be joined.                                            *)

\* Less than little is little.
LEMMA LittleMono ==
    ASSUME threshold \in Nat, NEW a \in Int, NEW b \in Int, a <= b, Little(b)
    PROVE  Little(a)
<1>1. BytesPerCluster \in Nat /\ BytesPerCluster >= 1
    BY ThresholdAssumption
<1>2. a * BytesPerCluster <= b * BytesPerCluster
    BY <1>1
<1>3. a * BytesPerCluster \in Int /\ b * BytesPerCluster \in Int /\ b * BytesPerCluster < threshold
    BY <1>1 DEF Little
<1> QED
    BY <1>2, <1>3 DEF Little

\* Nothing is less than the threshold.
LEMMA NoneIsLittle ==
    ASSUME threshold \in Nat \ {0}, NEW a \in Int, ~Little(a)
    PROVE  a >= 1
<1> SUFFICES ASSUME a <= 0 PROVE Little(a)
    OBVIOUS
<1>1. Little(0)
    BY ThresholdAssumption DEF Little
<1> QED
    BY <1>1, LittleMono

\* The cut lies within the fragment, and neither the rest of it nor what is
\* joined to it is little.
CutWell(cut, total, length) ==
    /\ cut \in 1 .. length /\ ~Little(total + cut)
    /\ cut = length \/ ~Little(length - cut)

LEMMA CutIs ==
    ASSUME threshold \in Nat \ {0}, NEW fr, NEW first, NEW last, NEW k,
           Total(fr, first, last) \in Nat, Little(Total(fr, first, last)),
           fr[k].length \in Nat, ~Little(fr[k].length)
    PROVE  CutWell(Cut(fr, first, last, k), Total(fr, first, last), fr[k].length)
<1> DEFINE total == Total(fr, first, last)
           length == fr[k].length
           whole == (threshold + BytesPerCluster - 1) \div BytesPerCluster
           cut == whole - total
<1>1. Cut(fr, first, last, k) = IF Little(length - cut) THEN length ELSE cut
    BY DEF Cut
<1>2. total \in Nat /\ length \in Nat /\ Little(total) /\ ~Little(length) /\ threshold \in Nat
    OBVIOUS
<1> HIDE DEF total, length
<1>3. /\ BytesPerCluster \in Nat /\ BytesPerCluster >= 1
      /\ whole \in Int /\ whole * BytesPerCluster >= threshold
    BY ThresholdAssumption
<1> HIDE DEF whole
<1>4. ~Little(whole)
    BY <1>2, <1>3 DEF Little
<1>5. whole > total
    <2> SUFFICES ASSUME whole <= total PROVE FALSE
        BY <1>2, <1>3
    <2> QED
        BY <1>2, <1>3, <1>4, LittleMono
<1>6. cut \in Int /\ cut >= 1 /\ total + cut = whole
    BY <1>2, <1>3, <1>5
<1> HIDE DEF cut
<1>7. CASE Little(length - cut)
    <2>1. length >= 1
        BY <1>2, NoneIsLittle
    <2>2. ~Little(total + length)
        <3> SUFFICES ASSUME Little(total + length) PROVE FALSE
            OBVIOUS
        <3> QED
            BY <1>2, LittleMono
    <2> QED
        BY <1>1, <1>2, <1>7, <2>1, <2>2 DEF CutWell, total, length
<1>8. CASE ~Little(length - cut)
    <2>1. length - cut >= 1
        BY <1>2, <1>6, <1>8, NoneIsLittle
    <2>2. cut \in 1 .. length
        BY <1>2, <1>6, <2>1
    <2>3. ~Little(total + cut)
        BY <1>4, <1>6
    <2> QED
        BY <1>1, <1>8, <2>2, <2>3 DEF CutWell, total, length
<1> QED
    BY <1>7, <1>8

\* Only the fragments of the row are moved, or a part of the fragment behind
\* it with them, or a part of the one before it.
IsChoice(c, fr, first, last) ==
    LET total == Total(fr, first, last)
        Is(vcn, length, n, end) == c.vcn = vcn /\ c.length = length /\ c.n = n /\ c.end = end
    IN \/ Is(fr[first].vcn, total, last - first + 1, End(fr[last]))
       \/ /\ last + 1 \in 1 .. Len(fr) /\ ~Little(fr[last + 1].length)
          /\ \E cut \in Nat :
               /\ CutWell(cut, total, fr[last + 1].length)
               /\ Is(fr[first].vcn, total + cut, last - first + 2, fr[last + 1].vcn + cut)
       \/ /\ first - 1 \in 1 .. Len(fr) /\ ~Little(fr[first - 1].length)
          /\ \E cut \in Nat :
               /\ CutWell(cut, total, fr[first - 1].length)
               /\ Is(End(fr[first - 1]) - cut, total + cut, last - first + 2, End(fr[last]))

LEMMA TotalPositive ==
    ASSUME NEW m, IsMap(m), NEW S, S \subseteq Starts(m), NEW fr, IsFragmentList(fr, m, S),
           NEW i \in 1 .. Len(fr), NEW j \in 1 .. Len(fr), i <= j
    PROVE  Total(fr, i, j) \in Nat \ {0}
<1>1. IsFiniteSet(Covered(fr, m, i .. j)) /\ Total(fr, i, j) = Cardinality(Covered(fr, m, i .. j))
    BY TotalIs
<1>2. fr[i].vcn \in DOMAIN m /\ Len(fr) \in Nat
    BY DEF IsFragmentList, Starts
<1>3. fr[i].vcn \in Piece(m, fr[i].vcn)
    BY <1>2, PieceIs
<1>4. Covered(fr, m, i .. j) # {}
    <2>1. i \in i .. j
        BY <1>2
    <2> QED
        BY <1>3, <2>1 DEF Covered
<1> QED
    BY <1>1, <1>4, FS_CardinalityType, FS_EmptySet

LEMMA ChoiceIs ==
    ASSUME threshold \in Nat \ {0}, NEW m, IsMap(m), NEW S, S \subseteq Starts(m),
           NEW fr, IsFragmentList(fr, m, S), NEW largest,
           NEW first \in DOMAIN fr, NEW last \in DOMAIN fr, IsRow(fr, first, last, largest)
    PROVE  IsChoice(Choice(fr, first, last, largest), fr, first, last)
<1> DEFINE total == Total(fr, first, last)
           row == [vcn |-> fr[first].vcn, length |-> total,
                   n |-> last - first + 1, end |-> End(fr[last])]
           k == IF last < Len(fr) THEN last + 1 ELSE first - 1
           cut == Cut(fr, first, last, k)
           c == Choice(fr, first, last, largest)
<1>1. c = IF Enough(fr, first, last, largest) THEN row
          ELSE IF k > last
          THEN [row EXCEPT !.length = @ + cut, !.n = @ + 1, !.end = fr[k].vcn + cut]
          ELSE [row EXCEPT !.length = @ + cut, !.n = @ + 1, !.vcn = End(fr[k]) - cut]
    BY DEF Choice
<1>2. /\ DOMAIN fr = 1 .. Len(fr) /\ Len(fr) \in Nat /\ first \in 1 .. Len(fr)
      /\ last \in 1 .. Len(fr) /\ first <= last
      /\ \A i \in 1 .. last : Little(fr[i].length) <=> i >= first
    BY DEF IsFragmentList, IsRow
<1>3. total \in Nat \ {0}
    BY <1>2, TotalPositive
<1>4. CASE Enough(fr, first, last, largest)
    BY <1>1, <1>4 DEF IsChoice
<1>5. CASE ~Enough(fr, first, last, largest)
    <2>1. /\ last < Len(fr) => ~Little(fr[last + 1].length)
          /\ Little(total) /\ ~ (first = 1 /\ last = Len(fr))
        BY <1>5 DEF Enough
    <2>2. CASE last < Len(fr)
        <3>1. k = last + 1 /\ k > last /\ k \in 1 .. Len(fr)
            BY <1>2, <2>2
        <3>2. fr[k].length \in Nat /\ ~Little(fr[k].length)
            BY <2>1, <2>2, <3>1 DEF IsFragmentList
        <3>3. CutWell(cut, total, fr[k].length)
            BY <1>3, <2>1, <3>2, CutIs
        <3>4. cut \in Nat
            BY <3>2, <3>3 DEF CutWell
        <3>5. /\ c.vcn = fr[first].vcn /\ c.length = total + cut
              /\ c.n = last - first + 1 + 1 /\ c.end = fr[k].vcn + cut
            <4> HIDE DEF k, cut, total, c
            <4> QED
                BY <1>1, <1>5, <3>1
        <3> HIDE DEF k, cut, total, c
        <3>6. c.n = last - first + 2
            BY <1>2, <3>5
        <3> QED
            BY <3>1, <3>2, <3>3, <3>4, <3>5, <3>6 DEF IsChoice, total, c
    <2>3. CASE ~ (last < Len(fr))
        <3>1. last = Len(fr) /\ k = first - 1 /\ ~ (k > last) /\ k \in 1 .. Len(fr) /\ k \in 1 .. last /\ ~ (k >= first)
            BY <1>2, <2>1, <2>3
        <3>2. fr[k].length \in Nat /\ ~Little(fr[k].length)
            BY <1>2, <3>1 DEF IsFragmentList
        <3>3. CutWell(cut, total, fr[k].length)
            BY <1>3, <2>1, <3>2, CutIs
        <3>4. cut \in Nat
            BY <3>2, <3>3 DEF CutWell
        <3>5. /\ c.vcn = End(fr[k]) - cut /\ c.length = total + cut
              /\ c.n = last - first + 1 + 1 /\ c.end = End(fr[last])
            <4> HIDE DEF k, cut, total, c
            <4> QED
                BY <1>1, <1>5, <3>1
        <3> HIDE DEF k, cut, total, c
        <3>6. c.n = last - first + 2
            BY <1>2, <3>5
        <3> QED
            BY <3>1, <3>2, <3>3, <3>4, <3>5, <3>6 DEF IsChoice, total, c
    <2> QED
        BY <2>2, <2>3
<1> QED
    BY <1>4, <1>5

\* The chain and where the work on the file goes on are within the file.
LEMMA ChoiceTypes ==
    ASSUME threshold \in Nat \ {0}, NEW m, IsMap(m), NEW S, S \subseteq Starts(m),
           NEW fr, IsFragmentList(fr, m, S), NEW c,
           NEW first \in 1 .. Len(fr), NEW last \in 1 .. Len(fr), first <= last,
           IsChoice(c, fr, first, last)
    PROVE  c.vcn \in Nat /\ c.length \in Nat \ {0} /\ c.end \in Nat
<1> DEFINE total == Total(fr, first, last)
<1>1. total \in Nat \ {0}
    BY TotalPositive
<1> HIDE DEF total
<1>2. \A k \in 1 .. Len(fr) : /\ fr[k].vcn \in Nat /\ fr[k].length \in Nat
                              /\ End(fr[k]) = fr[k].vcn + fr[k].length /\ End(fr[k]) \in Nat
    BY DEF IsFragmentList, End
<1>3. CASE c.vcn = fr[first].vcn /\ c.length = total /\ c.end = End(fr[last])
    BY <1>1, <1>2, <1>3
<1>4. ASSUME last + 1 \in 1 .. Len(fr), NEW cut \in Nat, CutWell(cut, total, fr[last + 1].length),
             c.vcn = fr[first].vcn, c.length = total + cut, c.end = fr[last + 1].vcn + cut
      PROVE  c.vcn \in Nat /\ c.length \in Nat \ {0} /\ c.end \in Nat
    BY <1>1, <1>2, <1>4
<1>5. ASSUME first - 1 \in 1 .. Len(fr), NEW cut \in Nat, CutWell(cut, total, fr[first - 1].length),
             c.vcn = End(fr[first - 1]) - cut, c.length = total + cut, c.end = End(fr[last])
      PROVE  c.vcn \in Nat /\ c.length \in Nat \ {0} /\ c.end \in Nat
    <2>1. cut \in 1 .. fr[first - 1].length
        BY <1>5 DEF CutWell
    <2>2. /\ fr[first - 1].vcn \in Nat /\ fr[first - 1].length \in Nat
          /\ c.vcn = fr[first - 1].vcn + fr[first - 1].length - cut
        BY <1>2, <1>5
    <2>3. \A v, n \in Nat : \A x \in 1 .. n : v + n - x \in Nat
        OBVIOUS
    <2>4. c.vcn \in Nat
        BY <2>1, <2>2, <2>3
    <2> QED
        BY <1>1, <1>2, <1>5, <2>4
<1> QED
    BY <1>3, <1>4, <1>5 DEF IsChoice, total

-----------------------------------------------------------------------------
(* The types of the state.                                                 *)

TypeInv ==
    /\ Sound
    /\ setting \in 1 .. Default /\ threshold \in {setting, Partial}
    /\ min_vcn \in Nat /\ max_vcn \in Nat

LEMMA ThresholdIs == TypeInv => threshold \in Nat \ {0}
BY ThresholdAssumption DEF TypeInv

LEMMA TypeInit == Init => TypeInv
<1> SUFFICES ASSUME Init PROVE TypeInv
    OBVIOUS
<1>1. PICK s \in Scenarios : map = s.map /\ others = s.others /\ setting = s.setting
    BY DEF Init
<1>2. /\ DOMAIN map = Files
      /\ \A f \in Files : /\ DOMAIN map[f] \subseteq Nat /\ IsFiniteSet(DOMAIN map[f])
                          /\ DOMAIN map[f] # {}
                          /\ \A v \in DOMAIN map[f] : map[f][v] \in Clusters
      /\ \A f, g \in Files : \A v \in DOMAIN map[f], w \in DOMAIN map[g] :
            map[f][v] = map[g][w] => f = g /\ v = w
    BY <1>1, ScenariosAssumption
<1>3. \A f \in Files : IsMap(map[f])
    BY <1>2 DEF IsMap
<1>4. free = Released /\ failed = {} /\ stuck \subseteq Files /\ threshold = setting
      /\ min_vcn = 0 /\ max_vcn = 0
    BY DEF Init
<1>5. free \subseteq Clusters /\ \A f \in Files : \A v \in DOMAIN map[f] : map[f][v] \notin free
    BY <1>4 DEF Released, ClustersOf
<1>6. setting \in 1 .. Default
    BY <1>1, ThresholdAssumption
<1> QED
    BY <1>2, <1>3, <1>4, <1>5, <1>6 DEF TypeInv, Sound

\* A move to a free range keeps the files apart.
LEMMA MoveKeeps ==
    ASSUME Sound, NEW f \in Files, NEW a \in Nat, NEW n \in Nat \ {0}, NEW lcn \in Targets(n),
           MoveFile(f, a, n, lcn)
    PROVE  Sound'
<1>1. n \in Nat /\ lcn \in FirstRegion(0, n) /\ free \subseteq Clusters /\ 0 \in Nat
    BY DEF Targets, Sound
<1>2. lcn \in Nat /\ lcn + n <= NClusters /\ lcn .. lcn + n - 1 \subseteq free
    BY <1>1, FirstRegionIs
<1>3. Vacant(lcn, n)
    BY <1>2, FreeIsVacant
<1> QED
    BY <1>1, <1>2, <1>3, SuccessKeeps, FailsKeeps DEF MoveFile

\* Where the fragments left begin.
LeftStarts(m) == {v \in DOMAIN m : Begins(m, v) /\ v >= min_vcn /\ v + Length(m, v) <= max_vcn}

\* What is joined has been chosen from the fragments left of the file.
LEMMA ToJoinIs ==
    ASSUME TypeInv, file \in Files, NEW c \in ToJoin
    PROVE  LET m == map[file]
               fr == Remaining(m)
           IN /\ IsMap(m) /\ LeftStarts(m) \subseteq Starts(m) /\ IsFragmentList(fr, m, LeftStarts(m))
              /\ c.n >= 2 /\ c.vcn \in Nat /\ c.length \in Nat \ {0} /\ c.end \in Nat
              /\ \E first, last \in 1 .. Len(fr) :
                    /\ IsRow(fr, first, last, Largest) /\ first <= last
                    /\ IsChoice(c, fr, first, last)
<1> DEFINE m == map[file]
           fr == Remaining(m)
           S == LeftStarts(m)
<1>1. IsMap(m) /\ threshold \in Nat \ {0}
    BY ThresholdIs DEF TypeInv, Sound
<1>2. S \subseteq Starts(m) /\ S \subseteq DOMAIN m
    BY DEF LeftStarts, Starts
<1>3. fr = Fragments(m, S)
    BY DEF Remaining, LeftStarts
<1> HIDE DEF S
<1>4. IsFragmentList(fr, m, S)
    BY <1>1, <1>2, <1>3, FragmentListIs
<1>5. c \in Joinable(fr, Largest)
    BY DEF ToJoin
<1> HIDE DEF fr, m
<1>6. PICK first \in DOMAIN fr, last \in DOMAIN fr :
        /\ IsRow(fr, first, last, Largest) /\ c = Choice(fr, first, last, Largest) /\ c.n >= 2
    BY <1>5 DEF Joinable
<1>7. first \in 1 .. Len(fr) /\ last \in 1 .. Len(fr) /\ first <= last
    BY <1>4, <1>6 DEF IsFragmentList, IsRow
<1>8. IsChoice(c, fr, first, last)
    BY <1>1, <1>2, <1>4, <1>6, ChoiceIs
<1>9. c.vcn \in Nat /\ c.length \in Nat \ {0} /\ c.end \in Nat
    BY <1>1, <1>2, <1>4, <1>7, <1>8, ChoiceTypes
<1>10. \E i, j \in 1 .. Len(fr) : IsRow(fr, i, j, Largest) /\ i <= j /\ IsChoice(c, fr, i, j)
    BY <1>6, <1>7, <1>8
<1> QED
    BY <1>1, <1>2, <1>4, <1>6, <1>9, <1>10 DEF fr, m, S

LEMMA SizeIs ==
    ASSUME NEW m, IsMap(m)
    PROVE  Size(m) \in Nat \ {0}
BY FS_CardinalityType, FS_EmptySet DEF IsMap, Size

LEMMA TypeNext == PassInv /\ TypeInv /\ [Next]_vars => TypeInv'
<1> SUFFICES ASSUME PassInv, TypeInv, [Next]_vars PROVE TypeInv'
    OBVIOUS
<1>0. Sound /\ PassTypes /\ \A f \in Files : IsMap(map[f])
    BY DEF PassInv, TypeInv, Sound
<1>1. CASE BeginPass
    <2>1. /\ UNCHANGED <<map, failed, stuck, setting, threshold, min_vcn, max_vcn>>
          /\ free' = Released
        BY <1>1 DEF BeginPass
    <2>2. free' \subseteq Clusters /\ \A f \in Files : \A v \in DOMAIN map[f] : map[f][v] \notin free'
        BY <2>1 DEF Released, ClustersOf
    <2> QED
        BY <2>1, <2>2 DEF TypeInv, Sound
<1>2. CASE MoveEntirely
    <2> DEFINE a == FirstVcn(map[file])
               n == Size(map[file])
    <2>1. file \in Files /\ UNCHANGED <<setting, threshold>> /\ min_vcn' = 0 /\ max_vcn' = 0
        BY <1>0, <1>2 DEF MoveEntirely, InFiles, PassTypes, Complete
    <2>2. PICK lcn \in Targets(n) : MoveFile(file, a, n, lcn)
        BY <1>2 DEF MoveEntirely
    <2>3. a \in Nat /\ n \in Nat \ {0}
        BY <1>0, <2>1, FirstIs, SizeIs DEF IsMap
    <2> HIDE DEF a, n
    <2>4. Sound'
        BY <1>0, <2>1, <2>2, <2>3, MoveKeeps
    <2> QED
        BY <2>1, <2>4 DEF TypeInv
<1>3. CASE EnterFile
    <2>1. file \in Files /\ UNCHANGED <<map, free, failed, stuck, setting, threshold>>
          /\ min_vcn' = FirstVcn(map[file]) /\ max_vcn' = EndVcn(map[file])
        BY <1>0, <1>3 DEF EnterFile, InFiles, PassTypes, volume, disk, flags
    <2>2. min_vcn' \in Nat /\ max_vcn' \in Nat
        BY <1>0, <2>1, FirstIs, EndIs DEF IsMap
    <2> QED
        BY <2>1, <2>2 DEF TypeInv, Sound
<1>4. CASE JoinFragments
    <2>1. file \in Files /\ UNCHANGED <<setting, threshold, max_vcn>>
        BY <1>0, <1>4 DEF JoinFragments, Unfinished, PassTypes, control
    <2>2. PICK c \in ToJoin :
            /\ IF Targets(c.length) = {} THEN UNCHANGED moves
               ELSE \E lcn \in Targets(c.length) : MoveFile(file, c.vcn, c.length, lcn)
            /\ min_vcn' = c.end
        BY <1>4 DEF JoinFragments
    <2>3. c.vcn \in Nat /\ c.length \in Nat \ {0} /\ c.end \in Nat
        BY <2>1, ToJoinIs
    <2>4. CASE UNCHANGED moves
        BY <2>1, <2>2, <2>3, <2>4 DEF TypeInv, Sound, moves, disk
    <2>5. ASSUME NEW lcn \in Targets(c.length), MoveFile(file, c.vcn, c.length, lcn) PROVE Sound'
        BY <1>0, <2>1, <2>3, <2>5, MoveKeeps
    <2>6. Sound'
        BY <2>2, <2>4, <2>5 DEF TypeInv
    <2> QED
        BY <2>1, <2>2, <2>3, <2>6 DEF TypeInv
<1>5. CASE SkipFile \/ LeaveFile
    <2>1. UNCHANGED <<map, free, failed, stuck, setting, threshold>> /\ min_vcn' = 0 /\ max_vcn' = 0
        BY <1>5 DEF SkipFile, LeaveFile, Complete, volume, disk
    <2> QED
        BY <2>1 DEF TypeInv, Sound
<1>6. CASE NothingToJoin
    <2>1. UNCHANGED <<map, free, failed, stuck, setting, threshold, max_vcn>> /\ min_vcn' = max_vcn
        BY <1>6 DEF NothingToJoin, volume, disk, flags, control
    <2> QED
        BY <2>1 DEF TypeInv, Sound
<1>7. CASE LeaveSequence \/ EndPass
    <2>1. UNCHANGED <<map, free, failed, stuck, setting, min_vcn, max_vcn>>
          /\ threshold' \in {threshold, setting, Partial}
        BY <1>7 DEF LeaveSequence, EndPass, volume, disk, flags, pass
    <2> QED
        BY <2>1 DEF TypeInv, Sound
<1>8. CASE SecondAttempt
    <2>1. UNCHANGED <<map, free, stuck, setting, threshold, min_vcn, max_vcn>> /\ failed' \subseteq failed
        BY <1>8 DEF SecondAttempt, volume, disk, pass
    <2> QED
        BY <2>1 DEF TypeInv, Sound
<1>9. CASE Finish \/ StopJob \/ UNCHANGED vars
    <2>1. UNCHANGED <<map, free, failed, stuck, setting, threshold, min_vcn, max_vcn>>
        BY <1>9 DEF Finish, StopJob, volume, disk, flags, pass, control, vars
    <2> QED
        BY <2>1 DEF TypeInv, Sound
<1> QED
    BY <1>1, <1>2, <1>3, <1>4, <1>5, <1>6, <1>7, <1>8, <1>9 DEF Next, Job, Done

\* A file has as many clusters as VCNs.
LEMMA ClustersAre ==
    ASSUME NEW m, IsMap(m)
    PROVE  Cardinality(ClustersOf(m)) = Size(m)
<1> DEFINE h == [v \in DOMAIN m |-> m[v]]
<1>1. h \in [DOMAIN m -> ClustersOf(m)] /\ \A v, w \in DOMAIN m : h[v] = h[w] => v = w
    BY DEF ClustersOf, IsMap
<1>2. \A c \in ClustersOf(m) : \E v \in DOMAIN m : h[v] = c
    BY DEF ClustersOf
<1> HIDE DEF h
<1>3. ExistsBijection(DOMAIN m, ClustersOf(m))
    BY <1>1, <1>2 DEF ExistsBijection, Bijection, Injection, Surjection, IsInjective
<1> QED
    BY <1>3, FS_Bijection DEF IsMap, Size

LEMMA TypesAre == PassTypes /\ TypeInv => TypeOK
<1> SUFFICES ASSUME PassTypes, TypeInv PROVE TypeOK
    OBVIOUS
<1>1. Sound /\ \A f \in Files : IsMap(map[f])
    BY DEF TypeInv, Sound
<1>2. \A f \in Files : Cardinality(ClustersOf(map[f])) = Size(map[f])
    BY <1>1, ClustersAre
<1>3. FilesApart
    BY <1>1, <1>2 DEF FilesApart, ClustersOf, Sound, IsMap
<1> QED
    BY <1>1, <1>3 DEF TypeOK, TypeInv, PassTypes, Sound

\* In every state a pass has behind it what Fruitless says, and the state has
\* the types of the code, with the free list apart from the files.
THEOREM TypeInvariance == Spec => [](PassInv /\ TypeInv)
<1>1. PassInv /\ TypeInv /\ [Next]_vars => (PassInv /\ TypeInv)'
    BY PassNext, TypeNext
<1>2. Init => PassInv /\ TypeInv
    BY PassInit, TypeInit
<1> QED
    BY <1>1, <1>2, PTL DEF Spec

\* No move puts clusters of a file on those of another one, or of itself, and
\* the free list never has a cluster of a file (move_file and what defrag.c
\* makes of its outcomes).
THEOREM FilesStayApart == Spec => []TypeOK
<1>1. PassInv /\ TypeInv => TypeOK
    BY TypesAre DEF PassInv
<1> QED
    BY <1>1, TypeInvariance, PTL

-----------------------------------------------------------------------------
(* Files without holes.                                                    *)

\* A set of VCNs without gaps.
LEMMA RunIs ==
    ASSUME NEW S, S \subseteq Nat, IsFiniteSet(S), NEW v \in S,
           \A u \in S : v <= u /\ \A w \in v .. u : w \in S
    PROVE  Cardinality(S) \in Nat \ {0} /\ S = v .. v + Cardinality(S) - 1
<1> DEFINE last == Max(S)
<1>1. last \in S /\ \A u \in S : u <= last
    BY MaxIs
<1> HIDE DEF last
<1>2. v \in Nat /\ last \in Nat /\ v <= last
    BY <1>1
<1>3. S = v .. last
    <2>1. \A u \in S : u \in v .. last
        BY <1>1, <1>2
    <2>2. \A w \in v .. last : w \in S
        BY <1>1
    <2> QED
        BY <2>1, <2>2
<1>4. Cardinality(v .. last) = last - v + 1
    BY <1>2, FS_Interval
<1> QED
    BY <1>2, <1>3, <1>4

\* The VCNs of the file are those from a to b.
Whole(m, a, b) == IsMap(m) /\ a \in Nat /\ b \in Nat /\ DOMAIN m = a .. b

LEMMA BeginsIs ==
    ASSUME NEW m, NEW a, NEW b, Whole(m, a, b), NEW v \in a .. b
    PROVE  Begins(m, v) <=> v = a \/ m[v] # m[v - 1] + 1
<1>1. a \in Nat /\ b \in Nat /\ DOMAIN m = a .. b /\ v \in Nat
    BY DEF Whole
<1>2. CASE v = a
    <2>1. \A u \in a .. b : ~ (u < v)
        BY <1>1, <1>2
    <2> QED
        BY <1>1, <1>2, <2>1 DEF Begins
<1>3. CASE v # a
    <2>1. v - 1 \in a .. b /\ v - 1 < v /\ v - 1 + 1 = v
        BY <1>1, <1>3
    <2>2. ASSUME NEW u \in a .. b, u < v, u # v - 1 PROVE v - 1 \in a .. b \cap (u + 1 .. v - 1)
        BY <1>1, <2>1, <2>2
    <2>3. a .. b \cap (v .. v - 1) = {}
        BY <1>1
    <2>4. (v - 1) + 1 .. v - 1 = v .. v - 1
        BY <1>1
    <2> QED
        BY <1>1, <1>3, <2>1, <2>2, <2>3, <2>4 DEF Begins
<1> QED
    BY <1>2, <1>3

\* A fragment ends where the next one begins, or with the file.
LEMMA LengthIs ==
    ASSUME NEW m, NEW a, NEW b, Whole(m, a, b), NEW v \in a .. b
    PROVE  /\ Length(m, v) \in Nat \ {0} /\ v + Length(m, v) \in v + 1 .. b + 1
           /\ Piece(m, v) = v .. (v + Length(m, v)) - 1
           /\ \A w \in v + 1 .. (v + Length(m, v)) - 1 : ~Begins(m, w)
           /\ v + Length(m, v) = b + 1 \/ Begins(m, v + Length(m, v))
<1> DEFINE P == Piece(m, v)
           n == Length(m, v)
<1>1. IsMap(m) /\ a \in Nat /\ b \in Nat /\ DOMAIN m = a .. b /\ v \in Nat /\ v \in DOMAIN m
    BY DEF Whole
<1>2. /\ v \in P /\ P \subseteq DOMAIN m /\ IsFiniteSet(P)
      /\ n = Cardinality(P) /\ n \in Nat \ {0}
    BY <1>1, PieceIs
<1>3. \A u \in DOMAIN m : u \in P <=> u >= v /\ \A w \in DOMAIN m \cap (v + 1 .. u) : ~Begins(m, w)
    BY DEF Piece
<1> HIDE DEF P
<1>4. P \subseteq Nat
    BY <1>1, <1>2
<1>5. ASSUME NEW u \in P PROVE v <= u /\ \A w \in v .. u : w \in P
    <2>1. u \in Nat /\ u \in a .. b /\ v <= u /\ \A w \in DOMAIN m \cap (v + 1 .. u) : ~Begins(m, w)
        BY <1>1, <1>2, <1>3
    <2>2. ASSUME NEW w \in v .. u PROVE w \in P
        <3>1. w \in a .. b /\ w >= v /\ \A x \in v + 1 .. w : x \in v + 1 .. u
            BY <1>1, <2>1
        <3> QED
            BY <1>1, <1>3, <2>1, <3>1
    <2> QED
        BY <2>1, <2>2
<1>6. P = v .. (v + n) - 1
    BY <1>2, <1>4, <1>5, RunIs
<1> HIDE DEF n
<1>7. v + n - 1 \in P /\ v + n - 1 \in a .. b /\ v + n \notin P
    <2>1. v + n - 1 \in v .. (v + n) - 1 /\ v + n \notin v .. (v + n) - 1
        BY <1>1, <1>2
    <2> QED
        BY <1>1, <1>2, <1>6, <2>1
<1>8. v + n \in v + 1 .. b + 1
    BY <1>1, <1>2, <1>7
<1>9. \A w \in v + 1 .. v + n - 1 : ~Begins(m, w)
    <2>1. \A w \in v + 1 .. v + n - 1 : w \in a .. b
        BY <1>1, <1>2, <1>7
    <2> QED
        BY <1>1, <1>3, <1>7, <2>1
<1>10. v + n = b + 1 \/ Begins(m, v + n)
    <2> SUFFICES ASSUME v + n # b + 1, ~Begins(m, v + n) PROVE FALSE
        OBVIOUS
    <2>1. v + n \in a .. b /\ v + n >= v
        BY <1>1, <1>2, <1>8
    <2>2. \A w \in v + 1 .. v + n : w \in v + 1 .. v + n - 1 \/ w = v + n
        BY <1>1, <1>2
    <2>3. v + n \in P
        BY <1>1, <1>3, <1>9, <2>1, <2>2
    <2> QED
        BY <1>7, <2>3
<1> QED
    BY <1>2, <1>6, <1>8, <1>9, <1>10 DEF P, n

\* r is m with the VCNs from p up to q moved to lcn and behind.
Joined(r, m, p, q, lcn) ==
    /\ p < q
    /\ \A v \in DOMAIN m : r[v] = IF p <= v /\ v < q THEN lcn + (v - p) ELSE m[v]

\* In between the file is in one piece now, elsewhere it is as before.
LEMMA BeginsJoined ==
    ASSUME NEW m, NEW r, NEW a, NEW b, Whole(m, a, b), Whole(r, a, b), NEW lcn \in Nat,
           NEW p \in a .. b, NEW q \in a .. b + 1, Joined(r, m, p, q, lcn), NEW v \in a .. b
    PROVE  /\ p < v /\ v < q => ~Begins(r, v)
           /\ v < p \/ q < v => (Begins(r, v) <=> Begins(m, v))
<1>1. a \in Nat /\ b \in Nat /\ DOMAIN m = a .. b /\ v \in Nat /\ p \in Nat /\ q \in Nat
      /\ (v # a => v - 1 \in a .. b)
    BY DEF Whole
<1>2. /\ Begins(r, v) <=> v = a \/ r[v] # r[v - 1] + 1
      /\ Begins(m, v) <=> v = a \/ m[v] # m[v - 1] + 1
    BY BeginsIs
<1>3. CASE p < v /\ v < q
    <2>1. r[v] = lcn + (v - p) /\ r[v - 1] = lcn + (v - 1 - p) /\ v # a
        BY <1>1, <1>3 DEF Joined
    <2>2. r[v] = r[v - 1] + 1
        BY <1>1, <2>1
    <2> QED
        BY <1>1, <1>2, <1>3, <2>1, <2>2
<1>4. CASE v < p \/ q < v
    <2>1. r[v] = m[v]
        BY <1>1, <1>4 DEF Joined
    <2>2. v # a => r[v - 1] = m[v - 1]
        <3> SUFFICES ASSUME v # a PROVE r[v - 1] = m[v - 1]
            OBVIOUS
        <3>1. v - 1 \in a .. b /\ ~ (p <= v - 1 /\ v - 1 < q)
            BY <1>1, <1>4
        <3> QED
            BY <1>1, <3>1 DEF Joined
    <2>3. ~ (p < v /\ v < q)
        BY <1>1, <1>4 DEF Joined
    <2> QED
        BY <1>2, <2>1, <2>2, <2>3
<1>5. CASE v = p \/ v = q
    BY <1>1, <1>5 DEF Joined
<1> QED
    BY <1>1, <1>3, <1>4, <1>5

\* Where the little fragments begin.
LittleStarts(m) == {v \in DOMAIN m : Begins(m, v) /\ Little(Length(m, v))}

\* What is cut off from the fragment the chain begins in, or ends in, is not
\* little, unless it is cut off as a whole.
CutBefore(m, p) ==
    p \in Starts(m) \/ \E u \in Starts(m) : u < p /\ p < u + Length(m, u) /\ ~Little(p - u)
CutAfter(m, b, q) ==
    \/ q = b + 1 \/ q \in Starts(m)
    \/ \E u \in Starts(m) : u < q /\ q < u + Length(m, u) /\ ~Little((u + Length(m, u)) - q)

\* No fragment becomes a little one, except what has been joined.
LEMMA LittleJoined ==
    ASSUME threshold \in Nat \ {0}, NEW m, NEW r, NEW a, NEW b, Whole(m, a, b), Whole(r, a, b),
           NEW lcn \in Nat, NEW p \in a .. b, NEW q \in a .. b + 1, Joined(r, m, p, q, lcn),
           CutBefore(m, p), CutAfter(m, b, q), NEW v \in LittleStarts(r), v # p
    PROVE  v \in LittleStarts(m) /\ ~ (p < v /\ v < q)
<1> DEFINE e == v + Length(m, v)
           f == v + Length(r, v)
<1>1. /\ a \in Nat /\ b \in Nat /\ DOMAIN m = a .. b /\ DOMAIN r = a .. b
      /\ p \in Nat /\ q \in Nat /\ p < q
    BY DEF Whole, Joined
<1>2. v \in a .. b /\ v \in Nat /\ Begins(r, v) /\ Little(Length(r, v))
    BY <1>1 DEF LittleStarts
<1>3. /\ e \in v + 1 .. b + 1 /\ \A w \in v + 1 .. e - 1 : ~Begins(m, w)
      /\ e = b + 1 \/ Begins(m, e)
      /\ Length(m, v) \in Nat
    <2>1. /\ Length(m, v) \in Nat \ {0} /\ v + Length(m, v) \in v + 1 .. b + 1
          /\ \A w \in v + 1 .. (v + Length(m, v)) - 1 : ~Begins(m, w)
          /\ v + Length(m, v) = b + 1 \/ Begins(m, v + Length(m, v))
        BY <1>2, LengthIs
    <2> QED
        BY <2>1
<1>4. /\ f \in v + 1 .. b + 1 /\ \A w \in v + 1 .. f - 1 : ~Begins(r, w)
      /\ f = b + 1 \/ Begins(r, f)
      /\ Length(r, v) \in Nat
    <2>1. /\ Length(r, v) \in Nat \ {0} /\ v + Length(r, v) \in v + 1 .. b + 1
          /\ \A w \in v + 1 .. (v + Length(r, v)) - 1 : ~Begins(r, w)
          /\ v + Length(r, v) = b + 1 \/ Begins(r, v + Length(r, v))
        BY <1>2, LengthIs
    <2> QED
        BY <2>1
<1>5. /\ Length(m, v) = e - v /\ Length(r, v) = f - v
    BY <1>2, <1>3, <1>4
<1> HIDE DEF e, f
<1>6. e \in Nat /\ f \in Nat /\ v < e /\ v < f /\ e <= b + 1 /\ f <= b + 1
    BY <1>1, <1>2, <1>3, <1>4
<1>7. \A x \in a .. b : /\ p < x /\ x < q => ~Begins(r, x)
                        /\ x < p \/ q < x => (Begins(r, x) <=> Begins(m, x))
    BY BeginsJoined
<1>8. ~ (p < v /\ v < q)
    BY <1>2, <1>7
<1>9. \A u \in Starts(m) : /\ u \in a .. b /\ u \in Nat /\ Begins(m, u)
                           /\ u + Length(m, u) \in u + 1 .. b + 1
                           /\ \A w \in u + 1 .. (u + Length(m, u)) - 1 : ~Begins(m, w)
    <2> SUFFICES ASSUME NEW u \in Starts(m)
                 PROVE  /\ u \in a .. b /\ u \in Nat /\ Begins(m, u)
                        /\ u + Length(m, u) \in u + 1 .. b + 1
                        /\ \A w \in u + 1 .. (u + Length(m, u)) - 1 : ~Begins(m, w)
        OBVIOUS
    <2>1. u \in a .. b /\ u \in Nat /\ Begins(m, u)
        BY <1>1 DEF Starts
    <2> QED
        BY <2>1, LengthIs
\* A fragment which ends earlier ends where the moved ones begin or end.
<1>10. f < e => f = p \/ f = q
    <2> SUFFICES ASSUME f < e, f # p, f # q PROVE FALSE
        OBVIOUS
    <2>1. f \in a .. b /\ f \in v + 1 .. e - 1 /\ Begins(r, f) /\ ~Begins(m, f)
        BY <1>1, <1>2, <1>3, <1>4, <1>6
    <2>2. f < p \/ q < f \/ (p < f /\ f < q)
        BY <1>1, <1>6
    <2> QED
        BY <1>7, <2>1, <2>2
<1>11. Begins(m, v) /\ e <= f => v \in LittleStarts(m)
    <2> SUFFICES ASSUME Begins(m, v), e <= f PROVE v \in LittleStarts(m)
        OBVIOUS
    <2>1. Length(m, v) <= Length(r, v)
        BY <1>2, <1>5, <1>6
    <2>2. Little(Length(m, v))
        BY <1>2, <1>3, <1>4, <2>1, LittleMono
    <2> QED
        BY <1>1, <1>2, <2>2 DEF LittleStarts
<1>12. CASE v < p
    <2>1. Begins(m, v)
        BY <1>2, <1>7, <1>12
    <2>2. ~ (f < e)
        <3> SUFFICES ASSUME f < e PROVE FALSE
            OBVIOUS
        <3>1. p <= f /\ p < e
            BY <1>1, <1>6, <1>10
        <3>2. p \in v + 1 .. e - 1 /\ p \notin Starts(m)
            <4>1. p \in v + 1 .. e - 1
                BY <1>1, <1>2, <1>6, <1>12, <3>1
            <4> QED
                BY <1>3, <4>1 DEF Starts
        <3>3. PICK u \in Starts(m) : u < p /\ p < u + Length(m, u) /\ ~Little(p - u)
            BY <3>2 DEF CutBefore
        <3>4. u \in Nat /\ u + Length(m, u) \in Nat /\ Begins(m, u)
              /\ \A w \in u + 1 .. (u + Length(m, u)) - 1 : ~Begins(m, w)
            BY <1>1, <1>9
        <3>5. ~ (v < u)
            <4> SUFFICES ASSUME v < u PROVE FALSE
                OBVIOUS
            <4>1. u \in v + 1 .. e - 1
                BY <1>1, <1>2, <1>6, <3>1, <3>3, <3>4
            <4> QED
                BY <1>3, <3>4, <4>1
        <3>6. ~ (u < v)
            <4> SUFFICES ASSUME u < v PROVE FALSE
                OBVIOUS
            <4> DEFINE d == u + Length(m, u)
            <4>1. d \in Nat /\ p < d /\ \A w \in u + 1 .. d - 1 : ~Begins(m, w)
                BY <3>3, <3>4
            <4> HIDE DEF d
            <4>2. v \in u + 1 .. d - 1
                BY <1>1, <1>2, <1>12, <3>4, <4>1
            <4> QED
                BY <2>1, <4>1, <4>2
        <3>7. p - u <= Length(r, v)
            BY <1>1, <1>2, <1>5, <1>6, <3>1, <3>4, <3>5, <3>6
        <3>8. Little(p - u)
            BY <1>1, <1>2, <1>4, <3>4, <3>7, LittleMono
        <3> QED
            BY <3>3, <3>8
    <2> QED
        BY <1>6, <1>8, <1>11, <2>1, <2>2
\* Behind the moved ones fragments end where they did.
<1>13. CASE q <= v
    <2>1. ~ (f < e)
        BY <1>1, <1>2, <1>6, <1>10, <1>13
    <2>2. Begins(m, v)
        <3> SUFFICES ASSUME ~Begins(m, v) PROVE FALSE
            OBVIOUS
        <3>1. v = q
            BY <1>1, <1>2, <1>7, <1>13
        <3>2. q # b + 1 /\ q \notin Starts(m)
            BY <1>1, <1>2, <3>1 DEF Starts
        <3>3. PICK u \in Starts(m) :
                u < q /\ q < u + Length(m, u) /\ ~Little((u + Length(m, u)) - q)
            BY <3>2 DEF CutAfter
        <3> DEFINE d == u + Length(m, u)
        <3>4. u \in Nat /\ d \in u + 1 .. b + 1 /\ \A w \in u + 1 .. d - 1 : ~Begins(m, w)
            BY <1>9, Zenon
        <3>9. q < d /\ ~Little(d - q)
            BY <3>3, Zenon
        <3> HIDE DEF d
        <3>5. d \in Nat /\ d <= b + 1
            BY <1>1, <3>4
        <3>6. ~ (f < d)
            <4> SUFFICES ASSUME f < d PROVE FALSE
                OBVIOUS
            <4>1. f \in a .. b /\ q < f /\ f \in u + 1 .. d - 1
                BY <1>1, <1>2, <1>6, <3>1, <3>3, <3>4, <3>5, <3>9
            <4>2. Begins(r, f)
                BY <1>1, <1>4, <4>1
            <4> QED
                BY <1>7, <3>4, <4>1, <4>2
        <3>7. d - q <= Length(r, v) /\ d - q \in Int
            BY <1>1, <1>2, <1>5, <1>6, <3>1, <3>5, <3>6
        <3>8. Little(d - q)
            BY <1>2, <1>4, <3>7, LittleMono
        <3> QED
            BY <3>8, <3>9
    <2> QED
        BY <1>6, <1>8, <1>11, <2>1, <2>2
<1> QED
    BY <1>1, <1>2, <1>8, <1>12, <1>13

\* What has been joined is not little if the chain is not.
LEMMA JoinedNotLittle ==
    ASSUME threshold \in Nat \ {0}, NEW m, NEW r, NEW a, NEW b, Whole(m, a, b), Whole(r, a, b),
           NEW lcn \in Nat, NEW p \in a .. b, NEW q \in a .. b + 1, Joined(r, m, p, q, lcn),
           ~Little(q - p)
    PROVE  p \notin LittleStarts(r)
<1> SUFFICES ASSUME Little(Length(r, p)) PROVE FALSE
    BY DEF LittleStarts
<1> DEFINE f == p + Length(r, p)
<1>1. a \in Nat /\ b \in Nat /\ p \in Nat /\ q \in Nat /\ p < q /\ q <= b + 1
    BY DEF Whole, Joined
<1>2. f \in p + 1 .. b + 1 /\ (f = b + 1 \/ Begins(r, f)) /\ Length(r, p) \in Nat
    BY LengthIs
<1>3. Length(r, p) = f - p
    BY <1>1, <1>2
<1> HIDE DEF f
<1>4. f \in Nat
    BY <1>1, <1>2
<1>5. ~ (f < q)
    <2> SUFFICES ASSUME f < q PROVE FALSE
        OBVIOUS
    <2>1. f \in a .. b /\ p < f /\ Begins(r, f)
        BY <1>1, <1>2, <1>4
    <2> QED
        BY <2>1, BeginsJoined
<1>6. q - p <= Length(r, p)
    BY <1>1, <1>3, <1>4, <1>5
<1> QED
    BY <1>1, <1>2, <1>6, LittleMono

LEMMA OneForAnother ==
    ASSUME NEW B, IsFiniteSet(B), NEW s \in B, NEW x, NEW A, A \subseteq (B \ {s}) \cup {x}
    PROVE  Cardinality(A) <= Cardinality(B)
<1> DEFINE C == B \ {s}
<1>1. IsFiniteSet(C) /\ Cardinality(C) = Cardinality(B) - 1 /\ Cardinality(B) \in Nat
    BY FS_RemoveElement, FS_CardinalityType
<1> HIDE DEF C
<1>2. IsFiniteSet(C \cup {x}) /\ Cardinality(C \cup {x}) <= Cardinality(C) + 1
    <2>1. Cardinality(C) \in Nat
        BY <1>1, FS_CardinalityType
    <2>2. /\ IsFiniteSet(C \cup {x})
          /\ Cardinality(C \cup {x}) = IF x \in C THEN Cardinality(C) ELSE Cardinality(C) + 1
        BY <1>1, FS_AddElement
    <2> QED
        BY <2>1, <2>2
<1>3. A \subseteq C \cup {x}
    BY DEF C
<1>4. Cardinality(A) <= Cardinality(C \cup {x}) /\ Cardinality(A) \in Nat /\ Cardinality(C \cup {x}) \in Nat
    BY <1>2, <1>3, FS_Subset, FS_CardinalityType
<1>5. Cardinality(C) \in Nat
    BY <1>1, FS_CardinalityType
<1> QED
    BY <1>1, <1>2, <1>4, <1>5

LEMMA OneLess ==
    ASSUME NEW B, IsFiniteSet(B), NEW s \in B, NEW A, A \subseteq B \ {s}
    PROVE  Cardinality(A) < Cardinality(B)
<1> DEFINE C == B \ {s}
<1>1. IsFiniteSet(C) /\ Cardinality(C) = Cardinality(B) - 1 /\ Cardinality(B) \in Nat
    BY FS_RemoveElement, FS_CardinalityType
<1> HIDE DEF C
<1>2. A \subseteq C
    BY DEF C
<1>3. Cardinality(A) <= Cardinality(C) /\ Cardinality(A) \in Nat /\ Cardinality(C) \in Nat
    BY <1>1, <1>2, FS_Subset, FS_CardinalityType
<1> QED
    BY <1>1, <1>3

\* A VCN between p and q at which a fragment begins no longer.
JoinKinds(m, b, p, q, s) ==
    /\ p < s /\ s < q /\ s \in Starts(m) /\ CutBefore(m, p) /\ CutAfter(m, b, q)
    /\ \/ p \in LittleStarts(m) /\ s \in LittleStarts(m) /\ q \in Starts(m) \cup {b + 1}
       \/ p \in LittleStarts(m) /\ ~Little(q - p)
       \/ s \in LittleStarts(m) /\ ~Little(q - p) /\ q \in Starts(m) \cup {b + 1}

Helps(r, m) == CountLittle(r) < CountLittle(m) /\ Count(r) <= Count(m)

LEMMA JoinHelps ==
    ASSUME threshold \in Nat \ {0}, NEW m, NEW r, NEW a, NEW b, Whole(m, a, b), Whole(r, a, b),
           NEW lcn \in Nat, NEW p \in a .. b, NEW q \in a .. b + 1, Joined(r, m, p, q, lcn),
           NEW s, JoinKinds(m, b, p, q, s)
    PROVE  Helps(r, m)
<1>1. /\ a \in Nat /\ b \in Nat /\ DOMAIN m = a .. b /\ DOMAIN r = a .. b
      /\ p \in Nat /\ q \in Nat /\ p < q
    BY DEF Whole, Joined
<1>2. /\ p < s /\ s < q /\ s \in Starts(m) /\ CutBefore(m, p) /\ CutAfter(m, b, q)
      /\ \/ p \in LittleStarts(m) /\ s \in LittleStarts(m) /\ q \in Starts(m) \cup {b + 1}
         \/ p \in LittleStarts(m) /\ ~Little(q - p)
         \/ s \in LittleStarts(m) /\ ~Little(q - p) /\ q \in Starts(m) \cup {b + 1}
    BY DEF JoinKinds
<1>3. LittleStarts(m) \subseteq Starts(m) /\ Starts(m) \subseteq a .. b
    BY <1>1 DEF LittleStarts, Starts
<1>4. IsFiniteSet(Starts(m)) /\ IsFiniteSet(LittleStarts(m))
    <2>1. IsFiniteSet(a .. b)
        BY <1>1, FS_Interval
    <2> QED
        BY <1>3, <2>1, FS_Subset
<1>5. \A v \in LittleStarts(r) : v # p => v \in LittleStarts(m) /\ ~ (p < v /\ v < q)
    BY <1>2, LittleJoined
<1>6. \A v \in Starts(r) : (v \in Starts(m) /\ v # s) \/ v = p \/ v = q
    <2> SUFFICES ASSUME NEW v \in Starts(r), v # p, v # q PROVE v \in Starts(m) /\ v # s
        OBVIOUS
    <2>1. v \in a .. b /\ v \in Nat /\ Begins(r, v)
        BY <1>1 DEF Starts
    <2>2. /\ p < v /\ v < q => ~Begins(r, v)
          /\ v < p \/ q < v => (Begins(r, v) <=> Begins(m, v))
        BY <2>1, BeginsJoined
    <2>3. v < p \/ q < v
        BY <1>1, <2>1, <2>2
    <2>4. v # s
        BY <1>1, <1>2, <2>1, <2>3
    <2> QED
        BY <1>1, <2>1, <2>2, <2>3, <2>4 DEF Starts
<1>7. ~Little(q - p) => p \notin LittleStarts(r)
    BY JoinedNotLittle
<1>8. p # s /\ q # s /\ b + 1 \notin Starts(r)
    BY <1>1, <1>2 DEF Starts
<1>9. \E x : Starts(r) \subseteq (Starts(m) \ {s}) \cup {x}
    <2>1. CASE p \in Starts(m)
        BY <1>6, <1>8, <2>1
    <2>2. CASE q \in Starts(m) \cup {b + 1}
        BY <1>6, <1>8, <2>2
    <2> QED
        BY <1>2, <1>3, <2>1, <2>2
<1>10. \E y \in LittleStarts(m) : LittleStarts(r) \subseteq LittleStarts(m) \ {y}
    <2>1. CASE p \in LittleStarts(m) /\ ~Little(q - p)
        BY <1>5, <1>7, <2>1
    <2>2. CASE s \in LittleStarts(m) /\ (p \in LittleStarts(m) \/ ~Little(q - p))
        BY <1>2, <1>5, <1>7, <1>8, <2>2
    <2> QED
        BY <1>2, <2>1, <2>2
<1>11. Cardinality(Starts(r)) <= Cardinality(Starts(m))
    BY <1>2, <1>4, <1>9, OneForAnother
<1>12. Cardinality(LittleStarts(r)) < Cardinality(LittleStarts(m))
    BY <1>4, <1>10, OneLess
<1> QED
    BY <1>11, <1>12 DEF Helps, CountLittle, Count, Starts, LittleStarts

\* The fragments left follow each other without gaps.
LEMMA LeftFollow ==
    ASSUME NEW m, NEW a, NEW b, Whole(m, a, b), min_vcn \in Nat, max_vcn \in Nat,
           NEW fr, IsFragmentList(fr, m, LeftStarts(m)), NEW k \in 1 .. Len(fr)
    PROVE  /\ fr[k].vcn \in a .. b /\ fr[k].vcn \in Starts(m) /\ fr[k].length = Length(m, fr[k].vcn)
           /\ fr[k].length \in Nat \ {0} /\ End(fr[k]) = fr[k].vcn + fr[k].length
           /\ End(fr[k]) \in Starts(m) \cup {b + 1}
           /\ k + 1 \in 1 .. Len(fr) => End(fr[k]) = fr[k + 1].vcn
<1> DEFINE v == fr[k].vcn
           e == v + Length(m, v)
           w == fr[k + 1].vcn
<1>1. a \in Nat /\ b \in Nat /\ DOMAIN m = a .. b /\ Len(fr) \in Nat
    BY DEF Whole, IsFragmentList
<1>2. /\ v \in LeftStarts(m) /\ v \in Nat /\ fr[k].length = Length(m, v)
      /\ fr[k].length \in Nat \ {0}
    BY DEF IsFragmentList
<1>3. \A u \in LeftStarts(m) : u \in a .. b /\ u \in Starts(m) /\ Begins(m, u)
                               /\ u >= min_vcn /\ u + Length(m, u) <= max_vcn
    BY <1>1 DEF LeftStarts, Starts
<1>4. v \in a .. b /\ v \in Starts(m) /\ v >= min_vcn /\ e <= max_vcn
    BY <1>2, <1>3
<1>5. /\ e \in v + 1 .. b + 1
      /\ \A u \in v + 1 .. e - 1 : ~Begins(m, u)
      /\ e = b + 1 \/ Begins(m, e)
    BY <1>4, LengthIs
<1>6. End(fr[k]) = e
    BY <1>2 DEF End
<1> HIDE DEF v
<1>7. e \in Nat /\ v < e /\ v \in Nat
    BY <1>1, <1>4, <1>5
<1> HIDE DEF e
<1>8. e \in Starts(m) \cup {b + 1}
    <2>1. CASE e = b + 1
        BY <2>1
    <2>2. CASE e # b + 1
        <3>1. e \in a .. b /\ Begins(m, e)
            BY <1>1, <1>4, <1>5, <1>7, <2>2
        <3> QED
            BY <1>1, <3>1 DEF Starts
    <2> QED
        BY <2>1, <2>2
<1>9. ASSUME k + 1 \in 1 .. Len(fr) PROVE e = w
    <2>1. k \in 1 .. Len(fr) - 1 /\ k < k + 1
        BY <1>1, <1>9
    <2>2. /\ w \in LeftStarts(m) /\ w \in Nat /\ v < w
          /\ \A u \in LeftStarts(m) : ~ (v < u /\ u < w)
        BY <1>9, <2>1 DEF IsFragmentList, v
    <2> HIDE DEF w
    <2>3. w \in a .. b /\ Begins(m, w) /\ w + Length(m, w) <= max_vcn /\ w <= b
        BY <1>1, <1>3, <2>2
    <2>4. ~ (w < e)
        <3> SUFFICES ASSUME w < e PROVE FALSE
            OBVIOUS
        <3>1. w \in v + 1 .. e - 1
            BY <1>7, <2>2
        <3> QED
            BY <1>5, <2>3, <3>1
    <2>5. ~ (e < w)
        <3> SUFFICES ASSUME e < w PROVE FALSE
            OBVIOUS
        <3>1. e \in a .. b /\ Begins(m, e)
            BY <1>1, <1>4, <1>5, <1>7, <2>2, <2>3
        <3> DEFINE d == e + Length(m, e)
        <3>2. /\ d \in e + 1 .. b + 1
              /\ \A u \in e + 1 .. d - 1 : ~Begins(m, u)
            BY <3>1, LengthIs
        <3>3. Length(m, w) \in Nat
            BY <2>3, LengthIs
        <3> HIDE DEF d
        <3>4. d \in Nat
            BY <1>1, <1>7, <3>2
        <3>5. ~ (w < d)
            <4> SUFFICES ASSUME w < d PROVE FALSE
                OBVIOUS
            <4>1. w \in e + 1 .. d - 1
                BY <1>7, <2>2, <3>4
            <4> QED
                BY <2>3, <3>2, <4>1
        <3>6. d <= max_vcn /\ e >= min_vcn
            BY <1>4, <1>7, <2>2, <2>3, <3>3, <3>4, <3>5
        <3>7. e \in LeftStarts(m)
            BY <1>1, <3>1, <3>6 DEF LeftStarts, d
        <3> QED
            BY <1>7, <2>2, <3>7
    <2> QED
        BY <1>7, <2>2, <2>4, <2>5
<1>10. End(fr[k]) = fr[k].vcn + fr[k].length
    BY DEF End
<1>11. End(fr[k]) \in Starts(m) \cup {b + 1}
    BY <1>6, <1>8, Zenon
<1>12. k + 1 \in 1 .. Len(fr) => End(fr[k]) = fr[k + 1].vcn
    BY <1>6, <1>9, Zenon DEF w
<1>13. fr[k].vcn \in a .. b /\ fr[k].vcn \in Starts(m)
    BY <1>4, Zenon DEF v
<1>14. fr[k].length = Length(m, fr[k].vcn) /\ fr[k].length \in Nat \ {0}
    BY <1>2, Zenon DEF v
<1> QED
    BY <1>10, <1>11, <1>12, <1>13, <1>14, Zenon

\* The fragments of a row are joined as a whole: from the first VCN to the end.
LEMMA RowTotal ==
    ASSUME NEW m, NEW a, NEW b, Whole(m, a, b), min_vcn \in Nat, max_vcn \in Nat,
           NEW fr, IsFragmentList(fr, m, LeftStarts(m)),
           NEW i \in 1 .. Len(fr), NEW j \in 1 .. Len(fr), i <= j
    PROVE  Total(fr, i, j) = End(fr[j]) - fr[i].vcn /\ fr[i].vcn < End(fr[j])
<1> DEFINE S == LeftStarts(m)
           V(k) == fr[k].vcn
           E(k) == End(fr[k])
<1>1. IsMap(m) /\ S \subseteq Starts(m) /\ Len(fr) \in Nat
    BY DEF Whole, LeftStarts, Starts, IsFragmentList
<1>2. Total(fr, i, j) = Cardinality(Covered(fr, m, i .. j))
    BY <1>1, TotalIs
<1>3. \A k \in 1 .. Len(fr) :
        /\ V(k) \in a .. b /\ V(k) \in Nat /\ E(k) \in Nat /\ V(k) < E(k)
        /\ Piece(m, V(k)) = V(k) .. E(k) - 1
    <2> SUFFICES ASSUME NEW k \in 1 .. Len(fr)
                 PROVE  /\ V(k) \in a .. b /\ V(k) \in Nat /\ E(k) \in Nat /\ V(k) < E(k)
                        /\ Piece(m, V(k)) = V(k) .. E(k) - 1
        OBVIOUS
    <2>1. /\ fr[k].vcn \in a .. b /\ fr[k].length = Length(m, fr[k].vcn)
          /\ fr[k].length \in Nat \ {0} /\ End(fr[k]) = fr[k].vcn + fr[k].length
        BY LeftFollow
    <2>2. V(k) \in Nat
        BY DEF IsFragmentList
    <2>3. Piece(m, V(k)) = V(k) .. (V(k) + Length(m, V(k))) - 1
        BY <2>1, LengthIs
    <2>4. Piece(m, V(k)) = V(k) .. E(k) - 1
        BY <2>1, <2>3
    <2> QED
        BY <2>1, <2>2, <2>4
<1>4. \A k \in 1 .. Len(fr) : k + 1 \in 1 .. Len(fr) => E(k) = V(k + 1)
    BY LeftFollow
<1>5. \A k, l \in 1 .. Len(fr) : k < l => V(k) < V(l)
    BY DEF IsFragmentList
<1>6. \A k, l \in 1 .. Len(fr) : k < l => E(k) <= V(l)
    <2> SUFFICES ASSUME NEW k \in 1 .. Len(fr), NEW l \in 1 .. Len(fr), k < l
                 PROVE  E(k) <= V(l)
        OBVIOUS
    <2>1. k + 1 \in 1 .. Len(fr) /\ k + 1 <= l
        BY <1>1
    <2>2. E(k) = V(k + 1)
        BY <1>4, <2>1
    <2>3. CASE k + 1 = l
        BY <1>3, <2>2, <2>3
    <2>4. CASE k + 1 # l
        <3>1. k + 1 < l
            BY <1>1, <2>1, <2>4
        <3>2. V(k + 1) < V(l)
            BY <1>5, <2>1, <3>1
        <3> QED
            BY <1>3, <2>1, <2>2, <3>2
    <2> QED
        BY <2>3, <2>4
<1> HIDE DEF V, E, S
<1>7. ASSUME NEW k \in i .. j PROVE V(k) .. E(k) - 1 \subseteq V(i) .. E(j) - 1
    <2>1. k \in 1 .. Len(fr) /\ i <= k /\ k <= j /\ k \in Nat /\ i \in Nat /\ j \in Nat
        BY <1>1
    <2>2. V(i) <= V(k)
        BY <1>3, <1>5, <2>1
    <2>3. E(k) <= E(j)
        <3>1. CASE k = j
            BY <1>3, <2>1, <3>1
        <3>2. CASE k # j
            <4>1. E(k) <= V(j)
                BY <1>6, <2>1, <3>2
            <4> QED
                BY <1>3, <2>1, <4>1
        <3> QED
            BY <3>1, <3>2
    <2> QED
        BY <1>3, <2>1, <2>2, <2>3
<1>8. ASSUME NEW x \in V(i) .. E(j) - 1 PROVE \E k \in i .. j : x \in V(k) .. E(k) - 1
    <2> DEFINE T == {k \in i .. j : x < E(k)}
    <2>1. /\ V(i) \in Nat /\ E(j) \in Nat /\ x \in Nat /\ V(i) <= x /\ x < E(j)
          /\ i \in Nat /\ j \in Nat
        BY <1>1, <1>3
    <2>2. T \subseteq Nat /\ j \in T
        BY <2>1
    <2>3. PICK k \in T : \A l \in T : k <= l
        <3> HIDE DEF T
        <3> QED
            BY <2>2, LeastNatural
    <2>4. k \in i .. j /\ k \in 1 .. Len(fr) /\ k \in Nat /\ x < E(k)
        BY <1>1, <2>1, <2>3
    <2>5. V(k) <= x
        <3>1. CASE k = i
            BY <2>1, <3>1
        <3>2. CASE k # i
            <4>1. k - 1 \in i .. j /\ k - 1 \in 1 .. Len(fr) /\ k - 1 \notin T /\ k - 1 + 1 = k
                BY <1>1, <2>1, <2>3, <2>4, <3>2
            <4>2. E(k - 1) = V(k)
                BY <1>4, <2>4, <4>1
            <4>3. ~ (x < E(k - 1))
                BY <4>1
            <4> QED
                BY <1>3, <2>1, <2>4, <4>2, <4>3
        <3> QED
            BY <3>1, <3>2
    <2> QED
        BY <1>3, <2>1, <2>4, <2>5
<1>9. Covered(fr, m, i .. j) = V(i) .. E(j) - 1
    <2>1. \A k \in i .. j : Piece(m, fr[k].vcn) = V(k) .. E(k) - 1
        BY <1>1, <1>3 DEF V
    <2> QED
        BY <1>7, <1>8, <2>1 DEF Covered
<1>10. V(i) \in Nat /\ E(j) \in Nat /\ V(i) < E(j)
    <2>1. CASE i = j
        BY <1>3, <2>1
    <2>2. CASE i # j
        <3>1. E(i) <= V(j)
            BY <1>1, <1>6, <2>2
        <3> QED
            BY <1>3, <3>1
    <2> QED
        BY <2>1, <2>2
<1>11. Cardinality(V(i) .. E(j) - 1) = E(j) - V(i)
    BY <1>10, FS_Interval
<1> QED
    BY <1>2, <1>9, <1>10, <1>11 DEF V, E

-----------------------------------------------------------------------------
(* What has been chosen joins at least two fragments.                      *)

\* The VCNs of the chain, and one at which a fragment begins no longer.
Joins(m, a, b, vcn, length) ==
    LET q == vcn + length
    IN vcn \in a .. b /\ q \in a .. b + 1 /\ \E s : JoinKinds(m, b, vcn, q, s)

LEMMA ChoiceJoins ==
    ASSUME threshold \in Nat \ {0}, NEW m, NEW a, NEW b, Whole(m, a, b),
           min_vcn \in Nat, max_vcn \in Nat,
           NEW fr, IsFragmentList(fr, m, LeftStarts(m)),
           NEW first \in 1 .. Len(fr), NEW last \in 1 .. Len(fr), first <= last,
           NEW largest, IsRow(fr, first, last, largest),
           NEW c, IsChoice(c, fr, first, last), c.n >= 2
    PROVE  Joins(m, a, b, c.vcn, c.length)
<1> DEFINE V(k) == fr[k].vcn
           L(k) == fr[k].length
           total == Total(fr, first, last)
           p == V(first)
           e == End(fr[last])
<1>1. /\ a \in Nat /\ b \in Nat /\ DOMAIN m = a .. b /\ Len(fr) \in Nat
      /\ first \in Nat /\ last \in Nat
    BY DEF Whole, IsFragmentList
<1>2. \A k \in 1 .. Len(fr) :
        /\ V(k) \in a .. b /\ V(k) \in Nat /\ V(k) \in Starts(m) /\ L(k) = Length(m, V(k))
        /\ L(k) \in Nat \ {0} /\ End(fr[k]) = V(k) + L(k) /\ End(fr[k]) \in Starts(m) \cup {b + 1}
        /\ End(fr[k]) \in a .. b + 1
        /\ k + 1 \in 1 .. Len(fr) => End(fr[k]) = V(k + 1)
    <2> SUFFICES ASSUME NEW k \in 1 .. Len(fr)
                 PROVE  /\ V(k) \in a .. b /\ V(k) \in Nat /\ V(k) \in Starts(m)
                        /\ L(k) = Length(m, V(k))
                        /\ L(k) \in Nat \ {0} /\ End(fr[k]) = V(k) + L(k)
                        /\ End(fr[k]) \in Starts(m) \cup {b + 1}
                        /\ End(fr[k]) \in a .. b + 1
                        /\ k + 1 \in 1 .. Len(fr) => End(fr[k]) = V(k + 1)
        OBVIOUS
    <2>1. /\ fr[k].vcn \in a .. b /\ fr[k].vcn \in Starts(m) /\ fr[k].length = Length(m, fr[k].vcn)
          /\ fr[k].length \in Nat \ {0} /\ End(fr[k]) = fr[k].vcn + fr[k].length
          /\ End(fr[k]) \in Starts(m) \cup {b + 1}
          /\ k + 1 \in 1 .. Len(fr) => End(fr[k]) = fr[k + 1].vcn
        BY LeftFollow
    <2>2. Starts(m) \subseteq a .. b
        BY <1>1 DEF Starts
    <2>3. End(fr[k]) \in a .. b + 1
        BY <1>1, <2>1, <2>2
    <2>4. V(k) \in Nat
        BY <1>1, <2>1
    <2> QED
        BY <2>1, <2>3, <2>4
<1>3. total = e - p /\ p < e /\ e \in Nat /\ p \in Nat /\ total \in Nat
    <2>1. total = e - p /\ p < e
        BY RowTotal
    <2>2. p \in Nat /\ e \in a .. b + 1
        BY <1>2
    <2> QED
        BY <1>1, <2>1, <2>2
<1>4. \A k \in first .. last : Little(L(k)) /\ V(k) \in LittleStarts(m) /\ k \in 1 .. Len(fr)
    <2> SUFFICES ASSUME NEW k \in first .. last
                 PROVE  Little(L(k)) /\ V(k) \in LittleStarts(m) /\ k \in 1 .. Len(fr)
        OBVIOUS
    <2>1. k \in 1 .. Len(fr) /\ k \in 1 .. last /\ k >= first
        BY <1>1
    <2>2. Little(L(k))
        BY <2>1 DEF IsRow
    <2>3. V(k) \in Starts(m) /\ Little(Length(m, V(k)))
        BY <1>2, <2>1, <2>2
    <2> QED
        BY <2>1, <2>2, <2>3 DEF LittleStarts, Starts
<1>5. p \in LittleStarts(m) /\ p \in Starts(m) /\ p \in a .. b /\ e \in Starts(m) \cup {b + 1}
      /\ e \in a .. b + 1
    BY <1>1, <1>2, <1>4
<1> HIDE DEF total, p, e
<1>6. CASE c.vcn = p /\ c.length = total /\ c.n = last - first + 1
    <2>1. first + 1 \in first .. last /\ first + 1 <= last
        BY <1>1, <1>6
    <2>2. first + 1 \in 1 .. Len(fr) /\ V(first + 1) \in LittleStarts(m)
        BY <1>4, <2>1
    <2>3. V(first + 1) < e
        BY <2>1, <2>2, RowTotal DEF e
    <2>4. p < V(first + 1)
        <3>1. first < first + 1
            BY <1>1
        <3> QED
            BY <2>2, <3>1 DEF IsFragmentList, p
    <2>5. V(first + 1) \in Starts(m)
        BY <1>2, <2>2
    <2>6. c.vcn + c.length = e
        BY <1>3, <1>6
    <2> HIDE DEF V
    <2>7. CutBefore(m, p) /\ CutAfter(m, b, e)
        BY <1>5 DEF CutBefore, CutAfter
    <2>8. JoinKinds(m, b, p, e, V(first + 1))
        BY <1>5, <2>2, <2>3, <2>4, <2>5, <2>7 DEF JoinKinds
    <2> QED
        BY <1>5, <1>6, <2>6, <2>8 DEF Joins
<1>7. ASSUME last + 1 \in 1 .. Len(fr), NEW cut \in Nat, CutWell(cut, total, fr[last + 1].length),
             c.vcn = p, c.length = total + cut
      PROVE  Joins(m, a, b, c.vcn, c.length)
    <2> DEFINE n == L(last + 1)
               q == e + cut
               d == End(fr[last + 1])
    <2>1. cut \in 1 .. n /\ ~Little(total + cut) /\ (cut = n \/ ~Little(n - cut))
        BY <1>7 DEF CutWell
    <2>2. e = V(last + 1)
        BY <1>2, <1>7 DEF e
    <2>3. /\ e \in Starts(m) /\ n \in Nat /\ n = Length(m, e) /\ d = e + n
          /\ d \in Starts(m) \cup {b + 1} /\ d \in a .. b + 1
        BY <1>2, <1>7, <2>2
    <2> HIDE DEF n, d
    <2>4. q \in Nat /\ e < q /\ q <= d /\ p < e /\ q \in a .. b + 1
        BY <1>1, <1>3, <1>5, <2>1, <2>3
    <2>5. c.vcn + c.length = q /\ q - p = total + cut
        BY <1>3, <1>7
    <2>6. CutAfter(m, b, q)
        <3>1. CASE cut = n
            <4>1. q = d
                BY <2>3, <3>1
            <4> HIDE DEF q
            <4> QED
                BY <2>3, <4>1 DEF CutAfter
        <3>2. CASE cut # n
            <4>1. q < e + Length(m, e) /\ (e + Length(m, e)) - q = n - cut
                BY <1>3, <2>1, <2>3, <3>2
            <4> HIDE DEF q
            <4> QED
                BY <2>1, <2>3, <2>4, <3>2, <4>1 DEF CutAfter
        <3> QED
            BY <3>1, <3>2
    <2> HIDE DEF q
    <2>7. CutBefore(m, p)
        BY <1>5 DEF CutBefore
    <2>8. ~Little(q - p)
        BY <2>1, <2>5
    <2>9. JoinKinds(m, b, p, q, e)
        BY <1>5, <2>3, <2>4, <2>6, <2>7, <2>8 DEF JoinKinds
    <2> QED
        BY <1>5, <1>7, <2>4, <2>5, <2>9 DEF Joins
<1>8. ASSUME first - 1 \in 1 .. Len(fr), NEW cut \in Nat, CutWell(cut, total, fr[first - 1].length),
             c.vcn = End(fr[first - 1]) - cut, c.length = total + cut
      PROVE  Joins(m, a, b, c.vcn, c.length)
    <2> DEFINE n == L(first - 1)
               u == V(first - 1)
               x == p - cut
    <2>1. cut \in 1 .. n /\ ~Little(total + cut) /\ (cut = n \/ ~Little(n - cut))
        BY <1>8 DEF CutWell
    <2>2. first - 1 + 1 = first
        BY <1>1
    <2>3. p = End(fr[first - 1])
        BY <1>2, <1>8, <2>2 DEF p
    <2>4. u \in Starts(m) /\ u \in a .. b /\ u \in Nat /\ n \in Nat /\ n = Length(m, u) /\ p = u + n
        BY <1>2, <1>8, <2>3
    <2> HIDE DEF n, u
    <2>11. x \in Int /\ u <= x /\ x < p /\ x - u = n - cut
        <3>1. \A y, z \in Nat : \A w \in 1 .. z :
                /\ (y + z) - w \in Int /\ y <= (y + z) - w /\ (y + z) - w < y + z
                /\ ((y + z) - w) - y = z - w
            OBVIOUS
        <3> QED
            BY <2>1, <2>4, <3>1
    <2>5. x \in Nat /\ u <= x /\ x < p /\ x \in a .. b
        <3> HIDE DEF x
        <3> QED
            BY <1>1, <1>3, <1>5, <2>4, <2>11
    <2>6. c.vcn = x /\ c.vcn + c.length = e /\ e - x = total + cut
        BY <1>3, <1>8, <2>3
    <2>7. CutBefore(m, x)
        <3>1. CASE cut = n
            <4>1. x = u
                BY <2>4, <3>1
            <4> HIDE DEF x
            <4> QED
                BY <2>4, <4>1 DEF CutBefore
        <3>2. CASE cut # n
            <4>1. u < x /\ x < u + Length(m, u) /\ x - u = n - cut
                <5>1. cut < n
                    BY <2>1, <2>4, <3>2
                <5> HIDE DEF x
                <5> QED
                    BY <2>4, <2>5, <2>11, <5>1
            <4> HIDE DEF x
            <4> QED
                BY <2>1, <2>4, <3>2, <4>1 DEF CutBefore
        <3> QED
            BY <3>1, <3>2
    <2> HIDE DEF x
    <2>8. CutAfter(m, b, e)
        BY <1>5 DEF CutAfter
    <2>9. ~Little(e - x)
        BY <2>1, <2>6
    <2>10. JoinKinds(m, b, x, e, p)
        BY <1>3, <1>5, <2>5, <2>7, <2>8, <2>9 DEF JoinKinds
    <2> QED
        BY <1>5, <2>5, <2>6, <2>10 DEF Joins
<1> QED
    BY <1>6, <1>7, <1>8 DEF IsChoice, total, p, e

-----------------------------------------------------------------------------
(* What the moves achieve.                                                 *)

\* A success moves a chain of a file without holes to lcn and behind.
LEMMA SuccessJoins ==
    ASSUME Sound, NEW f \in Files, NEW a, NEW b, Whole(map[f], a, b),
           NEW p \in a .. b, NEW n \in Nat \ {0}, p + n \in a .. b + 1,
           NEW lcn \in Nat, lcn + n <= NClusters, Vacant(lcn, n), Success(f, p, n, lcn)
    PROVE  Whole(map'[f], a, b) /\ Joined(map'[f], map[f], p, p + n, lcn)
<1> DEFINE m == map[f]
           ch == Chain(m, p, n)
           r == Relocated(m, ch, lcn)
<1>1. /\ IsMap(m) /\ a \in Nat /\ b \in Nat /\ DOMAIN m = a .. b /\ p \in Nat
    BY DEF Whole
<1>2. map'[f] = r
    BY DEF Success, Sound
<1>3. IsMap(map'[f]) /\ DOMAIN map'[f] = DOMAIN m
    <2>1. Sound' /\ Shift(f, Chain(map[f], p, n), lcn, n)
        <3>1. p \in Nat
            BY DEF Whole
        <3> QED
            BY <3>1, SuccessKeeps
    <2> QED
        BY <2>1 DEF Sound, Shift
<1>4. /\ ch \subseteq DOMAIN m
      /\ \A v \in DOMAIN m : v \in ch <=> p <= v /\ Cardinality(Part(m, p, v)) < n
      /\ \A v \in ch : {u \in ch : u < v} = Part(m, p, v)
    BY <1>1, ChainIs
<1>5. \A v \in DOMAIN m : r[v] = IF v \in ch THEN lcn + Cardinality({u \in ch : u < v}) ELSE m[v]
    BY DEF Relocated
<1> HIDE DEF ch, r, m
<1>6. ASSUME NEW v \in DOMAIN m, p <= v PROVE Cardinality(Part(m, p, v)) = v - p
    <2>1. v \in a .. b /\ v \in Nat
        BY <1>1
    <2>2. \A u \in p .. v - 1 : u \in a .. b
        BY <1>1, <2>1
    <2>3. Part(m, p, v) = p .. v - 1
        BY <1>1, <2>2 DEF Part
    <2>4. Cardinality(p .. v - 1) = v - p
        <3>1. p \in Int /\ v - 1 \in Int /\ (p > v - 1 <=> p = v) /\ v - 1 - p + 1 = v - p
            BY <1>1, <1>6, <2>1
        <3>2. Cardinality(p .. v - 1) = IF p > v - 1 THEN 0 ELSE v - 1 - p + 1
            BY <3>1, FS_Interval
        <3> QED
            BY <1>1, <2>1, <3>1, <3>2
    <2> QED
        BY <2>3, <2>4
<1>7. ASSUME NEW v \in DOMAIN m
      PROVE  r[v] = IF p <= v /\ v < p + n THEN lcn + (v - p) ELSE m[v]
    <2>1. v \in Nat
        BY <1>1
    <2>2. v \in ch <=> p <= v /\ v < p + n
        BY <1>1, <1>4, <1>6, <2>1
    <2>3. v \in ch => r[v] = lcn + (v - p)
        BY <1>4, <1>5, <1>6, <2>2
    <2> QED
        BY <1>5, <2>2, <2>3
<1>8. p < p + n
    BY <1>1
<1>9. Joined(map'[f], m, p, p + n, lcn)
    BY <1>2, <1>7, <1>8 DEF Joined
<1> QED
    BY <1>1, <1>3, <1>9 DEF m, Whole

\* What a move that succeeds has to achieve.
Gains(r, m) ==
    /\ CountLittle(r) <= CountLittle(m) /\ Count(r) <= Count(m)
    /\ CountLittle(r) < CountLittle(m) \/ Count(r) < Count(m)

\* A file which is moved as a whole is in one piece.
LEMMA WholeGains ==
    ASSUME threshold \in Nat \ {0}, NEW m, NEW r, NEW a, NEW b, Whole(m, a, b), Whole(r, a, b),
           NEW lcn \in Nat, Joined(r, m, a, b + 1, lcn), Count(m) > 1
    PROVE  Gains(r, m)
<1>1. /\ a \in Nat /\ b \in Nat /\ DOMAIN m = a .. b /\ DOMAIN r = a .. b /\ a < b + 1
      /\ a \in a .. b /\ b + 1 \in a .. b + 1
    BY DEF Whole, Joined
<1>2. Count(m) = Cardinality(Starts(m)) /\ Count(r) = Cardinality(Starts(r))
      /\ CountLittle(m) = Cardinality(LittleStarts(m))
      /\ CountLittle(r) = Cardinality(LittleStarts(r))
    BY DEF Count, CountLittle, Starts, LittleStarts
<1>3. IsFiniteSet({a}) /\ Cardinality({a}) = 1
    BY FS_Singleton
<1>4. Starts(r) \subseteq {a} /\ LittleStarts(r) \subseteq {a}
    <2>1. ASSUME NEW v \in a .. b, Begins(r, v) PROVE v = a
        BY <1>1, <2>1, BeginsJoined
    <2> QED
        BY <1>1, <2>1 DEF Starts, LittleStarts
<1>5. Cardinality(Starts(r)) <= 1 /\ Cardinality(LittleStarts(r)) <= 1
      /\ Cardinality(Starts(r)) \in Nat
    BY <1>3, <1>4, FS_Subset, FS_CardinalityType
<1>6. IsFiniteSet(Starts(m)) /\ IsFiniteSet(LittleStarts(m))
    <2>1. IsFiniteSet(a .. b)
        BY <1>1, FS_Interval
    <2>2. Starts(m) \subseteq a .. b /\ LittleStarts(m) \subseteq a .. b
        BY <1>1 DEF Starts, LittleStarts
    <2> QED
        BY <2>1, <2>2, FS_Subset
<1>7. Cardinality(Starts(m)) \in Nat /\ Cardinality(LittleStarts(m)) \in Nat
    BY <1>6, FS_CardinalityType
<1>10. Cardinality(LittleStarts(r)) \in Nat
    BY <1>3, <1>4, FS_Subset, FS_CardinalityType
<1>8. CASE Little(b + 1 - a)
    <2>1. ASSUME NEW v \in Starts(m) PROVE v \in LittleStarts(m)
        <3>1. v \in a .. b /\ v \in Nat /\ Begins(m, v)
            BY <1>1, <2>1 DEF Starts
        <3>2. Length(m, v) \in Nat /\ v + Length(m, v) \in v + 1 .. b + 1
            BY <3>1, LengthIs
        <3>3. Length(m, v) <= b + 1 - a
            BY <1>1, <3>1, <3>2
        <3>4. Little(Length(m, v))
            BY <1>1, <1>8, <3>2, <3>3, LittleMono
        <3> QED
            BY <1>1, <3>1, <3>4 DEF LittleStarts
    <2>2. LittleStarts(m) = Starts(m)
        BY <2>1 DEF LittleStarts, Starts
    <2> QED
        BY <1>2, <1>5, <1>7, <1>10, <2>2 DEF Gains
<1>9. CASE ~Little(b + 1 - a)
    <2>1. a \notin LittleStarts(r)
        BY <1>1, <1>9, JoinedNotLittle
    <2>2. Cardinality(LittleStarts(r)) = 0
        <3>1. LittleStarts(r) = {}
            BY <1>4, <2>1
        <3> QED
            BY <3>1, FS_EmptySet
    <2> QED
        BY <1>2, <1>5, <1>7, <2>2 DEF Gains
<1> QED
    BY <1>8, <1>9

\* A move changes the places of one file only, and of one which it does not
\* mark as failed only if it succeeds.
LEMMA OnlySuccess ==
    ASSUME Sound, NEW f \in Files, NEW a \in Nat, NEW n \in Nat \ {0}, NEW lcn \in Targets(n),
           MoveFile(f, a, n, lcn)
    PROVE  /\ lcn \in Nat /\ lcn + n <= NClusters /\ Vacant(lcn, n)
           /\ \A g \in Files : DOMAIN map'[g] = DOMAIN map[g]
           /\ \A g \in Files : map'[g] # map[g] /\ g \notin failed' =>
                g = f /\ Success(f, a, n, lcn)
<1>1. n \in Nat /\ lcn \in FirstRegion(0, n) /\ free \subseteq Clusters /\ 0 \in Nat
    BY DEF Targets, Sound
<1>2. lcn \in Nat /\ lcn + n <= NClusters /\ lcn .. lcn + n - 1 \subseteq free
    BY <1>1, FirstRegionIs
<1>3. Vacant(lcn, n)
    BY <1>2, FreeIsVacant
<1>4. CASE Success(f, a, n, lcn)
    <2>1. Shift(f, Chain(map[f], a, n), lcn, n)
        BY <1>2, <1>3, <1>4, SuccessKeeps
    <2> QED
        BY <1>2, <1>3, <1>4, <2>1 DEF Shift
<1>5. CASE MoveFails(f, a, n, lcn)
    <2>1. PICK ch \in SUBSET Chain(map[f], a, n) : Shift(f, ch, lcn, n)
        BY <1>1, <1>2, <1>3, <1>5, FailsKeeps
    <2>2. \A g \in Files : g # f => map'[g] = map[g]
        BY <2>1 DEF Shift
    <2>3. UNCHANGED map \/ f \in failed'
        BY <1>5 DEF MoveFails, Reject, Locked, Failure, disk
    <2> QED
        BY <1>2, <1>3, <2>1, <2>2, <2>3 DEF Shift
<1> QED
    BY <1>4, <1>5 DEF MoveFile

\* Sparse and compressed files may have holes, others have none.
WithoutHoles == \A s \in Scenarios : \A f \in Files : \E a, b \in Nat : DOMAIN s.map[f] = a .. b
NoHoles == \A f \in Files : \E a, b \in Nat : DOMAIN map[f] = a .. b

\* What a step does to the places of the files.
MovesWell ==
    \A f \in Files :
        /\ DOMAIN map'[f] = DOMAIN map[f]
        /\ map'[f] # map[f] /\ f \notin failed' => Gains(map'[f], map[f])

LEMMA MoveEntirelyWell == PassInv /\ TypeInv /\ NoHoles /\ MoveEntirely => MovesWell
<1> SUFFICES ASSUME PassInv, TypeInv, NoHoles, MoveEntirely PROVE MovesWell
    OBVIOUS
<1> DEFINE m == map[file]
           p == FirstVcn(m)
           n == Size(m)
<1>1. Sound /\ file \in Files /\ IsMap(m) /\ threshold \in Nat \ {0} /\ Count(m) > 1
    BY ThresholdIs
    DEF PassInv, PassTypes, TypeInv, Sound, MoveEntirely, InFiles, CanDefragment, Fragmented
<1>2. PICK lcn \in Targets(n) : MoveFile(file, p, n, lcn)
    BY DEF MoveEntirely
<1>3. PICK a \in Nat, b \in Nat : DOMAIN m = a .. b
    BY <1>1 DEF NoHoles
<1>4. p \in DOMAIN m /\ (\A v \in DOMAIN m : p <= v) /\ n \in Nat \ {0}
    BY <1>1, FirstIs, SizeIs
<1>5. p = a /\ n = b + 1 - a /\ a <= b
    <2>1. a <= b
        BY <1>3, <1>4
    <2>2. p = a
        <3> HIDE DEF p, m
        <3>1. a \in a .. b
            BY <2>1
        <3>2. p \in a .. b /\ p <= a
            BY <1>3, <1>4, <3>1
        <3> QED
            BY <3>2
    <2>3. Cardinality(a .. b) = b - a + 1
        BY <1>3, <2>1, FS_Interval
    <2> QED
        BY <1>3, <2>1, <2>2, <2>3 DEF Size
<1>6. Whole(m, a, b) /\ a \in a .. b /\ a + n = b + 1 /\ b + 1 \in a .. b + 1 /\ p \in Nat
    BY <1>1, <1>3, <1>5 DEF Whole
<1> HIDE DEF p, n
<1>7. /\ lcn \in Nat /\ lcn + n <= NClusters /\ Vacant(lcn, n)
      /\ \A g \in Files : DOMAIN map'[g] = DOMAIN map[g]
      /\ \A g \in Files : map'[g] # map[g] /\ g \notin failed' =>
            g = file /\ Success(file, p, n, lcn)
    BY <1>1, <1>2, <1>4, <1>6, OnlySuccess
<1>8. ASSUME Success(file, p, n, lcn) PROVE Gains(map'[file], map[file])
    <2>1. Whole(map'[file], a, b) /\ Joined(map'[file], m, a, a + n, lcn)
        BY <1>1, <1>4, <1>5, <1>6, <1>7, <1>8, SuccessJoins
    <2>2. Joined(map'[file], m, a, b + 1, lcn)
        BY <1>6, <2>1
    <2> QED
        BY <1>1, <1>6, <1>7, <2>1, <2>2, WholeGains
<1> QED
    BY <1>7, <1>8 DEF MovesWell

LEMMA JoinFragmentsWell == PassInv /\ TypeInv /\ NoHoles /\ JoinFragments => MovesWell
<1> SUFFICES ASSUME PassInv, TypeInv, NoHoles, JoinFragments PROVE MovesWell
    OBVIOUS
<1> DEFINE m == map[file]
           fr == Remaining(m)
<1>1. /\ Sound /\ file \in Files /\ IsMap(m) /\ threshold \in Nat \ {0}
      /\ min_vcn \in Nat /\ max_vcn \in Nat
    BY ThresholdIs DEF PassInv, PassTypes, TypeInv, Sound, JoinFragments, Unfinished
<1>2. PICK c \in ToJoin :
        IF Targets(c.length) = {} THEN UNCHANGED moves
        ELSE \E lcn \in Targets(c.length) : MoveFile(file, c.vcn, c.length, lcn)
    BY DEF JoinFragments
<1>3. /\ IsFragmentList(fr, m, LeftStarts(m))
      /\ c.n >= 2 /\ c.vcn \in Nat /\ c.length \in Nat \ {0}
      /\ \E first, last \in 1 .. Len(fr) :
            /\ IsRow(fr, first, last, Largest) /\ first <= last
            /\ IsChoice(c, fr, first, last)
    BY <1>1, ToJoinIs
<1>4. PICK a \in Nat, b \in Nat : DOMAIN m = a .. b
    BY <1>1 DEF NoHoles
<1>5. Whole(m, a, b)
    BY <1>1, <1>4 DEF Whole
<1> HIDE DEF fr
<1>6. Joins(m, a, b, c.vcn, c.length)
    <2>1. PICK first \in 1 .. Len(fr), last \in 1 .. Len(fr) :
            /\ IsRow(fr, first, last, Largest) /\ first <= last
            /\ IsChoice(c, fr, first, last)
        BY <1>3
    <2> QED
        BY <1>1, <1>3, <1>5, <2>1, ChoiceJoins
<1> DEFINE p == c.vcn
           n == c.length
<1>7. /\ p \in a .. b /\ p \in Nat /\ n \in Nat \ {0} /\ p + n \in a .. b + 1
      /\ \E s : JoinKinds(m, b, p, p + n, s)
    BY <1>3, <1>6 DEF Joins
<1>8. UNCHANGED moves \/ \E lcn \in Targets(n) : MoveFile(file, p, n, lcn)
    BY <1>2
<1> HIDE DEF p, n
<1>9. CASE UNCHANGED moves
    BY <1>9 DEF MovesWell, moves, disk
<1>10. ASSUME NEW lcn \in Targets(n), MoveFile(file, p, n, lcn) PROVE MovesWell
    <2>1. /\ lcn \in Nat /\ lcn + n <= NClusters /\ Vacant(lcn, n)
          /\ \A g \in Files : DOMAIN map'[g] = DOMAIN map[g]
          /\ \A g \in Files : map'[g] # map[g] /\ g \notin failed' =>
                g = file /\ Success(file, p, n, lcn)
        BY <1>1, <1>7, <1>10, OnlySuccess
    <2>2. ASSUME Success(file, p, n, lcn) PROVE Gains(map'[file], map[file])
        <3>1. Whole(map'[file], a, b) /\ Joined(map'[file], m, p, p + n, lcn)
            BY <1>1, <1>5, <1>7, <2>1, <2>2, SuccessJoins
        <3>2. PICK s : JoinKinds(m, b, p, p + n, s)
            BY <1>7
        <3> DEFINE r == map'[file]
                   q == p + n
        <3>3. /\ Whole(r, a, b) /\ Joined(r, m, p, q, lcn) /\ JoinKinds(m, b, p, q, s)
              /\ q \in a .. b + 1
            BY <1>7, <3>1, <3>2
        <3> HIDE DEF r, q, m
        <3>4. Helps(r, m)
            BY <1>1, <1>5, <1>7, <2>1, <3>3, JoinHelps
        <3>5. Cardinality({v \in DOMAIN m : Begins(m, v) /\ Little(Length(m, v))}) \in Nat
              /\ Cardinality({v \in DOMAIN r : Begins(r, v) /\ Little(Length(r, v))}) \in Nat
            <4>1. IsFiniteSet(DOMAIN m) /\ IsFiniteSet(DOMAIN r)
                BY <1>5, <3>3 DEF Whole, IsMap
            <4> QED
                BY <4>1, FS_Subset, FS_CardinalityType
        <3>6. CountLittle(r) <= CountLittle(m)
            BY <3>4, <3>5 DEF Helps, CountLittle
        <3> QED
            BY <3>4, <3>6 DEF Helps, Gains, r, m
    <2> QED
        BY <2>1, <2>2 DEF MovesWell
<1> QED
    BY <1>8, <1>9, <1>10

LEMMA StepsMoveWell == PassInv /\ TypeInv /\ NoHoles /\ [Next]_vars => MovesWell
<1> SUFFICES ASSUME PassInv, TypeInv, NoHoles, [Next]_vars PROVE MovesWell
    OBVIOUS
<1>1. CASE MoveEntirely \/ JoinFragments
    BY <1>1, MoveEntirelyWell, JoinFragmentsWell
<1>2. CASE UNCHANGED map
    BY <1>2 DEF MovesWell
<1>3. ASSUME ~ MoveEntirely, ~ JoinFragments PROVE UNCHANGED map
    <2>1. LeaveSequence \/ EndPass \/ SkipFile \/ EnterFile \/ NothingToJoin \/ LeaveFile
          \/ SecondAttempt \/ Finish \/ StopJob => UNCHANGED map
        BY DEF LeaveSequence, EndPass, SkipFile, EnterFile, NothingToJoin, LeaveFile,
               SecondAttempt, Finish, StopJob, volume, disk
    <2>2. BeginPass => UNCHANGED map
        BY DEF BeginPass
    <2>3. UNCHANGED vars => UNCHANGED map
        BY DEF vars, volume, disk
    <2> QED
        BY <1>3, <2>1, <2>2, <2>3 DEF Next, Job, Done
<1> QED
    BY <1>1, <1>2, <1>3

LEMMA HolesInit == WithoutHoles /\ Init => NoHoles
BY DEF WithoutHoles, Init, NoHoles

LEMMA HolesNext == MovesWell /\ NoHoles => NoHoles'
BY DEF MovesWell, NoHoles

\* A move that succeeds leaves fewer fragments or fewer little ones of a file
\* without holes, and more of neither (defragment_file, defrag.c), and the
\* files keep their clusters apart.
THEOREM JoiningAlwaysHelps == WithoutHoles /\ Spec => JoiningHelps
<1>1. WithoutHoles /\ Init => NoHoles
    BY HolesInit
<1>2. NoHoles /\ [Next]_vars /\ PassInv /\ TypeInv => NoHoles'
    BY StepsMoveWell, HolesNext
<1>3. Spec => [](PassInv /\ TypeInv)
    BY TypeInvariance
<1>4. Spec => []TypeOK
    BY FilesStayApart
<1>5. PassInv /\ TypeInv /\ NoHoles /\ TypeOK' /\ [Next]_vars =>
        [TypeOK' /\ \A f \in Files : map'[f] # map[f] /\ f \notin failed' =>
            /\ CountLittle(map'[f]) <= CountLittle(map[f]) /\ Count(map'[f]) <= Count(map[f])
            /\ CountLittle(map'[f]) < CountLittle(map[f]) \/ Count(map'[f]) < Count(map[f])]_vars
    BY StepsMoveWell DEF MovesWell, Gains
<1> QED
    BY <1>1, <1>2, <1>3, <1>4, <1>5, PTL DEF Spec, JoiningHelps
=============================================================================
