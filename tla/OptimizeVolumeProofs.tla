-------------------------- MODULE OptimizeVolumeProofs --------------------------
(***************************************************************************)
(* What module OptimizeVolume promises, for volumes of every size and any  *)
(* number of files.                                                        *)
(*                                                                         *)
(* The argument: a move to a range of clusters which belongs to no file    *)
(* (Vacant) keeps the files apart, whether it succeeds (SuccessKeeps) or   *)
(* fails (FailsKeeps), and changes nothing but the places of the chain     *)
(* (Shift).  The targets of both routines are vacant, since they are free  *)
(* regions or what has been cleaned up and kept away from ever since       *)
(* (Prepared, BlockLeft).  What has been processed of a file lies in order *)
(* before the target of its next portion (Processed); the part of the disk *)
(* the sorting moves files to is clear of the files still to be sorted     *)
(* (Cleared), so each of them moves down.                                  *)
(***************************************************************************)
EXTENDS OptimizeVolume, FiniteSetTheorems, WellFoundedInduction, TLAPS

-----------------------------------------------------------------------------
(* Numbers.                                                                *)

LEMMA LeastNatural ==
    ASSUME NEW T, T \subseteq Nat, T # {}
    PROVE  \E n \in T : \A m \in T : n <= m
<1> DEFINE R == OpToRel(<, Nat)
<1>1. \E x \in T : \A y \in T : ~ (<<y, x>> \in R)
    <2>1. IsWellFoundedOn(R, Nat)
        BY NatLessThanWellFounded
    <2> HIDE DEF R
    <2> QED
        BY <2>1, WFMin
<1>2. PICK x \in T : \A y \in T : ~ (<<y, x>> \in R)
    BY <1>1
<1>3. ASSUME NEW y \in T PROVE x <= y
    <2>1. x \in Nat /\ y \in Nat /\ (y < x => <<y, x>> \in R)
        BY DEF OpToRel
    <2> HIDE DEF R
    <2> QED
        BY <1>2, <2>1
<1> QED
    BY <1>3

\* Every set of natural numbers has a least element.
LEMMA MinIs ==
    ASSUME NEW T, T \subseteq Nat, T # {}
    PROVE  Min(T) \in T /\ \A m \in T : Min(T) <= m
<1>1. \E x \in T : \A y \in T : x =< y
    BY LeastNatural
<1> QED
    BY <1>1 DEF Min

\* Every finite set of natural numbers has a greatest element.
LEMMA MaxIs ==
    ASSUME NEW T, T \subseteq Nat, IsFiniteSet(T), T # {}
    PROVE  Max(T) \in T /\ \A m \in T : m <= Max(T)
<1> DEFINE HasMax(U) == \E x \in U : \A y \in U : x >= y
           Bad == {U \in SUBSET T : U # {} /\ ~HasMax(U)}
           Sizes == {Cardinality(U) : U \in Bad}
<1>1. \A U \in Bad : IsFiniteSet(U) /\ Cardinality(U) \in Nat
    BY FS_Subset, FS_CardinalityType
<1>2. ASSUME Bad # {} PROVE FALSE
    <2>1. Sizes \subseteq Nat /\ Sizes # {}
        BY <1>1, <1>2
    <2>2. PICK k \in Sizes : \A j \in Sizes : k <= j
        <3> HIDE DEF Sizes
        <3> QED
            BY <2>1, LeastNatural
    <2>3. PICK U \in Bad : \A V \in Bad : Cardinality(U) <= Cardinality(V)
        BY <2>2
    <2>4. PICK x \in U : TRUE
        BY <2>3
    <2> DEFINE V == U \ {x}
    <2>5. IsFiniteSet(V) /\ Cardinality(V) = Cardinality(U) - 1
        BY <1>1, <2>4, FS_RemoveElement
    <2>6. V \notin Bad /\ V \in SUBSET T
        <3>1. Cardinality(U) \in Nat /\ (V \in Bad => Cardinality(U) <= Cardinality(V))
            BY <1>1, <2>3
        <3>2. V \in SUBSET T
            BY <2>3
        <3> QED
            BY <2>5, <3>1, <3>2
    <2>7. CASE V = {}
        <3>1. \A y \in U : y = x /\ x \in Nat
            BY <2>4, <2>7
        <3>2. HasMax(U)
            BY <2>4, <3>1
        <3> QED
            BY <2>3, <3>2
    <2>8. CASE V # {}
        <3>1. HasMax(V)
            BY <2>6, <2>8
        <3>2. PICK z \in V : \A y \in V : z >= y
            BY <3>1
        <3>3. x \in Nat /\ z \in Nat /\ z \in U
            BY <2>3, <2>4, <3>2
        <3>4. CASE z >= x
            <4>1. \A y \in U : z >= y
                BY <3>2, <3>4
            <4> QED
                BY <2>3, <3>3, <4>1
        <3>5. CASE x > z
            <4>1. \A y \in U : y \in Nat /\ (y = x \/ z >= y)
                BY <2>3, <3>2
            <4>2. \A y \in U : x >= y
                BY <3>3, <3>5, <4>1
            <4> QED
                BY <2>3, <2>4, <4>2
        <3> QED
            BY <3>3, <3>4, <3>5
    <2> QED
        BY <2>7, <2>8
<1>3. \E x \in T : \A y \in T : x >= y
    BY <1>2
<1>4. Max(T) \in T /\ \A y \in T : Max(T) >= y
    <2> HIDE DEF HasMax, Bad, Sizes
    <2> QED
        BY <1>3 DEF Max
<1> QED
    BY <1>4

\* The lesser of two numbers.
LEMMA MinOfTwo ==
    ASSUME NEW a \in Nat, NEW b \in Nat
    PROVE  /\ Min({a, b}) \in Nat /\ Min({a, b}) <= a /\ Min({a, b}) <= b
           /\ Min({a, b}) \in {a, b}
<1>1. {a, b} \subseteq Nat /\ {a, b} # {}
    OBVIOUS
<1>2. Min({a, b}) \in {a, b} /\ \A m \in {a, b} : Min({a, b}) <= m
    BY <1>1, MinIs
<1> QED
    BY <1>2

-----------------------------------------------------------------------------
(* Maps and chains.                                                        *)

IsMap(m) ==
    /\ DOMAIN m \subseteq Nat /\ IsFiniteSet(DOMAIN m) /\ DOMAIN m # {}
    /\ \A v \in DOMAIN m : m[v] \in Clusters
    /\ \A v, w \in DOMAIN m : m[v] = m[w] => v = w

\* The first VCN of a file.
LEMMA FirstIs ==
    ASSUME NEW m, IsMap(m)
    PROVE  FirstVcn(m) \in DOMAIN m /\ \A v \in DOMAIN m : FirstVcn(m) <= v
BY MinIs DEF IsMap, FirstVcn

\* The VCN behind the last one.
LEMMA EndIs ==
    ASSUME NEW m, IsMap(m)
    PROVE  EndVcn(m) \in Nat /\ \A v \in DOMAIN m : v < EndVcn(m)
<1>1. Max(DOMAIN m) \in DOMAIN m /\ \A v \in DOMAIN m : v <= Max(DOMAIN m)
    BY MaxIs DEF IsMap
<1> QED
    BY <1>1 DEF IsMap, EndVcn

\* The VCNs of a map from a on and below b.
Part(m, a, b) == {u \in DOMAIN m : u \in a .. b - 1}

\* How many clusters of the file are in between.
LEMMA PartIs ==
    ASSUME NEW m, IsMap(m), NEW a \in Nat, NEW b \in Nat
    PROVE  /\ IsFiniteSet(Part(m, a, b)) /\ Cardinality(Part(m, a, b)) \in Nat
           /\ \A u \in Nat : u \in Part(m, a, b) <=> u \in DOMAIN m /\ a <= u /\ u < b
<1>1. IsFiniteSet(Part(m, a, b))
    BY FS_Subset DEF IsMap, Part
<1> QED
    BY <1>1, FS_CardinalityType DEF IsMap, Part

\* A part ending at a VCN of the map is shorter than one which includes it.
LEMMA PartGrows ==
    ASSUME NEW m, IsMap(m), NEW a \in Nat, NEW b \in Nat, NEW v \in DOMAIN m, a <= v, v < b
    PROVE  Cardinality(Part(m, a, v)) < Cardinality(Part(m, a, b))
<1>0. v \in Nat
    BY DEF IsMap
<1>1. Part(m, a, v) \subseteq Part(m, a, b) /\ v \in Part(m, a, b) /\ v \notin Part(m, a, v)
    BY <1>0 DEF Part, IsMap
<1>2. /\ IsFiniteSet(Part(m, a, b)) /\ Cardinality(Part(m, a, b)) \in Nat
      /\ Cardinality(Part(m, a, v)) \in Nat
    BY <1>0, PartIs
<1>3. /\ Cardinality(Part(m, a, v)) <= Cardinality(Part(m, a, b))
      /\ Cardinality(Part(m, a, b)) = Cardinality(Part(m, a, v)) => Part(m, a, b) = Part(m, a, v)
    BY <1>1, <1>2, FS_Subset
<1> QED
    BY <1>1, <1>2, <1>3

\* What a chain consists of, and the rank of each VCN in it.
LEMMA ChainIs ==
    ASSUME NEW m, IsMap(m), NEW a \in Nat, NEW n \in Nat
    PROVE  /\ Chain(m, a, n) \subseteq DOMAIN m /\ IsFiniteSet(Chain(m, a, n))
           /\ \A v \in DOMAIN m : v \in Chain(m, a, n) <=>
                    a <= v /\ Cardinality(Part(m, a, v)) < n
           /\ \A v \in Chain(m, a, n) :
                {u \in Chain(m, a, n) : u < v} = Part(m, a, v)
<1>1. Chain(m, a, n) \subseteq DOMAIN m
    BY DEF Chain
<1>2. \A v \in DOMAIN m : v \in Chain(m, a, n) <=> a <= v /\ Cardinality(Part(m, a, v)) < n
    BY DEF Chain, Part, IsMap
<1>3. IsFiniteSet(Chain(m, a, n))
    BY <1>1, FS_Subset DEF IsMap
<1>4. ASSUME NEW v \in Chain(m, a, n)
      PROVE  {u \in Chain(m, a, n) : u < v} = Part(m, a, v)
    <2>1. v \in DOMAIN m /\ v \in Nat /\ a <= v /\ Cardinality(Part(m, a, v)) < n
        BY <1>1, <1>2 DEF IsMap
    <2>2. ASSUME NEW u \in Chain(m, a, n), u < v PROVE u \in Part(m, a, v)
        <3>1. u \in DOMAIN m /\ u \in Nat /\ a <= u
            BY <1>1, <1>2 DEF IsMap
        <3> QED
            BY <2>1, <2>2, <3>1, PartIs
    <2>3. ASSUME NEW u \in Part(m, a, v) PROVE u \in Chain(m, a, n) /\ u < v
        <3>1. u \in DOMAIN m /\ u \in Nat /\ a <= u /\ u < v
            BY <2>1 DEF Part, IsMap
        <3>2. /\ Cardinality(Part(m, a, u)) < Cardinality(Part(m, a, v))
              /\ Cardinality(Part(m, a, u)) \in Nat /\ Cardinality(Part(m, a, v)) \in Nat
            BY <2>1, <3>1, PartGrows, PartIs
        <3>3. Cardinality(Part(m, a, u)) < n
            BY <2>1, <3>2
        <3> QED
            BY <1>2, <3>1, <3>3
    <2> QED
        BY <2>2, <2>3
<1> QED
    BY <1>1, <1>2, <1>3, <1>4

\* A chain never has more clusters than the move is about.
LEMMA ChainSize ==
    ASSUME NEW m, IsMap(m), NEW a \in Nat, NEW n \in Nat
    PROVE  Cardinality(Chain(m, a, n)) \in Nat /\ Cardinality(Chain(m, a, n)) <= n
<1> DEFINE ch == Chain(m, a, n)
<1>1. IsFiniteSet(ch) /\ ch \subseteq Nat /\ Cardinality(ch) \in Nat
    BY ChainIs, FS_CardinalityType DEF IsMap
<1>2. CASE ch = {}
    BY <1>2, FS_EmptySet
<1>3. CASE ch # {}
    <2> DEFINE v == Max(ch)
    <2>1. v \in ch /\ \A u \in ch : u <= v
        <3> HIDE DEF ch
        <3> QED
            BY <1>1, <1>3, MaxIs
    <2> HIDE DEF v
    <2>2. v \in DOMAIN m /\ v \in Nat /\ Cardinality(Part(m, a, v)) < n /\ Cardinality(Part(m, a, v)) \in Nat
          /\ {u \in ch : u < v} = Part(m, a, v)
        BY <1>1, <2>1, ChainIs, PartIs
    <2>3. ch \ {v} = Part(m, a, v)
        <3>1. \A u \in ch : u \in Nat /\ (u < v <=> u # v)
            BY <1>1, <2>1, <2>2
        <3> HIDE DEF ch
        <3> QED
            BY <2>2, <3>1
    <2>4. Cardinality(ch \ {v}) = Cardinality(ch) - 1
        <3> HIDE DEF ch
        <3> QED
            BY <1>1, <2>1, FS_RemoveElement
    <2> HIDE DEF ch
    <2>5. Cardinality(Part(m, a, v)) = Cardinality(ch) - 1
        BY <2>3, <2>4
    <2>6. Cardinality(ch) <= n
        BY <1>1, <2>2, <2>5
    <2> QED
        BY <1>1, <2>6 DEF ch
<1> QED
    BY <1>1, <1>2, <1>3

\* A shorter chain is a part of a longer one.
LEMMA ChainShorter ==
    ASSUME NEW m, IsMap(m), NEW a \in Nat, NEW n \in Nat, NEW k \in Nat, k <= n
    PROVE  Chain(m, a, k) \subseteq Chain(m, a, n)
<1> SUFFICES ASSUME NEW v \in Chain(m, a, k) PROVE v \in Chain(m, a, n)
    OBVIOUS
<1>1. v \in DOMAIN m /\ v \in Nat /\ a <= v /\ Cardinality(Part(m, a, v)) < k
    BY ChainIs DEF IsMap
<1>2. Cardinality(Part(m, a, v)) < n
    BY <1>1, PartIs
<1> QED
    BY <1>1, <1>2, ChainIs

\* The first VCN belongs to the chain.
LEMMA ChainBegins ==
    ASSUME NEW m, IsMap(m), NEW a \in DOMAIN m, NEW n \in Nat \ {0}
    PROVE  a \in Chain(m, a, n) /\ Part(m, a, a) = {}
<1>1. a \in Nat
    BY DEF IsMap
<1>2. Part(m, a, a) = {}
    BY <1>1 DEF Part
<1>3. Cardinality(Part(m, a, a)) < n
    BY <1>2, FS_EmptySet
<1>4. a \in Chain(m, a, n)
    BY <1>1, <1>3, ChainIs
<1> QED
    BY <1>2, <1>4

-----------------------------------------------------------------------------
(* Free regions.                                                           *)

\* A range of clusters which belongs to no file.
Vacant(lcn, n) == \A f \in Files : \A v \in DOMAIN map[f] : map[f][v] \notin lcn .. lcn + n - 1

Sound ==
    /\ DOMAIN map = Files
    /\ \A f \in Files : IsMap(map[f])
    /\ \A f, g \in Files : \A v \in DOMAIN map[f], w \in DOMAIN map[g] :
            map[f][v] = map[g][w] => f = g
    /\ free \subseteq Clusters
    /\ \A f \in Files : \A v \in DOMAIN map[f] : map[f][v] \notin free
    /\ failed \cup stuck \subseteq Files

\* A free range of clusters is vacant.
LEMMA FreeIsVacant ==
    ASSUME Sound, NEW lcn, NEW n, lcn .. lcn + n - 1 \subseteq free
    PROVE  Vacant(lcn, n)
BY DEF Sound, Vacant

\* A region is a free range on the volume.
LEMMA RegionIs ==
    ASSUME free \subseteq Clusters, NEW r \in Regions
    PROVE  /\ r = [lcn |-> r.lcn, length |-> r.length]
           /\ r.lcn \in Nat /\ r.length \in Nat \ {0} /\ r.lcn + r.length <= NClusters
           /\ r.lcn .. r.lcn + r.length - 1 \subseteq free
<1>1. PICK c \in {d \in free : d - 1 \notin free} :
            r = [lcn |-> c, length |-> Min({n \in 1 .. NClusters : c + n \notin free})]
    BY DEF Regions
<1> DEFINE ends == {n \in 1 .. NClusters : c + n \notin free}
<1>2. c \in Nat /\ c < NClusters /\ NClusters \in Nat /\ NClusters - c \in ends /\ c \in free
    BY VolumeAssumption DEF Clusters
<1>3. ends \subseteq Nat /\ \A n \in ends : n \in 1 .. NClusters
    BY VolumeAssumption
<1>4. r.lcn = c /\ r.length = Min(ends) /\ r = [lcn |-> r.lcn, length |-> r.length]
    BY <1>1
<1>5. Min(ends) \in ends /\ \A m \in ends : Min(ends) <= m
    <2> HIDE DEF ends
    <2> QED
        BY <1>2, <1>3, MinIs
<1> DEFINE n == Min(ends)
<1>6. n \in 1 .. NClusters /\ n <= NClusters - c
    BY <1>2, <1>3, <1>5
<1>7. ASSUME NEW d \in c .. c + n - 1 PROVE d \in free
    <2>1. d - c \in Nat /\ d - c < n /\ d = c + (d - c)
        BY <1>2, <1>6
    <2>2. CASE d - c = 0
        BY <1>2, <2>1, <2>2
    <2>3. CASE d - c # 0
        <3>1. d - c \in 1 .. NClusters /\ d - c \notin ends
            <4>1. ~ (n <= d - c)
                BY <1>6, <2>1
            <4> HIDE DEF n, ends
            <4> QED
                BY <1>2, <1>5, <1>6, <2>1, <2>3, <4>1 DEF n
        <3> QED
            BY <2>1, <3>1
    <2> QED
        BY <2>2, <2>3
<1> HIDE DEF n, ends
<1> QED
    BY <1>2, <1>4, <1>6, <1>7 DEF n

\* So is what find_first_free_region finds, behind min_lcn and long enough.
LEMMA FirstRegionIs ==
    ASSUME free \subseteq Clusters, NEW a \in Nat, NEW n \in Nat, NEW c \in FirstRegion(a, n)
    PROVE  /\ ~stopped /\ c \in Nat /\ c >= a /\ c < NClusters /\ c + n <= NClusters
           /\ c .. c + n - 1 \subseteq free
<1> DEFINE fits == {r.lcn : r \in {q \in Regions : q.lcn >= a /\ q.length >= n}}
<1>1. ~stopped /\ fits # {} /\ c = Min(fits)
    BY DEF FirstRegion
<1>2. fits \subseteq Nat
    BY RegionIs
<1>3. c \in fits
    <2> HIDE DEF fits
    <2> QED
        BY <1>1, <1>2, MinIs
<1>4. PICK r \in Regions : c = r.lcn /\ r.lcn >= a /\ r.length >= n
    BY <1>3
<1>5. /\ r.lcn \in Nat /\ r.length \in Nat \ {0} /\ r.lcn + r.length <= NClusters
      /\ r.lcn .. r.lcn + r.length - 1 \subseteq free
    BY <1>4, RegionIs
<1>6. c .. c + n - 1 \subseteq free
    BY <1>4, <1>5
<1> QED
    BY <1>1, <1>4, <1>5, <1>6, VolumeAssumption

\* Where a piece of a block which is in the way goes to.
LEMMA PieceIs ==
    ASSUME free \subseteq Clusters, NEW b \in Nat, NEW p \in Pieces(b),
           cleaning.left \in Nat \ {0}, cleaning.last \in Nat
    PROVE  /\ p.lcn \in Nat /\ p.length \in 1 .. cleaning.left /\ p.lcn + p.length <= NClusters
           /\ p.lcn .. p.lcn + p.length - 1 \subseteq free
           /\ p.lcn > cleaning.last \/ p.lcn + p.length <= b
<1>1. PICK r \in LastRegion(b, cleaning.last) :
            p = LET n == Min({r.length, cleaning.left})
                IN [lcn |-> r.lcn + r.length - n, length |-> n]
    BY DEF Pieces
<1> DEFINE n == Min({r.length, cleaning.left})
<1>2. /\ r \in Regions /\ (r.lcn > cleaning.last \/ r.lcn + r.length <= b)
    BY DEF LastRegion
<1>3. /\ r.lcn \in Nat /\ r.length \in Nat \ {0} /\ r.lcn + r.length <= NClusters
      /\ r.lcn .. r.lcn + r.length - 1 \subseteq free
    BY <1>2, RegionIs
<1>4. n \in Nat /\ n <= r.length /\ n <= cleaning.left /\ n # 0
    BY <1>3, MinOfTwo
<1>5. p.lcn = r.lcn + r.length - n /\ p.length = n
    BY <1>1
<1> HIDE DEF n
<1>6. p.lcn \in Nat /\ p.lcn >= r.lcn /\ p.lcn + p.length = r.lcn + r.length
    BY <1>3, <1>4, <1>5
<1>7. p.lcn .. p.lcn + p.length - 1 \subseteq free
    BY <1>3, <1>4, <1>5, <1>6
<1>8. r.lcn > cleaning.last => p.lcn > cleaning.last
    BY <1>3, <1>6
<1> QED
    BY <1>2, <1>3, <1>4, <1>5, <1>6, <1>7, <1>8

-----------------------------------------------------------------------------
(* Moves.                                                                  *)

LEMMA RelocatedIs ==
    ASSUME NEW m, IsMap(m), NEW a \in Nat, NEW k \in Nat, NEW n \in Nat, k <= n,
           NEW lcn \in Nat, lcn + n <= NClusters,
           \A v \in DOMAIN m : m[v] \notin lcn .. lcn + n - 1
    PROVE  LET ch == Chain(m, a, k)
               r == Relocated(m, ch, lcn)
           IN /\ IsMap(r) /\ DOMAIN r = DOMAIN m /\ ch \subseteq DOMAIN m
              /\ \A v \in DOMAIN m \ ch : r[v] = m[v]
              /\ \A v \in ch : r[v] \in lcn .. lcn + n - 1
              /\ \A v, w \in ch : v < w => r[v] < r[w]
              /\ a \in ch => r[a] = lcn
<1> DEFINE ch == Chain(m, a, k)
           r == Relocated(m, ch, lcn)
<1>1. /\ ch \subseteq DOMAIN m
      /\ \A v \in ch : {u \in ch : u < v} = Part(m, a, v)
      /\ \A v \in ch : v \in Nat /\ a <= v /\ Cardinality(Part(m, a, v)) < k
    BY ChainIs DEF IsMap
<1> HIDE DEF ch
<1>2. /\ DOMAIN r = DOMAIN m
      /\ \A v \in DOMAIN m \ ch : r[v] = m[v]
      /\ \A v \in ch : r[v] = lcn + Cardinality({u \in ch : u < v})
    BY <1>1 DEF Relocated
<1>3. \A v \in ch : r[v] = lcn + Cardinality(Part(m, a, v))
    BY <1>1, <1>2
<1>4. \A v \in ch : Cardinality(Part(m, a, v)) \in 0 .. k - 1
    BY <1>1, PartIs
<1> HIDE DEF r
<1>5. \A v \in ch : r[v] \in lcn .. lcn + n - 1
    BY <1>3, <1>4
<1>6. ASSUME NEW v \in ch, NEW w \in ch, v < w PROVE r[v] < r[w]
    <2>1. Cardinality(Part(m, a, v)) < Cardinality(Part(m, a, w))
        BY <1>1, <1>6, PartGrows
    <2> QED
        BY <1>3, <1>4, <2>1
<1>7. a \in ch => r[a] = lcn
    <2> SUFFICES ASSUME a \in ch PROVE r[a] = lcn
        OBVIOUS
    <2>1. Part(m, a, a) = {}
        BY DEF Part
    <2>2. Cardinality(Part(m, a, a)) = 0
        BY <2>1, FS_EmptySet
    <2> QED
        BY <1>3, <2>2
<1>8. IsMap(r)
    <2>1. lcn .. lcn + n - 1 \subseteq Clusters
        BY VolumeAssumption DEF Clusters
    <2>2. \A v \in DOMAIN m : r[v] \in Clusters
        BY <1>2, <1>5, <2>1 DEF IsMap
    <2>3. ASSUME NEW v \in DOMAIN m, NEW w \in DOMAIN m, r[v] = r[w] PROVE v = w
        <3>1. v \in Nat /\ w \in Nat
            BY DEF IsMap
        <3>2. CASE v \in ch /\ w \in ch
            <4>1. ~ (v < w) /\ ~ (w < v)
                <5>1. r[v] \in Nat /\ r[w] \in Nat
                    BY <1>5, <3>2
                <5> QED
                    BY <1>6, <2>3, <3>2, <5>1
            <4> QED
                BY <3>1, <4>1
        <3>3. CASE v \notin ch /\ w \notin ch
            BY <1>2, <2>3, <3>3 DEF IsMap
        <3>4. CASE v \in ch /\ w \notin ch
            BY <1>2, <1>5, <2>3, <3>4
        <3>5. CASE v \notin ch /\ w \in ch
            BY <1>2, <1>5, <2>3, <3>5
        <3> QED
            BY <3>2, <3>3, <3>4, <3>5
    <2> QED
        BY <1>2, <2>2, <2>3 DEF IsMap
<1> QED
    BY <1>1, <1>2, <1>5, <1>6, <1>7, <1>8 DEF r, ch

\* The chain ch of the file gets to n clusters from lcn on.
Shift(f, ch, lcn, n) ==
    /\ DOMAIN map' = Files
    /\ \A g \in Files : DOMAIN map'[g] = DOMAIN map[g] /\ (g # f => map'[g] = map[g])
    /\ ch \subseteq DOMAIN map[f]
    /\ \A v \in DOMAIN map[f] \ ch : map'[f][v] = map[f][v]
    /\ \A v \in ch : map'[f][v] \in lcn .. lcn + n - 1
    /\ \A v, w \in ch : v < w => map'[f][v] < map'[f][w]

\* Each place is what it was or lies within the target.
LEMMA ShiftKeeps ==
    ASSUME Sound, NEW f \in Files, NEW a \in Nat, NEW k \in Nat, NEW n \in Nat, k <= n,
           NEW lcn \in Nat, lcn + n <= NClusters, Vacant(lcn, n),
           map' = [map EXCEPT ![f] = Relocated(map[f], Chain(map[f], a, k), lcn)]
    PROVE  LET ch == Chain(map[f], a, k)
           IN /\ Shift(f, ch, lcn, n)
              /\ a \in ch => map'[f][a] = lcn
              /\ \A g \in Files : IsMap(map'[g])
              /\ \A g, h \in Files : \A v \in DOMAIN map'[g], w \in DOMAIN map'[h] :
                    map'[g][v] = map'[h][w] => g = h
<1> DEFINE ch == Chain(map[f], a, k)
           r == Relocated(map[f], ch, lcn)
<1>1. /\ IsMap(r) /\ DOMAIN r = DOMAIN map[f] /\ ch \subseteq DOMAIN map[f]
      /\ \A v \in DOMAIN map[f] \ ch : r[v] = map[f][v]
      /\ \A v \in ch : r[v] \in lcn .. lcn + n - 1
      /\ \A v, w \in ch : v < w => r[v] < r[w]
      /\ a \in ch => r[a] = lcn
    BY RelocatedIs DEF Sound, Vacant
<1>2. DOMAIN map' = Files /\ map'[f] = r /\ \A g \in Files : g # f => map'[g] = map[g]
    BY DEF Sound
<1> HIDE DEF r, ch
<1>3. Shift(f, ch, lcn, n)
    BY <1>1, <1>2 DEF Shift
<1>4. \A g \in Files : IsMap(map'[g])
    BY <1>1, <1>2 DEF Sound
<1>5. \A g \in Files : \A v \in DOMAIN map'[g] :
            \/ v \in DOMAIN map[g] /\ map'[g][v] = map[g][v]
            \/ g = f /\ map'[g][v] \in lcn .. lcn + n - 1
    BY <1>1, <1>2
<1>6. ASSUME NEW g \in Files, NEW h \in Files, NEW v \in DOMAIN map'[g], NEW w \in DOMAIN map'[h],
             map'[g][v] = map'[h][w]
      PROVE  g = h
    BY <1>5, <1>6 DEF Sound, Vacant
<1> QED
    BY <1>1, <1>2, <1>3, <1>4, <1>6 DEF ch

\* A success moves the whole chain.
LEMMA SuccessKeeps ==
    ASSUME Sound, NEW f \in Files, NEW a \in Nat, NEW n \in Nat \ {0},
           NEW lcn \in Nat, lcn + n <= NClusters, Vacant(lcn, n), Success(f, a, n, lcn)
    PROVE  /\ Sound' /\ Shift(f, Chain(map[f], a, n), lcn, n)
           /\ a \in Chain(map[f], a, n) /\ map'[f][a] = lcn
           /\ UNCHANGED <<fs, others, failed, stuck>>
<1> DEFINE ch == Chain(map[f], a, n)
<1>1. /\ map' = [map EXCEPT ![f] = Relocated(map[f], ch, lcn)]
      /\ free' = (free \ (lcn .. lcn + n - 1)) \cup IF fs # "FAT" THEN {} ELSE {map[f][v] : v \in ch}
      /\ UNCHANGED <<fs, others, failed, stuck>> /\ a \in DOMAIN map[f]
    BY DEF Success, Improper
<1>2. a \in ch
    BY <1>1, ChainBegins DEF Sound
<1>3. /\ Shift(f, ch, lcn, n)
      /\ a \in ch => map'[f][a] = lcn
      /\ \A g \in Files : IsMap(map'[g])
      /\ \A g, h \in Files : \A v \in DOMAIN map'[g], w \in DOMAIN map'[h] :
            map'[g][v] = map'[h][w] => g = h
    <2>1. map' = [map EXCEPT ![f] = Relocated(map[f], Chain(map[f], a, n), lcn)] /\ n <= n
        BY <1>1
    <2> QED
        BY <2>1, ShiftKeeps
<1> HIDE DEF ch
<1>4. free' \subseteq Clusters
    BY <1>1, <1>3 DEF Sound, IsMap, Shift
<1>5. ASSUME NEW g \in Files, NEW v \in DOMAIN map'[g] PROVE map'[g][v] \notin free'
    <2>1. CASE g = f /\ v \in ch
        <3>1. map'[g][v] \in lcn .. lcn + n - 1
            BY <1>3, <2>1 DEF Shift
        <3>2. \A w \in ch : map[f][w] \notin lcn .. lcn + n - 1
            BY <1>3 DEF Shift, Vacant
        <3> QED
            BY <1>1, <3>1, <3>2
    <2>2. CASE ~ (g = f /\ v \in ch)
        <3>1. v \in DOMAIN map[g] /\ map'[g][v] = map[g][v]
            BY <1>3, <2>2 DEF Shift
        <3>2. \A w \in ch : w \in DOMAIN map[f] /\ map[f][w] # map[g][v]
            BY <1>3, <2>2, <3>1 DEF Sound, IsMap, Shift
        <3> QED
            BY <1>1, <3>1, <3>2 DEF Sound
    <2> QED
        BY <2>1, <2>2
<1>6. Sound'
    BY <1>1, <1>3, <1>4, <1>5 DEF Sound, Shift
<1> QED
    BY <1>1, <1>2, <1>3, <1>6 DEF ch

\* A failure moves a part of it, or nothing.
LEMMA PartlyKeeps ==
    ASSUME Sound, NEW f \in Files, NEW a \in Nat, NEW n \in Nat,
           NEW lcn \in Nat, lcn + n <= NClusters, Vacant(lcn, n),
           Partly(f, a, n, lcn), failed' \cup stuck' \subseteq Files
    PROVE  /\ Sound' /\ UNCHANGED <<fs, stuck>>
           /\ \E ch \in SUBSET Chain(map[f], a, n) : Shift(f, ch, lcn, n)
<1>1. PICK k \in 0 .. Cardinality(Chain(map[f], a, n)) - 1 :
            map' = [map EXCEPT ![f] = Relocated(map[f], Chain(map[f], a, k), lcn)]
    BY DEF Partly
<1>2. IsMap(map[f])
    BY DEF Sound
<1>3. k \in Nat /\ k <= n
    BY <1>1, <1>2, ChainSize
<1>4. Chain(map[f], a, k) \subseteq Chain(map[f], a, n)
    BY <1>2, <1>3, ChainShorter
<1> DEFINE ch == Chain(map[f], a, k)
<1>5. /\ Shift(f, ch, lcn, n)
      /\ \A g \in Files : IsMap(map'[g])
      /\ \A g, h \in Files : \A v \in DOMAIN map'[g], w \in DOMAIN map'[h] :
            map'[g][v] = map'[h][w] => g = h
    BY <1>1, <1>3, ShiftKeeps
<1> HIDE DEF ch
<1>6. free' = free \ (lcn .. lcn + n - 1) /\ UNCHANGED <<fs, stuck>>
    BY DEF Partly
<1>7. ASSUME NEW g \in Files, NEW v \in DOMAIN map'[g] PROVE map'[g][v] \notin free'
    BY <1>5, <1>6 DEF Sound, Shift
<1>8. Sound'
    BY <1>5, <1>6, <1>7 DEF Sound, Shift
<1> QED
    BY <1>4, <1>5, <1>6, <1>8 DEF ch

\* A call which is rejected moves nothing, and the file is marked.
LEMMA FailsKeeps ==
    ASSUME Sound, NEW f \in Files, NEW a \in Nat, NEW n \in Nat,
           NEW lcn \in Nat, lcn + n <= NClusters, Vacant(lcn, n), MoveFails(f, a, n, lcn)
    PROVE  /\ Sound' /\ fs' = fs /\ f \in failed' \cup stuck'
           /\ failed \subseteq failed' /\ stuck \subseteq stuck'
           /\ \E ch \in SUBSET Chain(map[f], a, n) : Shift(f, ch, lcn, n)
<1>1. CASE Reject(f, a, n, lcn) \/ Locked(f, a, n, lcn)
    <2>1. /\ UNCHANGED <<fs, map, others, free, failed>> /\ stuck' = stuck \cup {f}
        BY <1>1 DEF Reject, Locked, disk
    <2>2. Sound'
        BY <2>1 DEF Sound
    <2>3. Shift(f, {}, lcn, n)
        BY <2>1 DEF Sound, Shift
    <2> QED
        BY <2>1, <2>2, <2>3
<1>2. CASE Failure(f, a, n, lcn)
    <2>1. Partly(f, a, n, lcn) /\ failed' = failed \cup {f} /\ stuck' = stuck
        BY <1>2 DEF Failure, Partly
    <2>2. failed' \cup stuck' \subseteq Files
        BY <2>1 DEF Sound
    <2>3. /\ Sound' /\ UNCHANGED <<fs, stuck>>
          /\ \E ch \in SUBSET Chain(map[f], a, n) : Shift(f, ch, lcn, n)
        BY <2>1, <2>2, PartlyKeeps
    <2> QED
        BY <2>1, <2>3
<1> QED
    BY <1>1, <1>2 DEF MoveFails

-----------------------------------------------------------------------------
(* Blocks.                                                                 *)

\* A set of VCNs without gaps.
LEMMA RunIs ==
    ASSUME NEW S, S \subseteq Nat, IsFiniteSet(S), NEW v \in S,
           \A u \in S : v <= u /\ \A w \in v .. u : w \in S
    PROVE  Cardinality(S) \in Nat \ {0} /\ S = v .. v + Cardinality(S) - 1
<1> DEFINE last == Max(S)
<1>1. last \in S /\ \A u \in S : u <= last
    BY MaxIs
<1> HIDE DEF last
<1>2. v \in Nat /\ last \in Nat /\ v <= last
    BY <1>1
<1>3. S = v .. last
    <2>1. \A u \in S : u \in v .. last
        BY <1>1, <1>2
    <2>2. \A w \in v .. last : w \in S
        BY <1>1
    <2> QED
        BY <2>1, <2>2
<1>4. Cardinality(v .. last) = last - v + 1
    BY <1>2, FS_Interval
<1> QED
    BY <1>2, <1>3, <1>4

\* The blocks are runs on the disk.
LEMMA BlockIs ==
    ASSUME Sound, NEW f \in Files, NEW b \in BlocksOf(f)
    PROVE  /\ b = [file |-> f, vcn |-> b.vcn, lcn |-> b.lcn, length |-> b.length]
           /\ b.vcn \in DOMAIN map[f] /\ b.vcn \in Nat /\ b.length \in Nat \ {0}
           /\ b.lcn = map[f][b.vcn] /\ b.lcn \in Nat /\ b.lcn + b.length <= NClusters
           /\ \A i \in 0 .. b.length - 1 :
                b.vcn + i \in DOMAIN map[f] /\ map[f][b.vcn + i] = b.lcn + i
<1> DEFINE m == map[f]
           S(v) == {u \in DOMAIN m : u >= v /\ \A w \in v + 1 .. u : w \in DOMAIN m /\ ~IsBlock(m, w)}
<1>1. PICK v \in DOMAIN m : b = [file |-> f, vcn |-> v, lcn |-> m[v], length |-> BlockLength(m, v)]
    BY DEF BlocksOf
<1>2. IsMap(m)
    BY DEF Sound
<1> HIDE DEF m
<1>3. v \in Nat /\ m[v] \in Nat /\ m[v] < NClusters
    BY <1>1, <1>2, VolumeAssumption DEF IsMap, Clusters
<1> DEFINE T == S(v)
<1>4. T \subseteq DOMAIN m /\ T \subseteq Nat /\ v \in T
    BY <1>1, <1>2, <1>3 DEF IsMap
<1>5. IsFiniteSet(T)
    BY <1>2, <1>4, FS_Subset DEF IsMap
<1>6. ASSUME NEW u \in T PROVE v <= u /\ \A w \in v .. u : w \in T
    <2>1. u \in Nat /\ v <= u /\ \A w \in v + 1 .. u : w \in DOMAIN m /\ ~IsBlock(m, w)
        BY <1>3, <1>4
    <2>2. ASSUME NEW w \in v .. u PROVE w \in T
        <3>1. w = v \/ w \in v + 1 .. u
            BY <1>3, <2>1
        <3>2. w \in DOMAIN m /\ w >= v
            BY <1>1, <1>3, <2>1, <3>1
        <3>3. v + 1 .. w \subseteq v + 1 .. u
            BY <1>3, <2>1
        <3> QED
            BY <2>1, <3>2, <3>3
    <2> QED
        BY <2>1, <2>2
<1>7. Cardinality(T) \in Nat \ {0} /\ T = v .. v + Cardinality(T) - 1
    <2> HIDE DEF T
    <2> QED
        BY <1>4, <1>5, <1>6, RunIs
<1>8. BlockLength(m, v) = Cardinality(T)
    BY DEF BlockLength
<1>9. \A w \in T : w # v => w - 1 \in T /\ m[w] = m[w - 1] + 1
    <2> SUFFICES ASSUME NEW w \in T, w # v
                 PROVE  w - 1 \in T /\ m[w] = m[w - 1] + 1
        OBVIOUS
    <2>1. w \in Nat /\ v <= w /\ w - 1 \in v .. w /\ w \in v + 1 .. w
        BY <1>3, <1>4, <1>6
    <2>2. w - 1 \in T /\ ~IsBlock(m, w)
        BY <1>6, <2>1
    <2> QED
        BY <1>4, <2>2 DEF IsBlock
<1> DEFINE n == Cardinality(T)
           Bad == {i \in 0 .. n - 1 : m[v + i] # m[v] + i}
<1> HIDE DEF T, n
<1>10. ASSUME Bad # {} PROVE FALSE
    <2>1. Bad \subseteq Nat
        OBVIOUS
    <2>2. PICK i \in Bad : \A j \in Bad : i <= j
        <3> HIDE DEF Bad
        <3> QED
            BY <1>10, <2>1, LeastNatural
    <2>3. i \in Nat /\ i < n /\ i # 0 /\ n \in Nat
        BY <1>3, <1>7, <2>2 DEF n
    <2>4. i - 1 \in 0 .. n - 1 /\ i - 1 \notin Bad
        BY <2>2, <2>3
    <2>5. m[v + (i - 1)] = m[v] + (i - 1)
        BY <2>4
    <2>6. v + i \in T /\ v + i # v /\ v + (i - 1) = v + i - 1
        BY <1>3, <1>7, <2>3 DEF n
    <2>7. PICK w \in T : w = v + i
        BY <2>6
    <2>8. m[w] = m[w - 1] + 1 /\ w - 1 = v + (i - 1)
        BY <1>3, <1>9, <2>3, <2>6, <2>7
    <2>9. m[v + i] = m[v] + i
        BY <1>3, <2>3, <2>5, <2>7, <2>8
    <2> QED
        BY <2>2, <2>9
<1>11. \A i \in 0 .. n - 1 : v + i \in DOMAIN m /\ m[v + i] = m[v] + i
    <2>1. \A i \in 0 .. n - 1 : v + i \in T
        BY <1>3, <1>7 DEF n
    <2> QED
        BY <1>4, <1>10, <2>1
<1>12. m[v] + n <= NClusters
    <2>1. n - 1 \in 0 .. n - 1 /\ n \in Nat
        BY <1>7 DEF n
    <2>2. m[v + (n - 1)] \in Clusters /\ m[v + (n - 1)] = m[v] + (n - 1)
        BY <1>2, <1>11, <2>1 DEF IsMap
    <2> QED
        BY <1>3, <2>1, <2>2, VolumeAssumption DEF Clusters
<1> HIDE DEF Bad
<1>13. b.vcn = v /\ b.lcn = m[v] /\ b.length = n /\ b = [file |-> f, vcn |-> v, lcn |-> m[v], length |-> n]
    BY <1>1, <1>8 DEF n
<1> QED
    BY <1>1, <1>3, <1>7, <1>11, <1>12, <1>13 DEF m, n

\* A chain within a block is a range of VCNs.
LEMMA ChainOfRun ==
    ASSUME NEW m, IsMap(m), NEW a \in Nat, NEW n \in Nat,
           \A i \in 0 .. n - 1 : a + i \in DOMAIN m
    PROVE  Chain(m, a, n) = a .. a + n - 1
<1>1. ASSUME NEW v \in a .. a + n - 1 PROVE v \in Chain(m, a, n)
    <2>1. v \in Nat /\ a <= v /\ v - a \in 0 .. n - 1 /\ v = a + (v - a)
        OBVIOUS
    <2>2. v \in DOMAIN m
        BY <2>1
    <2>3. Part(m, a, v) \subseteq a .. v - 1
        BY <2>1 DEF Part
    <2>4. IsFiniteSet(a .. v - 1) /\ Cardinality(a .. v - 1) = v - a
        BY <2>1, FS_Interval
    <2>5. Cardinality(Part(m, a, v)) <= v - a
        BY <2>3, <2>4, FS_Subset
    <2>6. Cardinality(Part(m, a, v)) \in Nat
        BY <2>1, PartIs
    <2>7. Cardinality(Part(m, a, v)) < n
        BY <2>1, <2>5, <2>6
    <2> QED
        BY <2>1, <2>2, <2>7, ChainIs
<1>2. ASSUME NEW v \in Chain(m, a, n) PROVE v \in a .. a + n - 1
    <2>1. v \in DOMAIN m /\ v \in Nat /\ a <= v /\ Cardinality(Part(m, a, v)) < n
        BY ChainIs DEF IsMap
    <2>2. ASSUME a + n <= v PROVE FALSE
        <3>1. a .. a + n - 1 \subseteq Part(m, a, v)
            <4>1. ASSUME NEW u \in a .. a + n - 1 PROVE u \in Part(m, a, v)
                <5>1. u - a \in 0 .. n - 1 /\ u = a + (u - a) /\ u \in a .. v - 1
                    BY <2>1, <2>2
                <5> QED
                    BY <5>1 DEF Part
            <4> QED
                BY <4>1
        <3>2. IsFiniteSet(Part(m, a, v)) /\ Cardinality(Part(m, a, v)) \in Nat
            BY <2>1, PartIs
        <3>3. Cardinality(a .. a + n - 1) <= Cardinality(Part(m, a, v))
            BY <3>1, <3>2, FS_Subset
        <3>4. Cardinality(a .. a + n - 1) = n
            BY FS_Interval
        <3> QED
            BY <2>1, <3>2, <3>3, <3>4
    <2> QED
        BY <2>1, <2>2
<1> QED
    BY <1>1, <1>2

\* The first VCN of a file begins a block.
LEMMA FirstBegins ==
    ASSUME Sound, NEW f \in Files
    PROVE  \E b \in BlocksOf(f) : b.vcn = FirstVcn(map[f]) /\ b.file = f
<1>1. /\ FirstVcn(map[f]) \in DOMAIN map[f] /\ \A v \in DOMAIN map[f] : FirstVcn(map[f]) <= v
      /\ FirstVcn(map[f]) \in Nat
    BY FirstIs DEF Sound, IsMap
<1>2. FirstVcn(map[f]) - 1 \notin DOMAIN map[f]
    BY <1>1
<1>3. IsBlock(map[f], FirstVcn(map[f]))
    BY <1>1, <1>2 DEF IsBlock
<1> DEFINE v == FirstVcn(map[f])
           b == [file |-> f, vcn |-> v, lcn |-> map[f][v], length |-> BlockLength(map[f], v)]
<1>4. v \in {u \in DOMAIN map[f] : IsBlock(map[f], u)}
    BY <1>1, <1>3
<1> HIDE DEF v
<1>5. b \in BlocksOf(f) /\ b.vcn = v /\ b.file = f
    BY <1>4 DEF BlocksOf
<1> QED
    BY <1>5 DEF v

-----------------------------------------------------------------------------
(* Blocks which are moved out of the way.                                  *)

Cleaning == [file : Files \cup {None}, vcn : Nat, left : Nat, lcn : Nat, last : Nat]

\* What is left of a block when a piece of it has been moved.
Rest(c, a, b) == [c EXCEPT !.vcn = a, !.left = b]

\* The updates of a record, field by field.
LEMMA RestIs ==
    ASSUME NEW c \in Cleaning, NEW a, NEW b
    PROVE  /\ Rest(c, a, b).file = c.file /\ Rest(c, a, b).vcn = a /\ Rest(c, a, b).left = b
           /\ Rest(c, a, b).lcn = c.lcn /\ Rest(c, a, b).last = c.last
           /\ a \in Nat /\ b \in Nat => Rest(c, a, b) \in Cleaning
<1> DEFINE e == [c EXCEPT !.vcn = a]
           d == [c EXCEPT !.vcn = a, !.left = b]
<1>1. PICK f, v, l, x, y : c = [file |-> f, vcn |-> v, left |-> l, lcn |-> x, last |-> y]
    BY DEF Cleaning
<1>2. e = [file |-> f, vcn |-> a, left |-> l, lcn |-> x, last |-> y]
    BY <1>1
<1>3. d = [e EXCEPT !.left = b]
    BY Zenon
<1> HIDE DEF e, d
<1>4. d = [file |-> f, vcn |-> a, left |-> b, lcn |-> x, last |-> y]
    BY <1>2, <1>3
<1>5. /\ f = c.file /\ x = c.lcn /\ y = c.last
    BY <1>1
<1>6. f \in Files \cup {None} /\ x \in Nat /\ y \in Nat
    BY <1>5 DEF Cleaning
<1>7. d.file = c.file /\ d.vcn = a /\ d.left = b /\ d.lcn = c.lcn /\ d.last = c.last
    BY <1>4, <1>5
<1>8. a \in Nat /\ b \in Nat => d \in Cleaning
    BY <1>4, <1>6 DEF Cleaning
<1>9. d = Rest(c, a, b)
    BY Zenon DEF d, Rest
<1> QED
    BY <1>7, <1>8, <1>9

\* A piece has been moved.
Continued(p) ==
    /\ cleaning'.file = cleaning.file /\ cleaning'.vcn = cleaning.vcn + p.length
    /\ cleaning'.left = cleaning.left - p.length
    /\ cleaning'.lcn = cleaning.lcn /\ cleaning'.last = cleaning.last
    /\ cleaning'.vcn \in Nat /\ cleaning'.left \in Nat => cleaning' \in Cleaning

\* One of the pieces has been moved, and the rest follows.
LEMMA PieceMovedIs ==
    ASSUME NEW r, PieceMoved(r), cleaning \in Cleaning
    PROVE  \E p \in Pieces(r) :
              Success(cleaning.file, cleaning.vcn, p.length, p.lcn) /\ Continued(p)
<1>1. PICK p \in Pieces(r) :
        /\ Success(cleaning.file, cleaning.vcn, p.length, p.lcn)
        /\ cleaning' = Rest(cleaning, cleaning.vcn + p.length, cleaning.left - p.length)
    BY Zenon DEF PieceMoved, Rest
<1> QED
    BY <1>1, RestIs DEF Continued

\* Its target is vacant, so the files stay apart.
LEMMA PieceMovedKeeps ==
    ASSUME Sound, cleaning \in Cleaning, cleaning.file \in Files, cleaning.left # 0,
           NEW r \in Nat, PieceMoved(r)
    PROVE  \E p \in Pieces(r) :
            LET ch == Chain(map[cleaning.file], cleaning.vcn, p.length)
            IN /\ p.length \in 1 .. cleaning.left /\ p.lcn \in Nat
               /\ p.lcn > cleaning.last \/ p.lcn + p.length <= r
               /\ Sound' /\ Shift(cleaning.file, ch, p.lcn, p.length) /\ cleaning.vcn \in ch
               /\ Continued(p) /\ cleaning' \in Cleaning
               /\ UNCHANGED <<fs, failed, stuck>>
<1>1. PICK p \in Pieces(r) :
            Success(cleaning.file, cleaning.vcn, p.length, p.lcn) /\ Continued(p)
    BY PieceMovedIs
<1>2. cleaning.vcn \in Nat /\ cleaning.left \in Nat \ {0} /\ cleaning.last \in Nat
    BY DEF Cleaning
<1>3. /\ p.lcn \in Nat /\ p.length \in 1 .. cleaning.left /\ p.lcn + p.length <= NClusters
      /\ p.lcn .. p.lcn + p.length - 1 \subseteq free
      /\ p.lcn > cleaning.last \/ p.lcn + p.length <= r
    BY <1>2, PieceIs DEF Sound
<1>4. Vacant(p.lcn, p.length) /\ p.length \in Nat \ {0}
    BY <1>2, <1>3, FreeIsVacant
<1>5. /\ Sound' /\ Shift(cleaning.file, Chain(map[cleaning.file], cleaning.vcn, p.length), p.lcn, p.length)
      /\ cleaning.vcn \in Chain(map[cleaning.file], cleaning.vcn, p.length)
      /\ UNCHANGED <<fs, failed, stuck>>
    BY <1>1, <1>2, <1>3, <1>4, SuccessKeeps
<1>6. cleaning' \in Cleaning
    BY <1>1, <1>2, <1>3 DEF Continued
<1> QED
    BY <1>1, <1>3, <1>5, <1>6

\* So they do when it fails; the file it belongs to is marked.
LEMMA PieceFailsKeeps ==
    ASSUME Sound, cleaning \in Cleaning, cleaning.file \in Files, cleaning.left # 0,
           NEW r \in Nat, PieceFails(r)
    PROVE  \E p \in Pieces(r) :
            /\ p.length \in 1 .. cleaning.left /\ p.lcn \in Nat
            /\ p.lcn > cleaning.last \/ p.lcn + p.length <= r
            /\ Sound' /\ cleaning' = Idle /\ fs' = fs
            /\ cleaning.file \in failed' \cup stuck'
            /\ failed \subseteq failed' /\ stuck \subseteq stuck'
            /\ \E ch \in SUBSET Chain(map[cleaning.file], cleaning.vcn, p.length) :
                    Shift(cleaning.file, ch, p.lcn, p.length)
<1>1. PICK p \in Pieces(r) :
            MoveFails(cleaning.file, cleaning.vcn, p.length, p.lcn)
    BY DEF PieceFails
<1>2. cleaning.vcn \in Nat /\ cleaning.left \in Nat \ {0} /\ cleaning.last \in Nat
    BY DEF Cleaning
<1>3. /\ p.lcn \in Nat /\ p.length \in 1 .. cleaning.left /\ p.lcn + p.length <= NClusters
      /\ p.lcn .. p.lcn + p.length - 1 \subseteq free
      /\ p.lcn > cleaning.last \/ p.lcn + p.length <= r
    BY <1>2, PieceIs DEF Sound
<1>4. Vacant(p.lcn, p.length) /\ p.length \in Nat
    BY <1>2, <1>3, FreeIsVacant
<1>5. /\ Sound' /\ fs' = fs /\ cleaning.file \in failed' \cup stuck'
      /\ failed \subseteq failed' /\ stuck \subseteq stuck'
      /\ \E ch \in SUBSET Chain(map[cleaning.file], cleaning.vcn, p.length) :
              Shift(cleaning.file, ch, p.lcn, p.length)
    BY <1>1, <1>2, <1>3, <1>4, FailsKeeps
<1> QED
    BY <1>1, <1>3, <1>5 DEF PieceFails

-----------------------------------------------------------------------------
(* The routines use the operators of Volume and Cleanup as they are: only  *)
(* what they have of their own is renamed.                                 *)

LEMMA FileIsSame ==
    /\ \A S : File!Min(S) = Min(S)
    /\ \A S : File!Max(S) = Max(S)
    /\ \A S : File!Cardinality(S) = Cardinality(S)
    /\ File!None = None
    /\ File!Idle = Idle
    /\ File!Clusters = Clusters
    /\ \A m : File!ClustersOf(m) = ClustersOf(m)
    /\ \A m : File!Size(m) = Size(m)
    /\ \A m : File!FirstVcn(m) = FirstVcn(m)
    /\ \A m : File!EndVcn(m) = EndVcn(m)
    /\ File!FilesApart = FilesApart
    /\ File!Regions = Regions
    /\ File!Released = Released
    /\ \A m, a, b : File!Chain(m, a, b) = Chain(m, a, b)
    /\ \A m, a, b : File!Relocated(m, a, b) = Relocated(m, a, b)
    /\ \A f, v, n, c : File!Improper(f, v, n, c) = Improper(f, v, n, c)
    /\ \A f, v, n, c : File!Reject(f, v, n, c) = Reject(f, v, n, c)
    /\ \A f, v, n, c : File!Locked(f, v, n, c) = Locked(f, v, n, c)
    /\ \A f, v, n, c : File!Success(f, v, n, c) = Success(f, v, n, c)
    /\ \A f, v, n, c : File!Partly(f, v, n, c) = Partly(f, v, n, c)
    /\ \A f, v, n, c : File!Failure(f, v, n, c) = Failure(f, v, n, c)
    /\ \A f, v, n, c : File!MoveFails(f, v, n, c) = MoveFails(f, v, n, c)
    /\ \A f : File!CanMove(f) = CanMove(f)
    /\ \A m, v : File!IsBlock(m, v) = IsBlock(m, v)
    /\ \A m, v : File!BlockLength(m, v) = BlockLength(m, v)
    /\ \A f : File!BlocksOf(f) = BlocksOf(f)
    /\ \A b, c : File!FirstBlock(b, c) = FirstBlock(b, c)
    /\ \A b, n : File!Begin(b, n) = Begin(b, n)
    /\ \A a, b : File!LastRegion(a, b) = LastRegion(a, b)
    /\ \A a : File!NoSpace(a) = NoSpace(a)
    /\ \A a : File!Pieces(a) = Pieces(a)
    /\ \A a : File!PieceMoved(a) = PieceMoved(a)
    /\ \A a : File!PieceFails(a) = PieceFails(a)
<1>1. \A S : File!Min(S) = Min(S)
    BY DEF File!Min, Min
<1>2. \A S : File!Max(S) = Max(S)
    BY DEF File!Max, Max
<1>3. \A S : File!Cardinality(S) = Cardinality(S)
    BY DEF File!Cardinality, Cardinality
<1>4. File!None = None
    BY DEF File!None, None
<1>5. File!Idle = Idle
    BY <1>4 DEF File!Idle, Idle
<1>6. File!Clusters = Clusters
    BY DEF File!Clusters, Clusters
<1>7. \A m : File!ClustersOf(m) = ClustersOf(m)
    BY DEF File!ClustersOf, ClustersOf
<1>8. \A m : File!Size(m) = Size(m)
    BY <1>3 DEF File!Size, Size
<1>9. \A m : File!FirstVcn(m) = FirstVcn(m)
    BY <1>1 DEF File!FirstVcn, FirstVcn
<1>10. \A m : File!EndVcn(m) = EndVcn(m)
    BY <1>2 DEF File!EndVcn, EndVcn
<1>11. File!FilesApart = FilesApart
    BY <1>3, <1>6, <1>7, <1>8 DEF File!FilesApart, FilesApart
<1>12. File!Regions = Regions
    BY <1>1 DEF File!Regions, Regions
<1>13. File!Released = Released
    BY <1>6, <1>7 DEF File!Released, Released
<1>14. \A m, a, b : File!Chain(m, a, b) = Chain(m, a, b)
    BY <1>3 DEF File!Chain, Chain
<1>15. \A m, a, b : File!Relocated(m, a, b) = Relocated(m, a, b)
    BY <1>3 DEF File!Relocated, Relocated
<1>16. \A f, v, n, c : File!Improper(f, v, n, c) = Improper(f, v, n, c)
    BY <1>10 DEF File!Improper, Improper
<1>17. \A f, v, n, c : File!Reject(f, v, n, c) = Reject(f, v, n, c)
    BY <1>16 DEF File!Reject, Reject, File!disk, disk
<1>18. \A f, v, n, c : File!Locked(f, v, n, c) = Locked(f, v, n, c)
    BY <1>16 DEF File!Locked, Locked, File!disk, disk
<1>19. \A f, v, n, c : File!Success(f, v, n, c) = Success(f, v, n, c)
    BY <1>14, <1>15, <1>16 DEF File!Success, Success
<1>20. \A f, v, n, c : File!Partly(f, v, n, c) = Partly(f, v, n, c)
    BY
        DEF File!Partly, Partly, File!Improper, File!EndVcn, File!Max, File!Chain, File!Relocated,
            File!Cardinality, Improper, EndVcn, Max, Chain, Relocated, Cardinality
<1>21. \A f, v, n, c : File!Failure(f, v, n, c) = Failure(f, v, n, c)
    BY <1>20 DEF File!Failure, Failure
<1>22. \A f, v, n, c : File!MoveFails(f, v, n, c) = MoveFails(f, v, n, c)
    BY <1>17, <1>18, <1>21 DEF File!MoveFails, MoveFails
<1>23. \A f : File!CanMove(f) = CanMove(f)
    BY DEF File!CanMove, CanMove
<1>24. \A m, v : File!IsBlock(m, v) = IsBlock(m, v)
    BY DEF File!IsBlock, IsBlock
<1>25. \A m, v : File!BlockLength(m, v) = BlockLength(m, v)
    BY <1>3, <1>24 DEF File!BlockLength, BlockLength
<1>26. \A f : File!BlocksOf(f) = BlocksOf(f)
    BY <1>24, <1>25 DEF File!BlocksOf, BlocksOf
<1>27. \A b, c : File!FirstBlock(b, c) = FirstBlock(b, c)
    BY DEF File!FirstBlock, FirstBlock
<1>28. \A b, n : File!Begin(b, n) = Begin(b, n)
    BY DEF File!Begin, Begin
<1>29. \A a, b : File!LastRegion(a, b) = LastRegion(a, b)
    BY <1>12 DEF File!LastRegion, LastRegion
<1>30. \A a : File!NoSpace(a) = NoSpace(a)
    BY <1>29 DEF File!NoSpace, NoSpace
<1>31. \A a : File!Pieces(a) = Pieces(a)
    BY <1>1, <1>29 DEF File!Pieces, Pieces
<1>32. \A a : File!PieceMoved(a) = PieceMoved(a)
    BY <1>19, <1>31 DEF File!PieceMoved, PieceMoved
<1>33. \A a : File!PieceFails(a) = PieceFails(a)
    BY <1>5, <1>22, <1>31 DEF File!PieceFails, PieceFails
<1> QED
    BY <1>1, <1>2, <1>3, <1>4, <1>5, <1>6, <1>7, <1>8, <1>9, <1>10, <1>11, <1>12, <1>13, <1>14, <1>15, <1>16,
       <1>17, <1>18, <1>19, <1>20, <1>21, <1>22, <1>23, <1>24, <1>25, <1>26, <1>27, <1>28, <1>29,
       <1>30, <1>31, <1>32, <1>33

\* The same of the sorting.
LEMMA SortingIsSame ==
    /\ \A S : Sorting!Min(S) = Min(S)
    /\ \A S : Sorting!Max(S) = Max(S)
    /\ \A S : Sorting!Cardinality(S) = Cardinality(S)
    /\ Sorting!None = None
    /\ Sorting!Idle = Idle
    /\ Sorting!Clusters = Clusters
    /\ \A m : Sorting!ClustersOf(m) = ClustersOf(m)
    /\ \A m : Sorting!Size(m) = Size(m)
    /\ \A m : Sorting!FirstVcn(m) = FirstVcn(m)
    /\ \A m : Sorting!EndVcn(m) = EndVcn(m)
    /\ Sorting!FilesApart = FilesApart
    /\ Sorting!Regions = Regions
    /\ \A a, b : Sorting!FirstRegion(a, b) = FirstRegion(a, b)
    /\ Sorting!Released = Released
    /\ \A m, a, b : Sorting!Chain(m, a, b) = Chain(m, a, b)
    /\ \A m, a, b : Sorting!Relocated(m, a, b) = Relocated(m, a, b)
    /\ \A f, v, n, c : Sorting!Improper(f, v, n, c) = Improper(f, v, n, c)
    /\ \A f, v, n, c : Sorting!Reject(f, v, n, c) = Reject(f, v, n, c)
    /\ \A f, v, n, c : Sorting!Locked(f, v, n, c) = Locked(f, v, n, c)
    /\ \A f, v, n, c : Sorting!Success(f, v, n, c) = Success(f, v, n, c)
    /\ \A f, v, n, c : Sorting!Partly(f, v, n, c) = Partly(f, v, n, c)
    /\ \A f, v, n, c : Sorting!Failure(f, v, n, c) = Failure(f, v, n, c)
    /\ \A f, v, n, c : Sorting!MoveFails(f, v, n, c) = MoveFails(f, v, n, c)
    /\ \A f : Sorting!CanMove(f) = CanMove(f)
    /\ \A m, v : Sorting!IsBlock(m, v) = IsBlock(m, v)
    /\ \A m, v : Sorting!BlockLength(m, v) = BlockLength(m, v)
    /\ \A f : Sorting!BlocksOf(f) = BlocksOf(f)
    /\ \A b, c : Sorting!FirstBlock(b, c) = FirstBlock(b, c)
    /\ \A b, n : Sorting!Begin(b, n) = Begin(b, n)
    /\ \A a, b : Sorting!LastRegion(a, b) = LastRegion(a, b)
    /\ \A a : Sorting!NoSpace(a) = NoSpace(a)
    /\ \A a : Sorting!Pieces(a) = Pieces(a)
    /\ \A a : Sorting!PieceMoved(a) = PieceMoved(a)
    /\ \A a : Sorting!PieceFails(a) = PieceFails(a)
<1>1. \A S : Sorting!Min(S) = Min(S)
    BY DEF Sorting!Min, Min
<1>2. \A S : Sorting!Max(S) = Max(S)
    BY DEF Sorting!Max, Max
<1>3. \A S : Sorting!Cardinality(S) = Cardinality(S)
    BY DEF Sorting!Cardinality, Cardinality
<1>4. Sorting!None = None
    BY DEF Sorting!None, None
<1>5. Sorting!Idle = Idle
    BY <1>4 DEF Sorting!Idle, Idle
<1>6. Sorting!Clusters = Clusters
    BY DEF Sorting!Clusters, Clusters
<1>7. \A m : Sorting!ClustersOf(m) = ClustersOf(m)
    BY DEF Sorting!ClustersOf, ClustersOf
<1>8. \A m : Sorting!Size(m) = Size(m)
    BY <1>3 DEF Sorting!Size, Size
<1>9. \A m : Sorting!FirstVcn(m) = FirstVcn(m)
    BY <1>1 DEF Sorting!FirstVcn, FirstVcn
<1>10. \A m : Sorting!EndVcn(m) = EndVcn(m)
    BY <1>2 DEF Sorting!EndVcn, EndVcn
<1>11. Sorting!FilesApart = FilesApart
    BY <1>3, <1>6, <1>7, <1>8 DEF Sorting!FilesApart, FilesApart
<1>12. Sorting!Regions = Regions
    BY <1>1 DEF Sorting!Regions, Regions
<1>13. \A a, b : Sorting!FirstRegion(a, b) = FirstRegion(a, b)
    BY <1>1, <1>12 DEF Sorting!FirstRegion, FirstRegion
<1>14. Sorting!Released = Released
    BY <1>6, <1>7 DEF Sorting!Released, Released
<1>15. \A m, a, b : Sorting!Chain(m, a, b) = Chain(m, a, b)
    BY <1>3 DEF Sorting!Chain, Chain
<1>16. \A m, a, b : Sorting!Relocated(m, a, b) = Relocated(m, a, b)
    BY <1>3 DEF Sorting!Relocated, Relocated
<1>17. \A f, v, n, c : Sorting!Improper(f, v, n, c) = Improper(f, v, n, c)
    BY <1>10 DEF Sorting!Improper, Improper
<1>18. \A f, v, n, c : Sorting!Reject(f, v, n, c) = Reject(f, v, n, c)
    BY <1>17 DEF Sorting!Reject, Reject, Sorting!disk, disk
<1>19. \A f, v, n, c : Sorting!Locked(f, v, n, c) = Locked(f, v, n, c)
    BY <1>17 DEF Sorting!Locked, Locked, Sorting!disk, disk
<1>20. \A f, v, n, c : Sorting!Success(f, v, n, c) = Success(f, v, n, c)
    BY <1>15, <1>16, <1>17 DEF Sorting!Success, Success
<1>21. \A f, v, n, c : Sorting!Partly(f, v, n, c) = Partly(f, v, n, c)
    BY
        DEF Sorting!Partly, Partly, Sorting!Improper, Sorting!EndVcn, Sorting!Max, Sorting!Chain,
            Sorting!Relocated, Sorting!Cardinality, Improper, EndVcn, Max, Chain, Relocated,
            Cardinality
<1>22. \A f, v, n, c : Sorting!Failure(f, v, n, c) = Failure(f, v, n, c)
    BY <1>21 DEF Sorting!Failure, Failure
<1>23. \A f, v, n, c : Sorting!MoveFails(f, v, n, c) = MoveFails(f, v, n, c)
    BY <1>18, <1>19, <1>22 DEF Sorting!MoveFails, MoveFails
<1>24. \A f : Sorting!CanMove(f) = CanMove(f)
    BY DEF Sorting!CanMove, CanMove
<1>25. \A m, v : Sorting!IsBlock(m, v) = IsBlock(m, v)
    BY DEF Sorting!IsBlock, IsBlock
<1>26. \A m, v : Sorting!BlockLength(m, v) = BlockLength(m, v)
    BY <1>3, <1>25 DEF Sorting!BlockLength, BlockLength
<1>27. \A f : Sorting!BlocksOf(f) = BlocksOf(f)
    BY <1>25, <1>26 DEF Sorting!BlocksOf, BlocksOf
<1>28. \A b, c : Sorting!FirstBlock(b, c) = FirstBlock(b, c)
    BY DEF Sorting!FirstBlock, FirstBlock
<1>29. \A b, n : Sorting!Begin(b, n) = Begin(b, n)
    BY DEF Sorting!Begin, Begin
<1>30. \A a, b : Sorting!LastRegion(a, b) = LastRegion(a, b)
    BY <1>12 DEF Sorting!LastRegion, LastRegion
<1>31. \A a : Sorting!NoSpace(a) = NoSpace(a)
    BY <1>30 DEF Sorting!NoSpace, NoSpace
<1>32. \A a : Sorting!Pieces(a) = Pieces(a)
    BY <1>1, <1>30 DEF Sorting!Pieces, Pieces
<1>33. \A a : Sorting!PieceMoved(a) = PieceMoved(a)
    BY <1>20, <1>32 DEF Sorting!PieceMoved, PieceMoved
<1>34. \A a : Sorting!PieceFails(a) = PieceFails(a)
    BY <1>5, <1>23, <1>32 DEF Sorting!PieceFails, PieceFails
<1> QED
    BY <1>1, <1>2, <1>3, <1>4, <1>5, <1>6, <1>7, <1>8, <1>9, <1>10, <1>11, <1>12, <1>13, <1>14,
        <1>15, <1>16, <1>17,
       <1>18, <1>19, <1>20, <1>21, <1>22, <1>23, <1>24, <1>25, <1>26, <1>27, <1>28, <1>29, <1>30,
       <1>31, <1>32, <1>33, <1>34

-----------------------------------------------------------------------------
(* Sizes.                                                                  *)

LEMMA SizeIs ==
    ASSUME NEW m, IsMap(m)
    PROVE  /\ Size(m) \in Nat \ {0} /\ Size(m) <= NClusters
           /\ Cardinality(ClustersOf(m)) = Size(m)
<1> DEFINE g == [v \in DOMAIN m |-> m[v]]
<1>1. IsFiniteSet(DOMAIN m) /\ Size(m) \in Nat /\ Size(m) # 0
    BY FS_CardinalityType, FS_EmptySet DEF IsMap, Size
<1>2. g \in Injection(DOMAIN m, ClustersOf(m)) /\ g \in Surjection(DOMAIN m, ClustersOf(m))
    BY DEF Injection, Surjection, IsInjective, ClustersOf, IsMap
<1> HIDE DEF g
<1>3. IsFiniteSet(ClustersOf(m)) /\ Cardinality(ClustersOf(m)) = Cardinality(DOMAIN m)
    BY <1>1, <1>2, FS_Surjection
<1>4. ClustersOf(m) \subseteq 0 .. NClusters - 1
    BY DEF ClustersOf, IsMap, Clusters
<1>5. IsFiniteSet(0 .. NClusters - 1) /\ Cardinality(0 .. NClusters - 1) = NClusters
    BY FS_Interval, VolumeAssumption
<1>6. Cardinality(ClustersOf(m)) <= NClusters
    BY <1>4, <1>5, FS_Subset
<1> QED
    BY <1>1, <1>3, <1>6 DEF Size

\* What the invariant says of the files is what the properties say.
LEMMA ApartIs ==
    ASSUME Sound
    PROVE  FilesApart
<1>1. \A f \in Files : ClustersOf(map[f]) \subseteq Clusters \ free
    BY DEF Sound, IsMap, ClustersOf
<1>2. \A f \in Files : Cardinality(ClustersOf(map[f])) = Size(map[f])
    BY SizeIs DEF Sound
<1>3. \A f, g \in Files : f # g => ClustersOf(map[f]) \cap ClustersOf(map[g]) = {}
    BY DEF Sound, ClustersOf
<1> QED
    BY <1>1, <1>2, <1>3 DEF FilesApart

\* What the list of free regions becomes when the temporarily held back ones
\* are released belongs to no file.
LEMMA ReleasedIs ==
    ASSUME Sound
    PROVE  /\ Released \subseteq Clusters
           /\ \A f \in Files : \A v \in DOMAIN map[f] : map[f][v] \notin Released
BY DEF Sound, Released, ClustersOf
-----------------------------------------------------------------------------
(* The invariant.                                                          *)

Frame ==
    /\ phase \in {"files", "file", "sort"}
    /\ fs \in {"NTFS", "FAT"} /\ fixed \subseteq Files
    /\ fs # "FAT" => \A f, g \in fixed : f = g
    /\ phase = "sort" => excluded = {}
    /\ phase # "file" => File!AtRest
    /\ phase # "sort" => Sorting!AtRest
    /\ cleaning \in Cleaning

\* Room: a range of clusters on the volume.
Room == {r \in [lcn : Nat, length : Nat] : r.lcn + r.length <= NClusters}

FileTypes ==
    /\ file_pc \in {"enter", "search", "clean", "cleanup", "move", "done"}
    /\ file \in fixed \ excluded
    /\ file_start_lcn \in 0 .. NClusters /\ file_end_lcn \in 0 .. NClusters
    /\ to_process \in 0 .. NClusters /\ to_cleanup \in 0 .. NClusters
    /\ start_vcn \in Nat /\ result \in {-1, 0, 1}
    /\ target \in Room /\ region \in Room
    /\ to_process # 0 => start_vcn \in DOMAIN map[file]

\* What has been processed lies in order before what is being cleaned up; the
\* rest of the file has as many clusters as the routine believes.
CleanedUp == region.length > 0
Later(m, a) == {v \in DOMAIN m : v >= a}
Base == IF file_pc # "search" /\ CleanedUp THEN region.lcn ELSE file_start_lcn
Processed ==
    /\ FirstVcn(map[file]) < start_vcn
    /\ \A v, w \in DOMAIN map[file] : v < w /\ w < start_vcn => map[file][v] < map[file][w]
    /\ \A v \in DOMAIN map[file] : v < start_vcn => map[file][v] < Base
    /\ to_process = Cardinality(Later(map[file], start_vcn))

\* The place for the next portion.
Prepared ==
    IF CleanedUp
    THEN /\ target = region /\ Vacant(region.lcn, region.length)
         /\ file_start_lcn = region.lcn + region.length
    ELSE target.length > 0 =>
            target.lcn >= file_start_lcn /\ Vacant(target.lcn, target.length)

\* What is left of the block in the way, and where it has been.
Asked == Min({to_cleanup, cleaning.last - cleaning.lcn + 1})
Gone == Asked - cleaning.left
BlockLeft ==
    /\ cleaning.file \in Files \ excluded /\ cleaning.left \in 1 .. Asked
    /\ cleaning.lcn <= cleaning.last /\ cleaning.last < NClusters
    /\ Vacant(cleaning.lcn, Gone)
    /\ \A i \in 0 .. cleaning.last - cleaning.lcn - Gone :
        /\ cleaning.vcn + i \in DOMAIN map[cleaning.file]
        /\ map[cleaning.file][cleaning.vcn + i] = cleaning.lcn + Gone + i
    /\ cleaning.lcn >= file_start_lcn
    /\ CleanedUp =>
        /\ target = region /\ Vacant(region.lcn, region.length)
        /\ file_start_lcn = region.lcn + region.length /\ cleaning.lcn = file_start_lcn
        /\ cleaning.file # file
    /\ cleaning.file = file => cleaning.vcn >= start_vcn
    /\ fs = "FAT" /\ cleaning.file \in fixed => cleaning.vcn > FirstVcn(map[cleaning.file])

InFileOrder == \A v, w \in DOMAIN map[file] : v < w => map[file][v] < map[file][w]

FileInv ==
    /\ FileTypes
    /\ file_pc \in {"search", "clean", "cleanup", "move"} => Processed
    /\ file_pc \in {"clean", "move"} => Prepared
    /\ file_pc = "clean" /\ ~CleanedUp =>
        /\ to_cleanup = to_process
        /\ target.length > 0 => file_end_lcn = target.lcn
    /\ file_pc \in {"clean", "cleanup", "move"} => to_process # 0
    /\ file_pc \in {"clean", "move"} /\ target.length = 0 => target = [lcn |-> 0, length |-> 0]
    /\ file_pc = "cleanup" => BlockLeft
    /\ file_pc = "done" /\ result = 1 /\ ~stopped => InFileOrder

\* The sorting.
Entire(f) == CanMove(f) /\ f \notin front \cup fixed

\* No cluster of a file to be sorted lies before the bound.
Cleared(bound) == \A f \in tree : Entire(f) => \A v \in DOMAIN map[f] : map[f][v] >= bound

SortTypes ==
    /\ pc \in {"idle", "start", "pass", "turn", "back", "cleanup", "front", "done"}
    /\ tree \subseteq Files \ fixed /\ front \subseteq tree /\ placed \subseteq front
    /\ notfound \subseteq tree /\ cur \in tree \cup {None}
    /\ start_lcn \in 0 .. NClusters /\ end_lcn \in 0 .. NClusters /\ min_lcn \in 0 .. NClusters
    /\ pc \in {"idle", "start"} => placed = {} /\ end_lcn = 0
    /\ pc = "idle" => tree = {}
    /\ pc = "start" => front = {}
    /\ \A f \in tree : Size(map[f]) < Limit

SortBlock ==
    /\ cleaning.file \in Files \ (front \cup fixed) /\ cleaning.left # 0
    /\ cleaning.lcn <= cleaning.last /\ cleaning.lcn < NClusters
    /\ min_lcn = cleaning.lcn + 1
    /\ \A f \in tree : Entire(f) =>
        \A v \in DOMAIN map[f] :
            \/ map[f][v] >= min_lcn
            \/ f = cleaning.file /\ v = cleaning.vcn /\ map[f][v] = cleaning.lcn

Lcn(f) == map[f][FirstVcn(map[f])]

SortOrder ==
    /\ \A f \in placed : cur = None \/ f < cur
    /\ \A f \in placed : Size(map[f]) < Magic => Lcn(f) < start_lcn
    /\ \A f, g \in placed : f < g /\ Size(map[f]) < Magic => Lcn(f) < Lcn(g)

SortInv ==
    /\ SortTypes /\ SortOrder
    /\ pc \in {"pass", "turn", "front"} => stopped \/ Cleared(end_lcn)
    /\ pc = "back" => Cleared(min_lcn)
    /\ pc = "cleanup" => SortBlock

IInv == Sound /\ Frame /\ (phase = "file" => FileInv) /\ SortInv

-----------------------------------------------------------------------------
(* The initial states.                                                     *)

\* The sorting at rest has nothing to promise.
LEMMA SortAtRest ==
    ASSUME Sorting!AtRest
    PROVE  SortInv
<1>1. /\ front = {} /\ notfound = {} /\ placed = {} /\ tree = {} /\ cur = None
      /\ start_lcn = 0 /\ end_lcn = 0 /\ min_lcn = 0 /\ pc = "idle"
    BY SortingIsSame DEF Sorting!AtRest
<1>2. 0 \in 0 .. NClusters
    BY VolumeAssumption
<1>3. SortTypes
    BY <1>1, <1>2 DEF SortTypes
<1>4. SortOrder
    BY <1>1 DEF SortOrder
<1> QED
    BY <1>1, <1>3, <1>4 DEF SortInv

\* The initial states: nothing runs, and the lists are what the disk is.
LEMMA InitHolds ==
    ASSUME Init
    PROVE  IInv
<1>1. PICK s \in Scenarios :
        /\ map = s.map /\ stuck = s.stuck
        /\ fixed = IF fs = "FAT" THEN s.directories ELSE s.mft
    BY DEF Init
<1>2. /\ fs \in {"NTFS", "FAT"} /\ free = Released /\ failed = {} /\ cleaning = Idle
      /\ phase = "files" /\ File!AtRest /\ Sorting!AtRest
    BY DEF Init
<1>3. /\ DOMAIN s.map = Files
      /\ \A f \in Files :
            /\ DOMAIN s.map[f] \subseteq Nat /\ IsFiniteSet(DOMAIN s.map[f]) /\ DOMAIN s.map[f] # {}
            /\ \A v \in DOMAIN s.map[f] : s.map[f][v] \in Clusters
      /\ \A f, g \in Files : \A v \in DOMAIN s.map[f], w \in DOMAIN s.map[g] :
            s.map[f][v] = s.map[g][w] => f = g /\ v = w
      /\ s.stuck \cup s.mft \cup s.directories \subseteq Files
      /\ \A f, g \in s.mft : f = g
    BY ScenariosAssumption
<1>4. \A f \in Files : IsMap(map[f])
    BY <1>1, <1>3 DEF IsMap
<1>5. \A f, g \in Files : \A v \in DOMAIN map[f], w \in DOMAIN map[g] :
        map[f][v] = map[g][w] => f = g
    BY <1>1, <1>3
<1>6. Released \subseteq Clusters /\ \A f \in Files : \A v \in DOMAIN map[f] : map[f][v] \notin Released
    BY DEF Released, ClustersOf
<1>7. Sound
    BY <1>1, <1>2, <1>3, <1>4, <1>5, <1>6 DEF Sound
<1>8. cleaning \in Cleaning
    BY <1>2 DEF Idle, Cleaning
<1>9. Frame
    BY <1>1, <1>2, <1>3, <1>8 DEF Frame
<1> QED
    BY <1>2, <1>7, <1>9, SortAtRest DEF IInv

-----------------------------------------------------------------------------
(* The sorting: what each step keeps.                                      *)

\* A step of the sorting keeps all this; the file which gets its place gets
\* nearer to the beginning of the disk than any of its clusters has been.
SortKept ==
    /\ Sound' /\ SortInv' /\ cleaning' \in Cleaning /\ fs' = fs
    /\ \A f \in fixed : map'[f] = map[f]
    /\ \A f \in placed' \ placed : \A v \in DOMAIN map[f] : map'[f][FirstVcn(map'[f])] < map[f][v]

\* The files the sorting may move.
LEMMA EntireIs ==
    /\ \A f : Sorting!CanMoveEntirely(f) <=> Entire(f)
    /\ \A f : Entire(f) <=> f \notin failed \cup stuck \cup excluded \cup front \cup fixed
<1>1. \A f : Sorting!CanMoveEntirely(f) <=> Entire(f)
    BY SortingIsSame DEF Sorting!CanMoveEntirely, Entire
<1>2. \A f : Entire(f) <=> f \notin failed \cup stuck \cup excluded \cup front \cup fixed
    BY DEF Entire, CanMove
<1> QED
    BY <1>1, <1>2

\* Where a file begins.
LEMMA SortLcnIs == \A f : Sorting!Lcn(f) = Lcn(f)
BY SortingIsSame DEF Sorting!Lcn, Lcn

\* The next file of the traversal comes later in the tree.
LEMMA NextIs ==
    ASSUME tree \subseteq Files
    PROVE  /\ Sorting!FirstOf(tree) \in tree \cup {None}
           /\ \A f \in Nat : \/ Sorting!NextOf(f) = None
                             \/ Sorting!NextOf(f) \in tree /\ Sorting!NextOf(f) > f
<1>1. \A S \in SUBSET Nat : Sorting!FirstOf(S) \in S \cup {None}
    <2> SUFFICES ASSUME NEW S \in SUBSET Nat PROVE Sorting!FirstOf(S) \in S \cup {None}
        OBVIOUS
    <2>1. CASE S = {}
        BY <2>1, SortingIsSame DEF Sorting!FirstOf
    <2>2. CASE S # {}
        <3>1. Min(S) \in S
            BY <2>2, MinIs
        <3>2. Sorting!FirstOf(S) = Min(S)
            BY <2>2, SortingIsSame DEF Sorting!FirstOf
        <3> QED
            BY <3>1, <3>2
    <2> QED
        BY <2>1, <2>2
<1>2. tree \in SUBSET Nat
    BY VolumeAssumption
<1>3. ASSUME NEW f \in Nat
      PROVE  Sorting!NextOf(f) = None \/ (Sorting!NextOf(f) \in tree /\ Sorting!NextOf(f) > f)
    <2>1. Sorting!NextOf(f) = Sorting!FirstOf({g \in tree : g > f})
        BY DEF Sorting!NextOf
    <2>2. {g \in tree : g > f} \in SUBSET Nat
        BY <1>2
    <2>3. Sorting!NextOf(f) \in {g \in tree : g > f} \cup {None}
        BY <1>1, <2>1, <2>2
    <2> QED
        BY <2>3
<1> QED
    BY <1>1, <1>2, <1>3

\* What the traversal would skip belongs to the tree.
LEMMA CutOffIs == Sorting!CutOff \subseteq tree
BY DEF Sorting!CutOff

\* Nothing is moved.
LEMMA QuietKeeps ==
    ASSUME Sound, cleaning \in Cleaning,
           UNCHANGED <<fs, map, failed, stuck, fixed>>, free' \in {free, Released},
           cleaning' \in {cleaning, Idle}, placed' = placed, SortInv'
    PROVE  SortKept
<1>1. Sound'
    BY ReleasedIs DEF Sound
<1>2. cleaning' \in Cleaning
    BY DEF Idle, Cleaning
<1> QED
    BY <1>1, <1>2 DEF SortKept

\* The tree is built: nothing is placed yet.
LEMMA BuildTreeKeeps ==
    ASSUME Sound, cleaning \in Cleaning, SortInv, UNCHANGED <<fixed, excluded>>, Sorting!BuildTree
    PROVE  SortKept
<1>1. /\ pc = "idle" /\ pc' = "start"
      /\ tree' = {f \in Files : Sorting!Size(map[f]) < Limit /\ Sorting!CanMoveEntirely(f)}
      /\ UNCHANGED <<fs, map, free, failed, stuck, stopped, cleaning, front, notfound, placed, cur>>
      /\ UNCHANGED <<start_lcn, end_lcn, min_lcn>>
    BY DEF Sorting!BuildTree, Sorting!moves, Sorting!disk, Sorting!front_flags, Sorting!bounds
<1>2. tree' \subseteq Files \ fixed /\ \A f \in tree' : Size(map[f]) < Limit
    BY <1>1, SortingIsSame, EntireIs
<1>3. /\ front = {} /\ placed = {} /\ end_lcn = 0 /\ notfound = {} /\ cur = None
      /\ start_lcn \in 0 .. NClusters /\ min_lcn \in 0 .. NClusters
    BY <1>1 DEF SortInv, SortTypes
<1>4. SortTypes'
    BY <1>1, <1>2, <1>3, VolumeAssumption DEF SortTypes
<1>5. SortOrder'
    BY <1>1, <1>3 DEF SortOrder
<1>6. SortInv'
    BY <1>1, <1>4, <1>5 DEF SortInv
<1> QED
    BY <1>1, <1>6, QuietKeeps

\* The first pass begins, or there is nothing to sort.
LEMMA StartKeeps ==
    ASSUME Sound, cleaning \in Cleaning, SortInv, UNCHANGED <<fixed, excluded>>, Sorting!Start
    PROVE  SortKept
<1>1. /\ pc = "start" /\ pc' \in {"done", "pass"}
      /\ front' \subseteq tree /\ cur' = Sorting!FirstOf(tree)
      /\ UNCHANGED <<fs, map, free, failed, stuck, stopped, cleaning, tree, notfound, placed>>
      /\ UNCHANGED <<start_lcn, end_lcn, min_lcn>>
    BY CutOffIs DEF Sorting!Start, Sorting!moves, Sorting!disk, Sorting!nature, Sorting!bounds
<1>2. /\ placed = {} /\ end_lcn = 0 /\ notfound \subseteq tree /\ tree \subseteq Files \ fixed
      /\ start_lcn \in 0 .. NClusters /\ min_lcn \in 0 .. NClusters
      /\ \A f \in tree : Size(map[f]) < Limit
    BY <1>1 DEF SortInv, SortTypes
<1>3. cur' \in tree \cup {None}
    BY <1>1, <1>2, NextIs
<1>4. SortTypes'
    BY <1>1, <1>2, <1>3, VolumeAssumption DEF SortTypes
<1>5. SortOrder'
    BY <1>1, <1>2 DEF SortOrder
<1>6. \A f \in Files : \A v \in DOMAIN map[f] : map[f][v] >= 0
    BY DEF Sound, IsMap, Clusters
<1>7. Cleared(end_lcn)'
    BY <1>1, <1>2, <1>6 DEF Cleared
<1>8. SortInv'
    BY <1>1, <1>4, <1>5, <1>7 DEF SortInv
<1> QED
    BY <1>1, <1>8, QuietKeeps

\* What the sorting has done so far stays the same.
LEMMA SameOrder ==
    ASSUME SortTypes, SortOrder, UNCHANGED <<map, cur, placed, start_lcn>>
    PROVE  SortOrder'
<1>1. \A f \in placed : Lcn(f)' = Lcn(f) /\ map'[f] = map[f]
    BY DEF Lcn
<1> QED
    BY <1>1 DEF SortOrder

\* The cleared part stays so while nothing is moved.
LEMMA SameCleared ==
    ASSUME NEW bound, Cleared(bound), UNCHANGED <<map, failed, stuck, excluded, front, fixed, tree>>,
           NEW next, next = bound
    PROVE  \A f \in tree' : Entire(f)' => \A v \in DOMAIN map'[f] : map'[f][v] >= next
<1>1. \A f : Entire(f)' <=> Entire(f)
    BY DEF Entire, CanMove
<1> QED
    BY <1>1 DEF Cleared

\* A stopped job has nothing to promise of the bounds.
LEMMA LeaveStoppedKeeps ==
    ASSUME Sound, cleaning \in Cleaning, SortInv, UNCHANGED <<fixed, excluded>>, Sorting!LeaveStopped
    PROVE  SortKept
<1>1. /\ pc \in {"pass", "turn"} /\ pc' = "done"
      /\ UNCHANGED <<fs, map, free, failed, stuck, stopped, cleaning, tree, front, notfound, placed, cur>>
      /\ UNCHANGED <<start_lcn, end_lcn, min_lcn>>
    BY DEF Sorting!LeaveStopped, Sorting!moves, Sorting!disk, Sorting!nature, Sorting!front_flags,
           Sorting!bounds
<1>2. SortTypes /\ SortOrder
    BY DEF SortInv
<1>3. SortTypes'
    BY <1>1, <1>2 DEF SortTypes
<1>4. SortOrder'
    BY <1>1, <1>2, SameOrder
<1>5. SortInv'
    BY <1>1, <1>3, <1>4 DEF SortInv
<1> QED
    BY <1>1, <1>5, QuietKeeps

\* A pass clears the disk from the beginning of what it sorts on.
LEMMA BeginBackKeeps ==
    ASSUME Sound, cleaning \in Cleaning, SortInv, UNCHANGED <<fixed, excluded>>, Sorting!BeginBack
    PROVE  SortKept
<1>1. /\ pc = "pass" /\ ~stopped /\ pc' = "back" /\ free' = Released /\ min_lcn' = end_lcn
      /\ UNCHANGED <<fs, map, failed, stuck, stopped, cleaning, tree, front, notfound, placed, cur>>
      /\ UNCHANGED <<start_lcn, end_lcn>>
    BY SortingIsSame DEF Sorting!BeginBack, Sorting!nature, Sorting!front_flags
<1>2. SortTypes /\ SortOrder /\ Cleared(end_lcn)
    BY <1>1 DEF SortInv
<1>3. SortTypes'
    BY <1>1, <1>2 DEF SortTypes
<1>4. SortOrder'
    BY <1>1, <1>2, SameOrder
<1>5. Cleared(min_lcn)'
    BY <1>1, <1>2, SameCleared DEF Cleared
<1>6. SortInv'
    BY <1>1, <1>3, <1>4, <1>5 DEF SortInv
<1> QED
    BY <1>1, <1>6, QuietKeeps

\* What has been cleared is what the files are moved to.
LEMMA BeginFrontKeeps ==
    ASSUME Sound, cleaning \in Cleaning, SortInv, UNCHANGED <<fixed, excluded>>, Sorting!BeginFront
    PROVE  SortKept
<1>1. /\ pc = "turn" /\ ~stopped /\ pc' = "front" /\ free' = Released
      /\ UNCHANGED <<fs, map, failed, stuck, stopped, cleaning, tree, front, notfound, placed, cur>>
      /\ UNCHANGED <<start_lcn, end_lcn, min_lcn>>
    BY SortingIsSame DEF Sorting!BeginFront, Sorting!nature, Sorting!front_flags, Sorting!bounds
<1>2. SortTypes /\ SortOrder /\ Cleared(end_lcn)
    BY <1>1 DEF SortInv
<1>3. SortTypes'
    BY <1>1, <1>2 DEF SortTypes
<1>4. SortOrder'
    BY <1>1, <1>2, SameOrder
<1>5. Cleared(end_lcn)'
    BY <1>1, <1>2, SameCleared DEF Cleared
<1>6. SortInv'
    BY <1>1, <1>3, <1>4, <1>5 DEF SortInv
<1> QED
    BY <1>1, <1>6, QuietKeeps

-----------------------------------------------------------------------------
(* Blocks in the way of the sorting.                                       *)

\* Nothing of a file lies before the lowest of its blocks.
LEMMA LowestBlock ==
    ASSUME Sound, NEW f \in Files
    PROVE  \E b \in BlocksOf(f) : \A v \in DOMAIN map[f] : b.lcn <= map[f][v]
<1> DEFINE m == map[f]
           T == {m[v] : v \in DOMAIN m}
<1>1. IsMap(m)
    BY DEF Sound
<1> HIDE DEF m
<1>2. T \subseteq Nat /\ T # {}
    BY <1>1, VolumeAssumption DEF IsMap, Clusters
<1>3. PICK c \in T : \A d \in T : c <= d
    <2> HIDE DEF T
    <2> QED
        BY <1>2, LeastNatural
<1>4. PICK v \in DOMAIN m : m[v] = c
    BY <1>3
<1>5. v \in Nat /\ c \in Nat /\ \A u \in DOMAIN m : c <= m[u] /\ m[u] \in Nat
    BY <1>1, <1>2, <1>3 DEF IsMap
<1>6. IsBlock(m, v)
    <2>1. v - 1 \in DOMAIN m => m[v] <= m[v - 1] /\ m[v - 1] \in Nat /\ m[v] \in Nat
        BY <1>4, <1>5
    <2>2. v - 1 \in DOMAIN m => m[v] # m[v - 1] + 1
        BY <2>1
    <2> QED
        BY <2>2 DEF IsBlock
<1> DEFINE b == [file |-> f, vcn |-> v, lcn |-> m[v], length |-> BlockLength(m, v)]
<1>7. b \in BlocksOf(f)
    BY <1>4, <1>6 DEF BlocksOf, m
<1>8. b.lcn = c
    BY <1>4
<1> HIDE DEF b
<1> QED
    BY <1>5, <1>7, <1>8 DEF m

\* The blocks the cleaning looks for.
LEMMA SortMovableIs ==
    \A b : b \in Sorting!Movable <=> \E f \in Files : Entire(f) /\ b \in BlocksOf(f)
BY SortingIsSame, EntireIs DEF Sorting!Movable

\* The next block is the lowest of what is left to clear.
LEMMA NextBlockIs ==
    ASSUME Sound, tree \subseteq Files, Cleared(min_lcn),
           NEW b \in Sorting!FirstBlock(Sorting!Movable, min_lcn)
    PROVE  /\ b.file \in Files /\ Entire(b.file) /\ b \in BlocksOf(b.file) /\ b.lcn >= min_lcn
           /\ \A f \in tree : Entire(f) => \A v \in DOMAIN map[f] :
                map[f][v] >= b.lcn + 1 \/ (f = b.file /\ v = b.vcn /\ map[f][v] = b.lcn)
<1>1. b \in FirstBlock(Sorting!Movable, min_lcn)
    BY SortingIsSame
<1>2. /\ b \in Sorting!Movable /\ b.lcn >= min_lcn
      /\ \A c \in Sorting!Movable : c.lcn >= min_lcn => b.lcn <= c.lcn
    BY <1>1 DEF FirstBlock
<1>3. PICK g \in Files : Entire(g) /\ b \in BlocksOf(g)
    BY <1>2, SortMovableIs
<1>4. /\ b = [file |-> g, vcn |-> b.vcn, lcn |-> b.lcn, length |-> b.length]
      /\ b.lcn \in Nat /\ b.lcn = map[g][b.vcn] /\ b.vcn \in DOMAIN map[g]
    BY <1>3, BlockIs
<1>5. b.file = g
    BY <1>4
<1>6. ASSUME NEW f \in tree, Entire(f), NEW v \in DOMAIN map[f]
      PROVE  map[f][v] >= b.lcn + 1 \/ (f = b.file /\ v = b.vcn /\ map[f][v] = b.lcn)
    <2>1. f \in Files
        OBVIOUS
    <2>2. PICK c \in BlocksOf(f) : \A u \in DOMAIN map[f] : c.lcn <= map[f][u]
        BY <2>1, LowestBlock
    <2>3. c.vcn \in DOMAIN map[f] /\ c.lcn = map[f][c.vcn] /\ c.lcn \in Nat
        BY <2>1, <2>2, BlockIs
    <2>4. c.lcn >= min_lcn
        BY <1>6, <2>3 DEF Cleared
    <2>5. c \in Sorting!Movable
        BY <1>6, <2>1, <2>2, SortMovableIs
    <2>6. b.lcn <= c.lcn /\ c.lcn <= map[f][v] /\ map[f][v] \in Nat
        BY <1>2, <2>1, <2>2, <2>4, <2>5 DEF Sound, IsMap, Clusters
    <2>7. CASE map[f][v] = b.lcn
        <3>1. f = g
            BY <1>4, <2>1, <2>7 DEF Sound
        <3>2. v = b.vcn
            BY <1>4, <2>1, <2>7, <3>1 DEF Sound, IsMap
        <3> QED
            BY <1>5, <2>7, <3>1, <3>2
    <2>8. CASE map[f][v] # b.lcn
        BY <1>4, <2>3, <2>6, <2>8
    <2> QED
        BY <2>7, <2>8
<1> QED
    BY <1>2, <1>3, <1>5, <1>6

\* When there is none, there is no file left to be sorted.
LEMMA NoBlockIs ==
    ASSUME Sound, tree \subseteq Files, Cleared(min_lcn), ~stopped, min_lcn \in Nat,
           Sorting!FirstBlock(Sorting!Movable, min_lcn) = {}
    PROVE  \A f \in tree : ~Entire(f)
<1> SUFFICES ASSUME NEW f \in tree, Entire(f) PROVE FALSE
    OBVIOUS
<1> DEFINE beyond == {b \in Sorting!Movable : b.lcn >= min_lcn}
           T == {b.lcn : b \in beyond}
<1>1. PICK b \in BlocksOf(f) : b.vcn = FirstVcn(map[f])
    BY FirstBegins
<1>2. b.vcn \in DOMAIN map[f] /\ b.lcn = map[f][b.vcn]
    BY <1>1, BlockIs
<1>3. b \in Sorting!Movable /\ b.lcn >= min_lcn
    BY <1>1, <1>2, SortMovableIs DEF Cleared
<1>4. ASSUME NEW c \in Sorting!Movable PROVE c.lcn \in Nat
    <2>1. PICK g \in Files : c \in BlocksOf(g)
        BY SortMovableIs
    <2> QED
        BY <2>1, BlockIs
<1>5. T \subseteq Nat /\ T # {}
    BY <1>3, <1>4
<1>6. PICK n \in T : \A k \in T : n <= k
    <2> HIDE DEF T
    <2> QED
        BY <1>5, LeastNatural
<1>7. PICK c \in beyond : n = c.lcn
    BY <1>6
<1>8. \A d \in beyond : c.lcn <= d.lcn
    BY <1>6, <1>7
<1>9. FirstBlock(Sorting!Movable, min_lcn) = {d \in beyond : \A e \in beyond : d.lcn <= e.lcn}
    BY DEF FirstBlock
<1>10. c \in FirstBlock(Sorting!Movable, min_lcn)
    <2> HIDE DEF beyond, T
    <2> QED
        BY <1>7, <1>8, <1>9
<1> QED
    BY <1>10, SortingIsSame

\* A block which may stay belongs to no file of the tree.
LEMMA SkipBlockKeeps ==
    ASSUME Sound, cleaning \in Cleaning, SortInv, UNCHANGED <<fixed, excluded>>, Sorting!SkipBlock
    PROVE  SortKept
<1>1. /\ pc = "back" /\ pc' = "back"
      /\ UNCHANGED <<fs, map, free, failed, stuck, stopped, cleaning, tree, front, notfound, placed, cur>>
      /\ UNCHANGED <<start_lcn, end_lcn>>
    BY DEF Sorting!SkipBlock, Sorting!moves, Sorting!disk, Sorting!nature, Sorting!front_flags
<1>2. PICK b \in Sorting!FirstBlock(Sorting!Movable, min_lcn) :
            ~(Size(map[b.file]) < Limit) /\ min_lcn' = b.lcn + 1
    BY SortingIsSame DEF Sorting!SkipBlock, Sorting!QuiteSmall
<1>3. SortTypes /\ SortOrder /\ Cleared(min_lcn) /\ tree \subseteq Files
    BY <1>1 DEF SortInv, SortTypes
<1>4. /\ b.file \in Files /\ b \in BlocksOf(b.file)
      /\ \A f \in tree : Entire(f) => \A v \in DOMAIN map[f] :
            map[f][v] >= b.lcn + 1 \/ (f = b.file /\ v = b.vcn /\ map[f][v] = b.lcn)
    BY <1>3, NextBlockIs
<1>5. b.lcn \in Nat /\ b.length \in Nat \ {0} /\ b.lcn + b.length <= NClusters
    BY <1>4, BlockIs
<1>6. min_lcn' \in 0 .. NClusters
    BY <1>2, <1>5, VolumeAssumption
<1>7. b.file \notin tree
    BY <1>2, <1>3 DEF SortTypes
<1>8. SortTypes'
    BY <1>1, <1>3, <1>6 DEF SortTypes
<1>9. SortOrder'
    BY <1>1, <1>3, SameOrder
<1>10. \A f \in tree : Entire(f)' <=> Entire(f)
    BY <1>1 DEF Entire, CanMove
<1>11. Cleared(min_lcn)'
    BY <1>1, <1>2, <1>4, <1>7, <1>10 DEF Cleared
<1>12. SortInv'
    BY <1>1, <1>8, <1>9, <1>11 DEF SortInv
<1> QED
    BY <1>1, <1>12, QuietKeeps

\* A file which turns out to be locked is passed over from now on.
LEMMA SortMeetLockedKeeps ==
    ASSUME Sound, cleaning \in Cleaning, SortInv, UNCHANGED <<fixed, excluded>>, Sorting!MeetLocked
    PROVE  SortKept
<1>1. /\ pc = "back" /\ pc' = "back"
      /\ UNCHANGED <<fs, map, free, failed, stopped, cleaning, tree, front, notfound, placed, cur>>
      /\ UNCHANGED <<start_lcn, end_lcn, min_lcn>>
    BY DEF Sorting!MeetLocked, Sorting!FindLocked, Sorting!disk, Sorting!nature,
           Sorting!front_flags, Sorting!bounds
<1>2. PICK b \in Sorting!FirstBlock(Sorting!Movable, min_lcn) : stuck' = stuck \cup {b.file}
    BY DEF Sorting!MeetLocked, Sorting!FindLocked
<1>3. SortTypes /\ SortOrder /\ Cleared(min_lcn) /\ tree \subseteq Files
    BY <1>1 DEF SortInv, SortTypes
<1>4. b \in FirstBlock(Sorting!Movable, min_lcn)
    BY <1>2, SortingIsSame
<1>5. b \in Sorting!Movable
    BY <1>4 DEF FirstBlock
<1>6. PICK g \in Files : b \in BlocksOf(g)
    BY <1>5, SortMovableIs
<1>7. b.file \in Files
    BY <1>6, BlockIs
<1>8. Sound'
    BY <1>1, <1>2, <1>7 DEF Sound
<1>9. SortTypes'
    BY <1>1, <1>3 DEF SortTypes
<1>10. SortOrder'
    BY <1>1, <1>3, SameOrder
<1>11. \A f : Entire(f)' => Entire(f)
    BY <1>1, <1>2 DEF Entire, CanMove
<1>12. Cleared(min_lcn)'
    BY <1>1, <1>3, <1>11 DEF Cleared
<1>13. SortInv'
    BY <1>1, <1>9, <1>10, <1>12 DEF SortInv
<1> QED
    BY <1>1, <1>8, <1>13 DEF SortKept

\* The space up to the block is clear of what is to be sorted.
LEMMA CleanBlockKeeps ==
    ASSUME Sound, cleaning \in Cleaning, SortInv, UNCHANGED <<fixed, excluded>>, Sorting!CleanBlock
    PROVE  SortKept
<1>1. /\ pc = "back" /\ pc' = "cleanup"
      /\ UNCHANGED <<fs, map, free, failed, stuck, stopped, tree, front, notfound, placed, cur>>
      /\ UNCHANGED <<start_lcn, end_lcn>>
    BY DEF Sorting!CleanBlock, Sorting!moves, Sorting!disk, Sorting!nature, Sorting!front_flags
<1>2. PICK b \in Sorting!FirstBlock(Sorting!Movable, min_lcn) :
            Begin(b, b.length) /\ min_lcn' = b.lcn + 1
    BY SortingIsSame DEF Sorting!CleanBlock
<1>3. SortTypes /\ SortOrder /\ Cleared(min_lcn) /\ tree \subseteq Files
    BY <1>1 DEF SortInv, SortTypes
<1>4. /\ b.file \in Files /\ Entire(b.file) /\ b \in BlocksOf(b.file)
      /\ \A f \in tree : Entire(f) => \A v \in DOMAIN map[f] :
            map[f][v] >= b.lcn + 1 \/ (f = b.file /\ v = b.vcn /\ map[f][v] = b.lcn)
    BY <1>3, NextBlockIs
<1>5. /\ b.lcn \in Nat /\ b.length \in Nat \ {0} /\ b.lcn + b.length <= NClusters /\ b.vcn \in Nat
    BY <1>4, BlockIs
<1>6. /\ cleaning'.file = b.file /\ cleaning'.vcn = b.vcn /\ cleaning'.left = b.length
      /\ cleaning'.lcn = b.lcn /\ cleaning'.last = b.lcn + b.length - 1
      /\ cleaning' \in Cleaning
    BY <1>2, <1>4, <1>5 DEF Begin, Cleaning
<1>7. min_lcn' \in 0 .. NClusters
    BY <1>2, <1>5, VolumeAssumption
<1>8. SortTypes'
    BY <1>1, <1>3, <1>7 DEF SortTypes
<1>9. SortOrder'
    BY <1>1, <1>3, SameOrder
<1>10. \A f : Entire(f)' <=> Entire(f)
    BY <1>1 DEF Entire, CanMove
<1>11. cleaning'.file \in Files \ (front' \cup fixed')
    BY <1>1, <1>4, <1>6 DEF Entire
<1>12. cleaning'.left # 0 /\ cleaning'.lcn <= cleaning'.last /\ cleaning'.lcn < NClusters
    <2>1. NClusters \in Nat
        BY VolumeAssumption
    <2>2. b.length # 0 /\ b.lcn <= b.lcn + b.length - 1 /\ b.lcn < NClusters
        BY <1>5, <2>1
    <2> QED
        BY <1>6, <2>2
<1>13. SortBlock'
    BY <1>1, <1>2, <1>4, <1>6, <1>10, <1>11, <1>12 DEF SortBlock
<1>14. SortInv'
    BY <1>1, <1>8, <1>9, <1>13 DEF SortInv
<1>15. Sound'
    BY <1>1 DEF Sound
<1> QED
    BY <1>1, <1>6, <1>14, <1>15 DEF SortKept

\* The cleaning is over: everything before the bound is clear.
LEMMA EndBackKeeps ==
    ASSUME Sound, cleaning \in Cleaning, SortInv, UNCHANGED <<fixed, excluded>>, Sorting!EndBack
    PROVE  SortKept
<1>1. /\ pc = "back" /\ pc' = "turn" /\ end_lcn' = NClusters
      /\ Sorting!FirstBlock(Sorting!Movable, min_lcn) = {}
      /\ UNCHANGED <<fs, map, free, failed, stuck, stopped, cleaning, tree, front, notfound, placed, cur>>
      /\ UNCHANGED <<start_lcn, min_lcn>>
    BY DEF Sorting!EndBack, Sorting!moves, Sorting!disk, Sorting!nature, Sorting!front_flags
<1>2. SortTypes /\ SortOrder /\ Cleared(min_lcn) /\ tree \subseteq Files /\ min_lcn \in Nat
    BY <1>1 DEF SortInv, SortTypes
<1>3. SortTypes'
    BY <1>1, <1>2, VolumeAssumption DEF SortTypes
<1>4. SortOrder'
    BY <1>1, <1>2, SameOrder
<1>5. ~stopped => \A f \in tree : ~Entire(f)
    BY <1>1, <1>2, NoBlockIs
<1>6. \A f : Entire(f)' <=> Entire(f)
    BY <1>1 DEF Entire, CanMove
<1>7. stopped' \/ Cleared(end_lcn)'
    BY <1>1, <1>5, <1>6 DEF Cleared
<1>8. SortInv'
    BY <1>1, <1>3, <1>4, <1>7 DEF SortInv
<1> QED
    BY <1>1, <1>8, QuietKeeps

\* The cleaning ends early, and the bound is where it has got to.
LEMMA NoSpaceBehindKeeps ==
    ASSUME Sound, cleaning \in Cleaning, SortInv, UNCHANGED <<fixed, excluded>>, Sorting!NoSpaceBehind
    PROVE  SortKept
<1>1. /\ pc = "cleanup" /\ pc' = "turn" /\ end_lcn' = cleaning.lcn /\ cleaning' = Idle
      /\ UNCHANGED <<fs, map, free, failed, stuck, stopped, tree, front, notfound, placed, cur>>
      /\ UNCHANGED <<start_lcn, min_lcn>>
    BY SortingIsSame
       DEF Sorting!NoSpaceBehind, Sorting!moves, Sorting!disk, Sorting!nature, Sorting!front_flags
<1>2. SortTypes /\ SortOrder /\ SortBlock
    BY <1>1 DEF SortInv
<1>3. cleaning.lcn \in Nat /\ cleaning.lcn < NClusters /\ min_lcn = cleaning.lcn + 1
    BY <1>2 DEF SortBlock, Cleaning
<1>4. end_lcn' \in 0 .. NClusters
    BY <1>1, <1>3, VolumeAssumption
<1>5. SortTypes'
    BY <1>1, <1>2, <1>4 DEF SortTypes
<1>6. SortOrder'
    BY <1>1, <1>2, SameOrder
<1>7. \A f : Entire(f)' <=> Entire(f)
    BY <1>1 DEF Entire, CanMove
<1>8. \A f \in tree : Entire(f) => \A v \in DOMAIN map[f] : map[f][v] >= cleaning.lcn
    <2> SUFFICES ASSUME NEW f \in tree, Entire(f), NEW v \in DOMAIN map[f]
                 PROVE  map[f][v] >= cleaning.lcn
        OBVIOUS
    <2>1. map[f][v] >= min_lcn \/ map[f][v] = cleaning.lcn
        BY <1>2 DEF SortBlock
    <2>2. f \in Files
        BY <1>2 DEF SortTypes
    <2>3. map[f][v] \in Nat
        BY <2>2 DEF Sound, IsMap, Clusters
    <2> QED
        BY <1>3, <2>1, <2>3
<1>9. Cleared(end_lcn)'
    BY <1>1, <1>7, <1>8 DEF Cleared
<1>10. SortInv'
    BY <1>1, <1>5, <1>6, <1>9 DEF SortInv
<1> QED
    BY <1>1, <1>10, QuietKeeps

\* A file which is not there yet has been moved, as a whole or in part.
LEMMA OrderKept ==
    ASSUME Sound, SortTypes, SortOrder, NEW f \in Files \ front, NEW ch, NEW lcn, NEW n,
           Shift(f, ch, lcn, n), UNCHANGED <<cur, placed, start_lcn>>
    PROVE  SortOrder'
<1>1. \A g \in placed : Lcn(g)' = Lcn(g) /\ map'[g] = map[g]
    BY DEF Lcn, Shift, SortTypes
<1> QED
    BY <1>1 DEF SortOrder

\* Each place is what it was or lies within the target.
LEMMA ShiftedIs ==
    ASSUME NEW f \in Files, NEW ch, NEW lcn, NEW n, Shift(f, ch, lcn, n)
    PROVE  \A g \in Files : /\ DOMAIN map'[g] = DOMAIN map[g] /\ Size(map'[g]) = Size(map[g])
                            /\ \A v \in DOMAIN map[g] :
                                 \/ map'[g][v] = map[g][v] /\ (g = f => v \notin ch)
                                 \/ g = f /\ v \in ch /\ map'[g][v] \in lcn .. lcn + n - 1
BY DEF Shift, Size

\* A piece of the block gets behind the bound.
LEMMA SortPieceMovedKeeps ==
    ASSUME Sound, fixed \subseteq Files, cleaning \in Cleaning, SortInv,
           UNCHANGED <<fixed, excluded>>, Sorting!MoveBlock,
           PieceMoved(0)
    PROVE  SortKept
<1>1. /\ pc = "cleanup" /\ pc' \in {"cleanup", "back"}
      /\ UNCHANGED <<stopped, tree, front, notfound, placed, cur, start_lcn, end_lcn, min_lcn>>
    BY DEF Sorting!MoveBlock, Sorting!nature, Sorting!front_flags, Sorting!bounds
<1>2. SortTypes /\ SortOrder /\ SortBlock
    BY <1>1 DEF SortInv
<1>3. /\ cleaning.file \in Files \ (front \cup fixed) /\ cleaning.left # 0 /\ cleaning.lcn <= cleaning.last
      /\ cleaning.lcn < NClusters /\ min_lcn = cleaning.lcn + 1
      /\ cleaning.lcn \in Nat /\ cleaning.last \in Nat
    BY <1>2 DEF SortBlock, Cleaning
<1>4. PICK p \in Pieces(0) :
            LET ch == Chain(map[cleaning.file], cleaning.vcn, p.length)
            IN /\ p.length \in 1 .. cleaning.left /\ p.lcn \in Nat
               /\ p.lcn > cleaning.last \/ p.lcn + p.length <= 0
               /\ Sound' /\ Shift(cleaning.file, ch, p.lcn, p.length) /\ cleaning.vcn \in ch
               /\ Continued(p) /\ cleaning' \in Cleaning
               /\ UNCHANGED <<fs, failed, stuck>>
    BY <1>3, PieceMovedKeeps
<1> DEFINE f == cleaning.file
           ch == Chain(map[f], cleaning.vcn, p.length)
<1>5. \A c \in p.lcn .. p.lcn + p.length - 1 : c >= min_lcn
    BY <1>3, <1>4
<1>6. Shift(f, ch, p.lcn, p.length) /\ cleaning.vcn \in ch
    BY <1>4
<1> HIDE DEF ch
<1>7. \A g \in Files : /\ DOMAIN map'[g] = DOMAIN map[g] /\ Size(map'[g]) = Size(map[g])
                       /\ \A v \in DOMAIN map[g] :
                            \/ map'[g][v] = map[g][v] /\ (g = f => v \notin ch)
                            \/ g = f /\ v \in ch /\ map'[g][v] \in p.lcn .. p.lcn + p.length - 1
    BY <1>3, <1>6, ShiftedIs
<1>8. tree \subseteq Files
    BY <1>2 DEF SortTypes
<1>9. SortTypes'
    BY <1>1, <1>2, <1>7, <1>8 DEF SortTypes
<1>10. SortOrder'
    BY <1>1, <1>2, <1>3, <1>6, OrderKept
<1>11. \A g : Entire(g)' <=> Entire(g)
    BY <1>1, <1>4 DEF Entire, CanMove
<1>12. ASSUME NEW g \in tree, Entire(g), NEW v \in DOMAIN map'[g] PROVE map'[g][v] >= min_lcn
    <2>1. g \in Files /\ v \in DOMAIN map[g]
        BY <1>7, <1>8, <1>12
    <2>2. CASE map'[g][v] = map[g][v] /\ (g = f => v \notin ch)
        <3>1. map[g][v] >= min_lcn \/ (g = f /\ v = cleaning.vcn)
            BY <1>2, <1>12, <2>1 DEF SortBlock
        <3> QED
            BY <1>6, <2>2, <3>1
    <2>3. CASE map'[g][v] \in p.lcn .. p.lcn + p.length - 1
        BY <1>5, <2>3
    <2> QED
        BY <1>7, <2>1, <2>2, <2>3
<1>13. pc' = "back" => Cleared(min_lcn)'
    BY <1>1, <1>11, <1>12 DEF Cleared
<1>14. pc' = "cleanup" => SortBlock'
    <2> SUFFICES ASSUME pc' = "cleanup" PROVE SortBlock'
        OBVIOUS
    <2>1. /\ cleaning'.file = f /\ cleaning'.lcn = cleaning.lcn /\ cleaning'.last = cleaning.last
        BY <1>4 DEF Continued
    <2>2. cleaning'.left # 0
        BY <1>1 DEF Sorting!MoveBlock
    <2> QED
        BY <1>1, <1>3, <1>11, <1>12, <2>1, <2>2 DEF SortBlock
<1>15. SortInv'
    BY <1>1, <1>9, <1>10, <1>13, <1>14 DEF SortInv
<1>16. \A g \in fixed : map'[g] = map[g]
    <2>1. DOMAIN map' = Files /\ DOMAIN map = Files /\ \A g \in Files : g # f => map'[g] = map[g]
        BY <1>6 DEF Shift, Sound
    <2> QED
        BY <1>3, <2>1
<1> QED
    BY <1>1, <1>4, <1>15, <1>16 DEF SortKept

\* A block which cannot be moved belongs to a file which is not sorted any more.
LEMMA SortPieceFailsKeeps ==
    ASSUME Sound, fixed \subseteq Files, cleaning \in Cleaning, SortInv,
           UNCHANGED <<fixed, excluded>>, Sorting!MoveBlock, PieceFails(0), pc' = "back"
    PROVE  SortKept
<1>1. /\ pc = "cleanup"
      /\ UNCHANGED <<stopped, tree, front, notfound, placed, cur, start_lcn, end_lcn, min_lcn>>
    BY DEF Sorting!MoveBlock, Sorting!nature, Sorting!front_flags, Sorting!bounds
<1>2. SortTypes /\ SortOrder /\ SortBlock
    BY <1>1 DEF SortInv
<1>3. /\ cleaning.file \in Files \ (front \cup fixed) /\ cleaning.left # 0 /\ cleaning.lcn <= cleaning.last
      /\ cleaning.lcn < NClusters /\ min_lcn = cleaning.lcn + 1
      /\ cleaning.lcn \in Nat /\ cleaning.last \in Nat
    BY <1>2 DEF SortBlock, Cleaning
<1> DEFINE f == cleaning.file
<1>4. PICK p \in Pieces(0) :
        /\ p.length \in 1 .. cleaning.left /\ p.lcn \in Nat
        /\ p.lcn > cleaning.last \/ p.lcn + p.length <= 0
        /\ Sound' /\ cleaning' = Idle /\ fs' = fs
        /\ f \in failed' \cup stuck'
        /\ failed \subseteq failed' /\ stuck \subseteq stuck'
        /\ \E ch \in SUBSET Chain(map[f], cleaning.vcn, p.length) : Shift(f, ch, p.lcn, p.length)
    BY <1>3, PieceFailsKeeps
<1>5. PICK ch : Shift(f, ch, p.lcn, p.length)
    BY <1>4
<1>6. \A g \in Files : /\ DOMAIN map'[g] = DOMAIN map[g] /\ Size(map'[g]) = Size(map[g])
                       /\ \A v \in DOMAIN map[g] : g # f => map'[g][v] = map[g][v]
    BY <1>3, <1>5, ShiftedIs
<1>7. tree \subseteq Files
    BY <1>2 DEF SortTypes
<1>8. SortTypes'
    BY <1>1, <1>2, <1>6, <1>7 DEF SortTypes
<1>9. SortOrder'
    BY <1>1, <1>2, <1>3, <1>5, OrderKept
<1>10. \A g : Entire(g)' => Entire(g) /\ g # f
    BY <1>1, <1>4 DEF Entire, CanMove
<1>11. ASSUME NEW g \in tree, Entire(g)', NEW v \in DOMAIN map'[g] PROVE map'[g][v] >= min_lcn
    <2>1. g \in Files /\ Entire(g) /\ g # f
        BY <1>7, <1>10, <1>11
    <2>2. v \in DOMAIN map[g] /\ map'[g][v] = map[g][v]
        BY <1>6, <2>1
    <2>3. map[g][v] >= min_lcn
        BY <1>2, <2>1, <2>2 DEF SortBlock
    <2> QED
        BY <2>2, <2>3
<1>12. Cleared(min_lcn)'
    BY <1>1, <1>11 DEF Cleared
<1>13. SortInv'
    BY <1>1, <1>8, <1>9, <1>12 DEF SortInv
<1>14. \A g \in fixed : map'[g] = map[g]
    <2>1. \A g \in Files : g # f => map'[g] = map[g]
        BY <1>5 DEF Shift
    <2> QED
        BY <1>3, <2>1
<1>15. cleaning' \in Cleaning
    BY <1>4 DEF Idle, Cleaning
<1> QED
    BY <1>1, <1>4, <1>13, <1>14, <1>15 DEF SortKept

\* Both outcomes of a move of a piece.
LEMMA SortMoveBlockKeeps ==
    ASSUME Sound, fixed \subseteq Files, cleaning \in Cleaning, SortInv,
           UNCHANGED <<fixed, excluded>>, Sorting!MoveBlock
    PROVE  SortKept
<1>1. PieceMoved(0) \/ (PieceFails(0) /\ pc' = "back")
    BY SortingIsSame DEF Sorting!MoveBlock
<1> QED
    BY <1>1, SortPieceMovedKeeps, SortPieceFailsKeeps

-----------------------------------------------------------------------------
(* Moving files to the front.                                              *)

\* The traversal goes on.
LEMMA NextOrder ==
    ASSUME SortTypes, SortOrder, cur # None, cur' = Sorting!NextOf(cur),
           UNCHANGED <<map, placed, start_lcn, tree>>
    PROVE  SortOrder' /\ cur' \in tree \cup {None}
<1>1. tree \subseteq Files /\ cur \in Nat /\ placed \subseteq Files
    BY VolumeAssumption DEF SortTypes
<1>2. cur' = None \/ (cur' \in tree /\ cur' > cur)
    BY <1>1, NextIs
<1>3. \A f \in placed : Lcn(f)' = Lcn(f) /\ map'[f] = map[f]
    BY DEF Lcn
<1>4. \A f \in placed : cur' = None \/ f < cur'
    <2> SUFFICES ASSUME NEW f \in placed, cur' # None PROVE f < cur'
        OBVIOUS
    <2>1. f < cur
        BY DEF SortOrder
    <2>2. f \in Nat /\ cur' \in Nat /\ cur' > cur
        BY <1>1, <1>2, VolumeAssumption
    <2> QED
        BY <1>1, <2>1, <2>2
<1> QED
    BY <1>2, <1>3, <1>4 DEF SortOrder

\* Files which are no candidates are passed over.
LEMMA PassOverKeeps ==
    ASSUME Sound, cleaning \in Cleaning, SortInv, UNCHANGED <<fixed, excluded>>,
           Sorting!PassOver \/ Sorting!SkipFile
    PROVE  SortKept
<1>1. /\ pc = "front" /\ pc' = "front" /\ cur # None /\ cur' = Sorting!NextOf(cur)
      /\ UNCHANGED <<fs, map, free, failed, stuck, stopped, cleaning, tree, front, notfound, placed>>
      /\ UNCHANGED <<start_lcn, end_lcn, min_lcn>>
    BY SortingIsSame
       DEF Sorting!PassOver, Sorting!SkipFile, Sorting!NoRegion, Sorting!moves, Sorting!disk,
           Sorting!nature, Sorting!front_flags, Sorting!bounds
<1>2. SortTypes /\ SortOrder /\ (stopped \/ Cleared(end_lcn))
    BY <1>1 DEF SortInv
<1>3. SortOrder' /\ cur' \in tree \cup {None}
    BY <1>1, <1>2, NextOrder
<1>4. SortTypes'
    BY <1>1, <1>2, <1>3 DEF SortTypes
<1>5. Cleared(end_lcn) => Cleared(end_lcn)'
    BY <1>1, SameCleared DEF Cleared
<1>6. SortInv'
    BY <1>1, <1>2, <1>3, <1>4, <1>5 DEF SortInv
<1> QED
    BY <1>1, <1>6, QuietKeeps

\* A file which fits nowhere waits for a later pass.
LEMMA WaitKeeps ==
    ASSUME Sound, cleaning \in Cleaning, SortInv, UNCHANGED <<fixed, excluded>>, Sorting!Wait
    PROVE  SortKept
<1>1. /\ pc = "front" /\ pc' = "pass" /\ cur # None /\ notfound' = notfound \cup {cur}
      /\ UNCHANGED <<fs, map, free, failed, stuck, stopped, cleaning, tree, front, placed, cur>>
      /\ UNCHANGED <<start_lcn, end_lcn, min_lcn>>
    BY SortingIsSame
       DEF Sorting!Wait, Sorting!NoRegion, Sorting!moves, Sorting!disk, Sorting!nature, Sorting!bounds
<1>2. SortTypes /\ SortOrder /\ (stopped \/ Cleared(end_lcn))
    BY <1>1 DEF SortInv
<1>3. SortTypes'
    BY <1>1, <1>2 DEF SortTypes
<1>4. SortOrder'
    BY <1>1, <1>2, SameOrder
<1>5. Cleared(end_lcn) => Cleared(end_lcn)'
    BY <1>1, SameCleared DEF Cleared
<1>6. SortInv'
    BY <1>1, <1>2, <1>3, <1>4, <1>5 DEF SortInv
<1> QED
    BY <1>1, <1>6, QuietKeeps

\* The traversal is over.
LEMMA EndFrontKeeps ==
    ASSUME Sound, cleaning \in Cleaning, SortInv, UNCHANGED <<fixed, excluded>>, Sorting!EndFront
    PROVE  SortKept
<1>1. /\ pc = "front" /\ pc' = "done"
      /\ UNCHANGED <<fs, map, free, failed, stuck, stopped, cleaning, tree, front, notfound, placed, cur>>
      /\ UNCHANGED <<start_lcn, end_lcn, min_lcn>>
    BY DEF Sorting!EndFront, Sorting!moves, Sorting!disk, Sorting!nature, Sorting!front_flags,
           Sorting!bounds
<1>2. SortTypes /\ SortOrder
    BY <1>1 DEF SortInv
<1>3. SortTypes'
    BY <1>1, <1>2 DEF SortTypes
<1>4. SortOrder'
    BY <1>1, <1>2, SameOrder
<1>5. SortInv'
    BY <1>1, <1>3, <1>4 DEF SortInv
<1> QED
    BY <1>1, <1>5, QuietKeeps

\* Where the next file goes: to the cleared part of the disk, before all of
\* its clusters.
LEMMA TargetIs ==
    ASSUME Sound, SortTypes, cur # None, Entire(cur), stopped \/ Cleared(end_lcn),
           NEW lcn \in Sorting!Targets(cur)
    PROVE  /\ cur \in Files /\ cur \in Nat /\ Size(map[cur]) \in Nat \ {0}
           /\ lcn \in Nat /\ lcn >= start_lcn /\ lcn < NClusters /\ lcn + Size(map[cur]) <= NClusters
           /\ Vacant(lcn, Size(map[cur]))
           /\ \A v \in DOMAIN map[cur] : lcn < map[cur][v]
<1>1. cur \in tree /\ cur \in Files /\ cur \in Nat
    BY VolumeAssumption DEF SortTypes
<1>2. Size(map[cur]) \in Nat \ {0}
    BY <1>1, SizeIs DEF Sound
<1>3. lcn \in FirstRegion(start_lcn, Size(map[cur])) /\ lcn < end_lcn
    BY SortingIsSame DEF Sorting!Targets
<1>4. start_lcn \in Nat /\ end_lcn \in Nat /\ free \subseteq Clusters
    BY DEF SortTypes, Sound
<1>5. /\ ~stopped /\ lcn \in Nat /\ lcn >= start_lcn /\ lcn < NClusters
      /\ lcn + Size(map[cur]) <= NClusters
      /\ lcn .. lcn + Size(map[cur]) - 1 \subseteq free
    BY <1>2, <1>3, <1>4, FirstRegionIs
<1>6. Vacant(lcn, Size(map[cur]))
    BY <1>5, FreeIsVacant
<1>7. ASSUME NEW v \in DOMAIN map[cur] PROVE lcn < map[cur][v]
    <2>1. map[cur][v] >= end_lcn
        BY <1>1, <1>5 DEF Cleared
    <2>2. map[cur][v] \in Nat
        BY <1>1 DEF Sound, IsMap, Clusters
    <2> QED
        BY <1>3, <1>4, <1>5, <2>1, <2>2
<1> QED
    BY <1>1, <1>2, <1>5, <1>6, <1>7

\* The rest of the files to be sorted stays where it is.
LEMMA FrontCleared ==
    ASSUME NEW f, SortTypes, stopped \/ Cleared(end_lcn), \A g \in Files : g # f => map'[g] = map[g],
           front' = front \cup {f}, failed \subseteq failed', stuck \subseteq stuck',
           UNCHANGED <<stopped, tree, end_lcn, excluded, fixed>>
    PROVE  stopped' \/ Cleared(end_lcn)'
<1>1. tree \subseteq Files
    BY DEF SortTypes
<1>2. \A g : Entire(g)' => Entire(g) /\ g # f
    BY DEF Entire, CanMove
<1> QED
    BY <1>1, <1>2 DEF Cleared

\* A file has been moved to the front, or has failed.
LEMMA FrontTypes ==
    ASSUME SortTypes, pc = "front", pc' = "front", cur # None, front' = front \cup {cur},
           placed' \in {placed, placed \cup {cur}}, cur' \in tree \cup {None},
           start_lcn' \in 0 .. NClusters, \A g \in Files : Size(map'[g]) = Size(map[g]),
           UNCHANGED <<tree, notfound, fixed, end_lcn, min_lcn>>
    PROVE  SortTypes'
<1>1. /\ tree \subseteq Files \ fixed /\ front \subseteq tree /\ placed \subseteq front
      /\ notfound \subseteq tree /\ cur \in tree
      /\ end_lcn \in 0 .. NClusters /\ min_lcn \in 0 .. NClusters
      /\ \A f \in tree : Size(map[f]) < Limit
    BY DEF SortTypes
<1>2. front' \subseteq tree /\ placed' \subseteq front'
    BY <1>1
<1>3. \A f \in tree' : Size(map'[f]) < Limit
    BY <1>1
<1> QED
    BY <1>1, <1>2, <1>3 DEF SortTypes

\* It lies before whatever follows it in the tree, and behind whatever precedes it.
LEMMA MoveToFrontKeeps ==
    ASSUME Sound, fixed \subseteq Files, cleaning \in Cleaning, SortInv,
           UNCHANGED <<fixed, excluded>>, Sorting!MoveToFront
    PROVE  SortKept
<1> DEFINE first == FirstVcn(map[cur])
           size == Size(map[cur])
<1>1. /\ pc = "front" /\ pc' = "front" /\ cur # None /\ Entire(cur)
      /\ front' = front \cup {cur} /\ cur' = Sorting!NextOf(cur)
      /\ UNCHANGED <<stopped, cleaning, tree, notfound, end_lcn, min_lcn>>
    BY SortingIsSame, EntireIs DEF Sorting!MoveToFront, Sorting!nature
<1>2. PICK lcn \in Sorting!Targets(cur) :
        \/ /\ Success(cur, first, size, lcn) /\ placed' = placed \cup {cur}
           /\ start_lcn' = IF size < Magic THEN lcn + 1 ELSE start_lcn
        \/ MoveFails(cur, first, size, lcn) /\ UNCHANGED <<placed, start_lcn>>
    BY SortingIsSame DEF Sorting!MoveToFront, Sorting!Advance
<1>3. SortTypes /\ SortOrder /\ (stopped \/ Cleared(end_lcn))
    BY <1>1 DEF SortInv
<1>4. /\ cur \in Files /\ cur \in Nat /\ size \in Nat \ {0}
      /\ lcn \in Nat /\ lcn >= start_lcn /\ lcn < NClusters /\ lcn + size <= NClusters
      /\ Vacant(lcn, size)
      /\ \A v \in DOMAIN map[cur] : lcn < map[cur][v]
    BY <1>1, <1>3, TargetIs
<1>5. first \in DOMAIN map[cur] /\ first \in Nat /\ IsMap(map[cur])
    BY <1>4, FirstIs DEF Sound, IsMap
<1>6. cur \in tree /\ cur \notin front /\ tree \subseteq Files /\ start_lcn \in 0 .. NClusters
    BY <1>1, <1>3, EntireIs DEF SortTypes
<1> HIDE DEF first, size
<1>7. cur' \in tree \cup {None} /\ (cur' # None => cur' > cur)
    BY <1>1, <1>4, <1>6, NextIs
<1>8. CASE Success(cur, first, size, lcn) /\ placed' = placed \cup {cur}
           /\ start_lcn' = IF size < Magic THEN lcn + 1 ELSE start_lcn
    <2> DEFINE ch == Chain(map[cur], first, size)
    <2>1. /\ Sound' /\ Shift(cur, ch, lcn, size) /\ map'[cur][first] = lcn
          /\ UNCHANGED <<fs, failed, stuck>>
        BY <1>4, <1>5, <1>8, SuccessKeeps
    <2> HIDE DEF ch
    <2>2. \A g \in Files : DOMAIN map'[g] = DOMAIN map[g] /\ Size(map'[g]) = Size(map[g])
        BY <1>4, <2>1, ShiftedIs
    <2>3. \A g \in Files : g # cur => map'[g] = map[g]
        BY <2>1 DEF Shift
    <2>4. start_lcn' \in 0 .. NClusters /\ start_lcn' >= start_lcn
        BY <1>4, <1>6, <1>8, VolumeAssumption
    <2>5. SortTypes'
        BY <1>1, <1>3, <1>7, <1>8, <2>2, <2>4, FrontTypes
    <2>6. \A g \in placed : g # cur /\ g \in Files /\ map'[g] = map[g] /\ Lcn(g)' = Lcn(g) /\ g < cur
        BY <1>1, <1>3, <1>6, <2>3 DEF SortTypes, SortOrder, Lcn
    <2>7. PICK c \in Files : c = cur
        BY <1>4
    <2>8. Lcn(c)' = lcn /\ Size(map'[c]) = size
        <3>1. map'[c][FirstVcn(map'[c])] = lcn
            BY <2>1, <2>2, <2>7 DEF FirstVcn, first
        <3> QED
            BY <2>2, <2>7, <3>1 DEF Lcn, size
    <2>9. \A g \in placed' : g = c \/ g \in placed
        BY <1>8, <2>7
    <2>10. \A g \in placed' : cur' = None \/ g < cur'
        <3> SUFFICES ASSUME NEW g \in placed', cur' # None PROVE g < cur'
            OBVIOUS
        <3>1. cur' \in Nat /\ cur' > cur /\ cur \in Nat
            BY <1>4, <1>6, <1>7, VolumeAssumption
        <3>2. g \in Nat /\ (g = cur \/ g < cur)
            BY <1>4, <2>6, <2>7, <2>9, VolumeAssumption
        <3> QED
            BY <3>1, <3>2
    <2>11. \A g \in placed : Size(map[g]) < Magic => Lcn(g) < start_lcn /\ Lcn(g) \in Nat
        <3>1. \A g \in Files : FirstVcn(map[g]) \in DOMAIN map[g]
            BY FirstIs DEF Sound
        <3>2. \A g \in Files : Lcn(g) \in Nat
            BY <3>1 DEF Lcn, Sound, IsMap, Clusters
        <3> QED
            BY <1>3, <2>6, <3>2 DEF SortOrder
    <2>12. ASSUME NEW g \in placed', Size(map'[g]) < Magic PROVE Lcn(g)' < start_lcn'
        <3>1. CASE g = c
            BY <1>4, <1>8, <2>8, <2>12, <3>1
        <3>2. CASE g # c
            <4>1. g \in placed /\ Lcn(g)' = Lcn(g) /\ Size(map[g]) < Magic
                BY <2>6, <2>9, <2>12, <3>2
            <4> QED
                BY <1>6, <2>4, <2>11, <4>1
        <3> QED
            BY <3>1, <3>2
    <2>13. ASSUME NEW g \in placed', NEW h \in placed', g < h, Size(map'[g]) < Magic
           PROVE  Lcn(g)' < Lcn(h)'
        <3>1. CASE g # c /\ h # c
            <4>1. g \in placed /\ h \in placed /\ Lcn(g)' = Lcn(g) /\ Lcn(h)' = Lcn(h) /\ Size(map[g]) < Magic
                BY <2>6, <2>9, <2>13, <3>1
            <4> QED
                BY <1>3, <2>13, <4>1 DEF SortOrder
        <3>2. CASE g # c /\ h = c
            <4>1. g \in placed /\ Lcn(g)' = Lcn(g) /\ Size(map[g]) < Magic
                BY <2>6, <2>9, <2>13, <3>2
            <4> QED
                BY <1>4, <1>6, <2>8, <2>11, <3>2, <4>1
        <3>3. CASE g = c
            <4>1. h \in Nat /\ (h = g \/ h < g) /\ g \in Nat
                BY <1>4, <2>6, <2>7, <2>9, <3>3, VolumeAssumption
            <4> QED
                BY <2>13, <4>1
        <3> QED
            BY <3>1, <3>2, <3>3
    <2>14. SortOrder'
        BY <2>10, <2>12, <2>13 DEF SortOrder
    <2>15. stopped' \/ Cleared(end_lcn)'
        BY <1>1, <1>3, <2>1, <2>3, FrontCleared
    <2>16. SortInv'
        BY <1>1, <2>5, <2>14, <2>15 DEF SortInv
    <2>17. \A g \in fixed : map'[g] = map[g]
        BY <1>1, <2>3, EntireIs
    <2>18. ASSUME NEW g \in placed' \ placed, NEW v \in DOMAIN map[g]
           PROVE  map'[g][FirstVcn(map'[g])] < map[g][v]
        <3>1. g = cur
            BY <1>8, <2>18
        <3>2. FirstVcn(map'[g]) = first
            BY <1>4, <2>2, <3>1 DEF FirstVcn, first
        <3> QED
            BY <1>4, <2>1, <2>18, <3>1, <3>2
    <2> QED
        BY <1>1, <2>1, <2>16, <2>17, <2>18 DEF SortKept
<1>9. CASE MoveFails(cur, first, size, lcn) /\ UNCHANGED <<placed, start_lcn>>
    <2>1. /\ Sound' /\ fs' = fs /\ failed \subseteq failed' /\ stuck \subseteq stuck'
          /\ \E ch \in SUBSET Chain(map[cur], first, size) : Shift(cur, ch, lcn, size)
        BY <1>4, <1>5, <1>9, FailsKeeps
    <2>2. PICK ch : Shift(cur, ch, lcn, size)
        BY <2>1
    <2>3. \A g \in Files : DOMAIN map'[g] = DOMAIN map[g] /\ Size(map'[g]) = Size(map[g])
        BY <1>4, <2>2, ShiftedIs
    <2>4. \A g \in Files : g # cur => map'[g] = map[g]
        BY <2>2 DEF Shift
    <2>5. SortTypes'
        BY <1>1, <1>3, <1>6, <1>7, <1>9, <2>3, FrontTypes
    <2>6. \A g \in placed : g # cur /\ g \in Files /\ map'[g] = map[g] /\ Lcn(g)' = Lcn(g) /\ g < cur
        BY <1>1, <1>3, <1>6, <2>4 DEF SortTypes, SortOrder, Lcn
    <2>7. \A g \in placed : cur' = None \/ g < cur'
        <3> SUFFICES ASSUME NEW g \in placed, cur' # None PROVE g < cur'
            OBVIOUS
        <3>1. cur' \in Nat /\ cur' > cur /\ cur \in Nat
            BY <1>4, <1>6, <1>7, VolumeAssumption
        <3>2. g \in Nat /\ g < cur
            BY <2>6, VolumeAssumption
        <3> QED
            BY <3>1, <3>2
    <2>8. SortOrder'
        BY <1>3, <1>9, <2>6, <2>7 DEF SortOrder
    <2>9. stopped' \/ Cleared(end_lcn)'
        BY <1>1, <1>3, <2>1, <2>4, FrontCleared
    <2>10. SortInv'
        BY <1>1, <2>5, <2>8, <2>9 DEF SortInv
    <2>11. \A g \in fixed : map'[g] = map[g]
        BY <1>1, <2>4, EntireIs
    <2> QED
        BY <1>1, <1>9, <2>1, <2>10, <2>11 DEF SortKept
<1> QED
    BY <1>2, <1>8, <1>9

\* Every step of the sorting.
LEMMA SortStepKeeps ==
    ASSUME Sound, fixed \subseteq Files, cleaning \in Cleaning, SortInv, Sorting!Step
    PROVE  SortKept /\ UNCHANGED <<fixed, excluded>>
<1>1. UNCHANGED <<fixed, excluded>>
    BY DEF Sorting!Step
<1>2. Sorting!Job
    BY DEF Sorting!Step
<1> QED
    BY <1>1, <1>2, BuildTreeKeeps, StartKeeps, LeaveStoppedKeeps, BeginBackKeeps, SkipBlockKeeps,
       CleanBlockKeeps, EndBackKeeps, SortMoveBlockKeeps, NoSpaceBehindKeeps, BeginFrontKeeps,
       PassOverKeeps, WaitKeeps, MoveToFrontKeeps, EndFrontKeeps, SortMeetLockedKeeps DEF Sorting!Job

-----------------------------------------------------------------------------
(* The rest of a file.                                                     *)

LEMMA LaterIs ==
    ASSUME NEW m, IsMap(m), NEW a \in Nat
    PROVE  /\ IsFiniteSet(Later(m, a)) /\ Cardinality(Later(m, a)) \in Nat
           /\ Cardinality(Later(m, a)) <= Size(m)
           /\ Cardinality(Later(m, a)) = 0 => \A v \in DOMAIN m : v < a
<1>1. Later(m, a) \subseteq DOMAIN m
    BY DEF Later
<1>2. /\ IsFiniteSet(Later(m, a)) /\ Cardinality(Later(m, a)) <= Cardinality(DOMAIN m)
    BY <1>1, FS_Subset DEF IsMap
<1>3. Cardinality(Later(m, a)) \in Nat
    BY <1>2, FS_CardinalityType
<1>4. Cardinality(Later(m, a)) = 0 => Later(m, a) = {}
    BY <1>2, FS_EmptySet
<1>5. Cardinality(Later(m, a)) = 0 => \A v \in DOMAIN m : v < a
    BY <1>4 DEF Later, IsMap
<1> QED
    BY <1>2, <1>3, <1>5 DEF Size

\* A chain takes as many clusters as it should when there are enough.
LEMMA ChainFull ==
    ASSUME NEW m, IsMap(m), NEW a \in Nat, NEW n \in Nat, n <= Cardinality(Later(m, a))
    PROVE  Cardinality(Chain(m, a, n)) = n
<1> DEFINE ch == Chain(m, a, n)
           T == Later(m, a) \ ch
<1>1. /\ ch \subseteq DOMAIN m /\ IsFiniteSet(ch)
      /\ \A v \in DOMAIN m : v \in ch <=> a <= v /\ Cardinality(Part(m, a, v)) < n
    BY ChainIs
<1>2. Cardinality(ch) \in Nat /\ Cardinality(ch) <= n
    BY ChainSize
<1>3. IsFiniteSet(Later(m, a)) /\ Cardinality(Later(m, a)) \in Nat
    BY LaterIs
<1> HIDE DEF ch
<1>4. ch \subseteq Later(m, a)
    BY <1>1 DEF Later, IsMap
<1>5. CASE T = {}
    <2>1. ch = Later(m, a)
        BY <1>4, <1>5
    <2> QED
        BY <1>2, <1>3, <2>1 DEF ch
<1>6. CASE T # {}
    <2>1. T \subseteq Nat
        BY DEF Later, IsMap
    <2>2. PICK u \in T : \A v \in T : u <= v
        <3> HIDE DEF T
        <3> QED
            BY <1>6, <2>1, LeastNatural
    <2>3. u \in DOMAIN m /\ u \in Nat /\ a <= u /\ u \notin ch
        BY <2>1 DEF Later
    <2>4. Part(m, a, u) \subseteq ch
        <3> SUFFICES ASSUME NEW v \in Part(m, a, u) PROVE v \in ch
            OBVIOUS
        <3>1. v \in DOMAIN m /\ v \in Nat /\ a <= v /\ v < u
            BY <2>3 DEF Part, IsMap
        <3>2. v \in Later(m, a) /\ ~(u <= v)
            BY <2>3, <3>1 DEF Later
        <3> QED
            BY <2>2, <3>2
    <2>5. Cardinality(Part(m, a, u)) <= Cardinality(ch)
        BY <1>1, <2>4, FS_Subset
    <2>6. ~(Cardinality(Part(m, a, u)) < n) /\ Cardinality(Part(m, a, u)) \in Nat
        BY <1>1, <2>3, PartIs
    <2> QED
        BY <1>2, <2>5, <2>6 DEF ch
<1> QED
    BY <1>5, <1>6

\* advance_vcn skips the chain, and no more.
LEMMA AdvanceIs ==
    ASSUME Sound, file \in Files, NEW a \in DOMAIN map[file], NEW n \in Nat \ {0},
           n <= Cardinality(Later(map[file], a))
    PROVE  LET m == map[file]
               adv == File!AdvanceVcn(a, n)
           IN /\ adv \in Nat /\ adv > a
              /\ \A u \in DOMAIN m : u >= a => (u \in Chain(m, a, n) <=> u < adv)
              /\ Cardinality(Later(m, adv)) = Cardinality(Later(m, a)) - n
              /\ Cardinality(Later(m, adv)) # 0 => adv \in DOMAIN m
<1> DEFINE m == map[file]
           ch == Chain(m, a, n)
           x == Max(ch)
           rest == {v \in DOMAIN m : v > x}
           adv == IF rest = {} THEN x + 1 ELSE Min(rest)
<1>1. File!AdvanceVcn(a, n) = adv
    BY SortingIsSame, FileIsSame DEF File!AdvanceVcn
<1>2. IsMap(m) /\ a \in Nat
    BY DEF Sound, IsMap
<1>3. /\ ch \subseteq DOMAIN m /\ ch \subseteq Nat /\ IsFiniteSet(ch) /\ a \in ch
      /\ \A v \in DOMAIN m : v \in ch <=> a <= v /\ Cardinality(Part(m, a, v)) < n
    BY <1>2, ChainIs, ChainBegins DEF IsMap
<1>4. Cardinality(ch) = n
    BY <1>2, ChainFull
<1> HIDE DEF m, ch
<1>5. x \in ch /\ \A v \in ch : v <= x
    BY <1>3, MaxIs
<1> HIDE DEF x
<1>6. x \in Nat /\ x >= a /\ x \in DOMAIN m
    BY <1>3, <1>5
<1>7. rest \subseteq Nat
    BY <1>2 DEF IsMap
<1>8. rest # {} => Min(rest) \in rest /\ \A v \in rest : Min(rest) <= v
    <2> HIDE DEF rest
    <2> QED
        BY <1>7, MinIs
<1>9. adv \in Nat /\ adv > x /\ \A v \in rest : adv <= v
    BY <1>6, <1>7, <1>8
<1>10. rest # {} => adv \in DOMAIN m
    BY <1>8
<1> HIDE DEF adv
<1>11. ASSUME NEW u \in DOMAIN m, u >= a PROVE u \in ch <=> u < adv
    <2>1. u \in Nat
        BY <1>2 DEF IsMap
    <2>2. u \in ch => u < adv
        BY <1>5, <1>6, <1>9, <2>1
    <2>3. ASSUME u < adv PROVE u \in ch
        <3>1. u <= x
            BY <1>6, <1>9, <2>1, <2>3
        <3>2. CASE u = x
            BY <1>5, <3>2
        <3>3. CASE u < x
            <4>1. Part(m, a, u) \subseteq Part(m, a, x)
                BY <1>2, <1>6, <2>1, <3>3 DEF Part
            <4>2. /\ Cardinality(Part(m, a, u)) \in Nat /\ Cardinality(Part(m, a, x)) \in Nat
                  /\ IsFiniteSet(Part(m, a, x))
                BY <1>2, <1>6, <2>1, PartIs
            <4>3. Cardinality(Part(m, a, u)) <= Cardinality(Part(m, a, x))
                BY <4>1, <4>2, FS_Subset
            <4>4. Cardinality(Part(m, a, x)) < n
                BY <1>3, <1>5, <1>6
            <4>5. Cardinality(Part(m, a, u)) < n
                BY <4>2, <4>3, <4>4
            <4> QED
                BY <1>3, <1>11, <4>5
        <3> QED
            BY <1>6, <2>1, <3>1, <3>2, <3>3
    <2> QED
        BY <2>2, <2>3
<1>12. Later(m, adv) = Later(m, a) \ ch
    <2>1. \A u \in DOMAIN m : u \in Nat /\ (u >= adv => u >= a) /\ (u >= a => (u \in ch <=> u < adv))
        BY <1>2, <1>6, <1>9, <1>11 DEF IsMap
    <2>2. \A u \in DOMAIN m : u >= adv <=> u >= a /\ u \notin ch
        BY <1>9, <2>1
    <2> QED
        BY <2>2 DEF Later
<1>13. ch \subseteq Later(m, a)
    BY <1>2, <1>3 DEF Later
<1>14. IsFiniteSet(Later(m, a)) /\ Cardinality(Later(m, a)) \in Nat
    BY <1>2, LaterIs
<1>15. Cardinality(Later(m, a) \ ch) = Cardinality(Later(m, a)) - n
    <2>1. Later(m, a) \cap ch = ch
        BY <1>13
    <2> QED
        BY <1>4, <1>14, <2>1, FS_Difference
<1>16. Cardinality(Later(m, adv)) # 0 => adv \in DOMAIN m
    <2> SUFFICES ASSUME Cardinality(Later(m, adv)) # 0 PROVE adv \in DOMAIN m
        OBVIOUS
    <2>1. Later(m, adv) # {}
        BY FS_EmptySet
    <2>2. PICK u \in DOMAIN m : u >= adv
        BY <2>1 DEF Later
    <2>3. u > x
        BY <1>2, <1>6, <1>9, <2>2 DEF IsMap
    <2> QED
        BY <1>10, <2>2, <2>3
<1>17. adv > a
    BY <1>2, <1>6, <1>9
<1> QED
    BY <1>1, <1>9, <1>11, <1>12, <1>15, <1>16, <1>17 DEF m, ch

-----------------------------------------------------------------------------
(* The optimization of a file: what each step keeps.                       *)

FirstsStay ==
    \A f \in fixed : map'[f][FirstVcn(map[f])] = map[f][FirstVcn(map[f])]
ProcessedStays ==
    file_pc \notin {"idle", "enter"} =>
        \A v \in DOMAIN map[file] : v < start_vcn => map'[file][v] = map[file][v]
ExcludedStay == \A f \in fixed \cap excluded : map'[f] = map[f]

FileKept ==
    /\ Sound' /\ FileInv' /\ cleaning' \in Cleaning /\ fs' = fs
    /\ FirstsStay /\ ProcessedStays /\ ExcludedStay

Ready == Sound /\ Frame /\ FileInv /\ phase = "file"
Here == UNCHANGED <<file, fixed, excluded>>

\* Nothing is moved.
LEMMA QuietFileKeeps ==
    ASSUME Ready, Here, UNCHANGED <<fs, map, failed, stuck>>, free' \in {free, Released},
           cleaning' \in {cleaning, Idle}, FileInv'
    PROVE  FileKept
<1>1. Sound'
    BY ReleasedIs DEF Sound, Ready
<1>2. cleaning' \in Cleaning
    BY DEF Idle, Cleaning, Ready, Frame
<1> QED
    BY <1>1, <1>2 DEF FileKept, FirstsStay, ProcessedStays, ExcludedStay

\* The types of what the routine works with.
LEMMA ReadyIs ==
    ASSUME Ready
    PROVE  /\ file \in Files /\ IsMap(map[file]) /\ DOMAIN map = Files /\ cleaning \in Cleaning
           /\ NClusters \in Nat
           /\ file_start_lcn \in Nat /\ file_start_lcn <= NClusters
           /\ file_end_lcn \in Nat /\ file_end_lcn <= NClusters
           /\ to_process \in Nat /\ to_process <= NClusters
           /\ to_cleanup \in Nat /\ to_cleanup <= NClusters
           /\ start_vcn \in Nat
           /\ target = [lcn |-> target.lcn, length |-> target.length]
           /\ target.lcn \in Nat /\ target.length \in Nat /\ target.lcn + target.length <= NClusters
           /\ region = [lcn |-> region.lcn, length |-> region.length]
           /\ region.lcn \in Nat /\ region.length \in Nat /\ region.lcn + region.length <= NClusters
<1>1. FileTypes /\ NClusters \in Nat /\ fixed \subseteq Files
    BY VolumeAssumption DEF Ready, FileInv, Frame
<1>2. file \in Files
    BY <1>1 DEF FileTypes
<1>3. \A r \in Room : /\ r = [lcn |-> r.lcn, length |-> r.length]
                      /\ r.lcn \in Nat /\ r.length \in Nat /\ r.lcn + r.length <= NClusters
    BY DEF Room
<1> QED
    BY <1>1, <1>2, <1>3 DEF Ready, Frame, Sound, FileTypes

\* The routine returns at once.
LEMMA RefuseKeeps ==
    ASSUME Ready, Here, File!Refuse
    PROVE  FileKept
<1>1. /\ file_pc = "enter" /\ file_pc' = "done" /\ result' \in {0, -1}
      /\ UNCHANGED <<fs, map, free, failed, stuck, stopped, cleaning, file_start_lcn, start_vcn>>
      /\ UNCHANGED <<to_process, file_end_lcn, to_cleanup, target, region>>
    BY DEF File!Refuse, File!moves, File!disk, File!place, File!round
<1>2. FileTypes
    BY DEF Ready, FileInv
<1>3. FileTypes'
    BY <1>1, <1>2 DEF FileTypes, Here, Room
<1>4. FileInv'
    BY <1>1, <1>3 DEF FileInv
<1> QED
    BY <1>1, <1>4, QuietFileKeeps

\* The routine returns with a part of the file left.
LEMMA LeaveKeeps ==
    ASSUME Ready, Here, UNCHANGED <<fs, map, failed, stuck, stopped>>, free' \in {free, Released},
           cleaning' \in {cleaning, Idle}, File!Leave(to_process),
           stopped \/ to_process # 0,
           UNCHANGED <<file_start_lcn, start_vcn, to_process, file_end_lcn, to_cleanup, target, region>>
    PROVE  FileKept
<1>1. /\ file_pc' = "done" /\ result' \in {1, -1} /\ (result' = 1 => stopped)
    BY DEF File!Leave
<1>2. FileTypes
    BY DEF Ready, FileInv
<1>3. FileTypes'
    BY <1>1, <1>2 DEF FileTypes, Here, Room
<1>4. FileInv'
    BY <1>1, <1>3 DEF FileInv
<1> QED
    BY <1>1, <1>4, QuietFileKeeps

\* When nothing is left, the whole file is in order.
LEMMA AllProcessed ==
    ASSUME Sound, file \in Files, start_vcn \in Nat, Processed, to_process = 0
    PROVE  InFileOrder
<1>1. IsMap(map[file])
    BY DEF Sound
<1>2. \A v \in DOMAIN map[file] : v < start_vcn
    BY <1>1, LaterIs DEF Processed
<1> QED
    BY <1>2 DEF Processed, InFileOrder

\* The outer loop is over: with nothing left, the file is in order.
LEMMA FinishKeeps ==
    ASSUME Ready, Here, File!Finish
    PROVE  FileKept
<1>1. /\ file_pc = "search" /\ File!Leave(to_process) /\ free' \in {free, Released}
      /\ UNCHANGED <<fs, map, failed, stuck, stopped, cleaning, file_start_lcn, start_vcn>>
      /\ UNCHANGED <<to_process, file_end_lcn, to_cleanup, target, region>>
    BY FileIsSame DEF File!Finish, File!place, File!round
<1>2. CASE stopped \/ to_process # 0
    BY <1>1, <1>2, LeaveKeeps
<1>3. CASE to_process = 0
    <2>1. file_pc' = "done" /\ result' \in {1, -1}
        BY <1>1 DEF File!Leave
    <2>2. FileTypes /\ Processed
        BY <1>1 DEF Ready, FileInv
    <2>3. FileTypes'
        BY <1>1, <2>1, <2>2 DEF FileTypes, Here, Room
    <2>4. InFileOrder
        BY <1>3, <2>2, AllProcessed, ReadyIs DEF Ready
    <2>5. InFileOrder'
        BY <1>1, <2>4 DEF InFileOrder, Here
    <2>6. FileInv'
        BY <2>1, <2>3, <2>5 DEF FileInv
    <2> QED
        BY <1>1, <2>6, QuietFileKeeps
<1> QED
    BY <1>2, <1>3

\* The routine gives up.
LEMMA LeavesKeep ==
    ASSUME Ready, Here, File!StopCleaning \/ File!NoSpaceLeft \/ File!NoPlace
    PROVE  FileKept
<1>1. /\ file_pc \in {"clean", "cleanup", "move"} /\ File!Leave(to_process)
      /\ UNCHANGED <<fs, map, free, failed, stuck, stopped, file_start_lcn, start_vcn>>
      /\ UNCHANGED <<to_process, file_end_lcn, to_cleanup, target, region>>
      /\ cleaning' \in {cleaning, Idle}
    BY FileIsSame
       DEF File!StopCleaning, File!NoSpaceLeft, File!NoPlace, File!moves, File!disk, File!place, File!round
<1>2. to_process # 0
    BY <1>1 DEF Ready, FileInv
<1> QED
    BY <1>1, <1>2, LeaveKeeps

\* The space before the target is clean.
LEMMA NothingToCleanKeeps ==
    ASSUME Ready, Here, File!NothingToClean
    PROVE  FileKept
<1>1. /\ file_pc = "clean" /\ file_pc' = "move"
      /\ UNCHANGED <<fs, map, free, failed, stuck, stopped, cleaning, file_start_lcn, start_vcn>>
      /\ UNCHANGED <<to_process, file_end_lcn, to_cleanup, target, region, result>>
    BY DEF File!NothingToClean, File!moves, File!disk, File!place, File!round
<1>2. FileTypes /\ Processed /\ Prepared /\ to_process # 0
      /\ (target.length = 0 => target = [lcn |-> 0, length |-> 0])
    BY <1>1 DEF Ready, FileInv
<1>3. FileTypes'
    BY <1>1, <1>2 DEF FileTypes, Here, Room
<1>4. Processed'
    BY <1>1, <1>2 DEF Processed, Here, Base, CleanedUp
<1>5. Prepared'
    BY <1>1, <1>2 DEF Prepared, Vacant, CleanedUp
<1>6. FileInv'
    BY <1>1, <1>2, <1>3, <1>4, <1>5 DEF FileInv
<1> QED
    BY <1>1, <1>6, QuietFileKeeps

\* A file which turns out to be locked is passed over from now on.
LEMMA FileMeetLockedKeeps ==
    ASSUME Ready, Here, File!MeetLocked
    PROVE  FileKept
<1>1. /\ file_pc = "clean" /\ file_pc' = "clean"
      /\ UNCHANGED <<fs, map, free, failed, stopped, cleaning, file_start_lcn, start_vcn>>
      /\ UNCHANGED <<to_process, file_end_lcn, to_cleanup, target, region, result>>
    BY DEF File!MeetLocked, File!FindLocked, File!disk, File!place, File!round
<1>2. PICK b \in File!FirstBlock(File!Movable, file_start_lcn) : stuck' = stuck \cup {b.file}
    BY DEF File!MeetLocked, File!FindLocked
<1>3. b \in File!Movable
    BY <1>2, FileIsSame DEF FirstBlock
<1>4. PICK g \in Files : b \in BlocksOf(g)
    BY <1>3, FileIsSame DEF File!Movable
<1>5. b.file \in Files
    BY <1>4, BlockIs DEF Ready
<1>6. Sound'
    BY <1>1, <1>2, <1>5 DEF Sound, Ready
<1>7. /\ FileTypes /\ Processed /\ Prepared /\ to_process # 0
      /\ ~CleanedUp => to_cleanup = to_process /\ (target.length > 0 => file_end_lcn = target.lcn)
      /\ (target.length = 0 => target = [lcn |-> 0, length |-> 0])
    BY <1>1 DEF Ready, FileInv
<1>8. FileTypes'
    BY <1>1, <1>7 DEF FileTypes, Here, Room
<1>9. Processed'
    BY <1>1, <1>7 DEF Processed, Here, Base, CleanedUp
<1>10. Prepared'
    BY <1>1, <1>7 DEF Prepared, Vacant, CleanedUp
<1>11. CleanedUp' <=> CleanedUp
    BY <1>1 DEF CleanedUp
<1>12. FileInv'
    BY <1>1, <1>7, <1>8, <1>9, <1>10, <1>11 DEF FileInv
<1>13. cleaning' \in Cleaning
    BY <1>1 DEF Ready, Frame
<1> QED
    BY <1>1, <1>6, <1>12, <1>13 DEF FileKept, FirstsStay, ProcessedStays, ExcludedStay

\* The first block of the file.
LEMMA FirstBlockIs ==
    ASSUME Sound, file \in Files
    PROVE  LET b == File!FirstBlockOf(file)
           IN b \in BlocksOf(file) /\ b.vcn = FirstVcn(map[file]) /\ b.lcn = map[file][FirstVcn(map[file])]
<1> DEFINE b == File!FirstBlockOf(file)
<1>1. b = CHOOSE c \in BlocksOf(file) : c.vcn = FirstVcn(map[file])
    BY FileIsSame DEF File!FirstBlockOf, File!Block
<1>2. \E c \in BlocksOf(file) : c.vcn = FirstVcn(map[file])
    BY FirstBegins
<1> HIDE DEF b
<1>3. b \in BlocksOf(file) /\ b.vcn = FirstVcn(map[file])
    BY <1>1, <1>2
<1>4. b.lcn = map[file][b.vcn]
    BY <1>3, BlockIs
<1> QED
    BY <1>3, <1>4 DEF b

\* The clusters of a block follow each other in the file and on the disk.
LEMMA BlockRun ==
    ASSUME Sound, NEW f \in Files, NEW b \in BlocksOf(f)
    PROVE  /\ Chain(map[f], b.vcn, b.length) = b.vcn .. b.vcn + b.length - 1
           /\ b.length <= Cardinality(Later(map[f], b.vcn))
           /\ \A v \in b.vcn .. b.vcn + b.length - 1 :
                v \in DOMAIN map[f] /\ map[f][v] = b.lcn + (v - b.vcn)
<1>1. IsMap(map[f])
    BY DEF Sound
<1>2. /\ b.vcn \in Nat /\ b.length \in Nat \ {0} /\ b.lcn \in Nat
      /\ \A i \in 0 .. b.length - 1 : b.vcn + i \in DOMAIN map[f] /\ map[f][b.vcn + i] = b.lcn + i
    BY BlockIs
<1>3. Chain(map[f], b.vcn, b.length) = b.vcn .. b.vcn + b.length - 1
    BY <1>1, <1>2, ChainOfRun
<1>4. ASSUME NEW v \in b.vcn .. b.vcn + b.length - 1
      PROVE  v \in DOMAIN map[f] /\ map[f][v] = b.lcn + (v - b.vcn)
    <2>1. v - b.vcn \in 0 .. b.length - 1 /\ b.vcn + (v - b.vcn) = v
        BY <1>2
    <2> QED
        BY <1>2, <2>1
<1>5. b.vcn .. b.vcn + b.length - 1 \subseteq Later(map[f], b.vcn)
    BY <1>2, <1>4 DEF Later
<1>6. IsFiniteSet(Later(map[f], b.vcn))
    BY <1>1, <1>2, LaterIs
<1>7. Cardinality(b.vcn .. b.vcn + b.length - 1) = b.length
    <2> DEFINE last == b.vcn + b.length - 1
    <2>1. b.vcn \in Int /\ last \in Int /\ ~(b.vcn > last) /\ last - b.vcn + 1 = b.length
        BY <1>2
    <2> HIDE DEF last
    <2>2. Cardinality(b.vcn .. last) = IF b.vcn > last THEN 0 ELSE last - b.vcn + 1
        BY <2>1, FS_Interval
    <2>3. Cardinality(b.vcn .. last) = b.length
        BY <2>1, <2>2
    <2> QED
        BY <2>3 DEF last
<1>8. b.length <= Cardinality(Later(map[f], b.vcn))
    BY <1>5, <1>6, <1>7, FS_Subset
<1> QED
    BY <1>3, <1>4, <1>8

\* The first block stays, so it has been processed.
LEMMA EnterKeeps ==
    ASSUME Ready, Here, File!Enter
    PROVE  FileKept
<1> DEFINE m == map[file]
           b == File!FirstBlockOf(file)
           adv == File!AdvanceVcn(b.vcn, b.length)
<1>1. /\ file_pc = "enter" /\ file_pc' = "search"
      /\ to_process' = Size(m) - b.length /\ file_start_lcn' = b.lcn + b.length
      /\ start_vcn' = adv
      /\ UNCHANGED <<fs, map, free, failed, stuck, stopped, cleaning>>
      /\ UNCHANGED <<file_end_lcn, to_cleanup, target, region, result>>
    BY FileIsSame DEF File!Enter, File!moves, File!disk, File!round
<1>2. Sound /\ file \in Files /\ IsMap(m) /\ FileTypes /\ NClusters \in Nat
    BY ReadyIs DEF Ready, FileInv
<1>3. b \in BlocksOf(file) /\ b.vcn = FirstVcn(m)
    BY <1>2, FirstBlockIs
<1> HIDE DEF b
<1>4. /\ b.vcn \in DOMAIN m /\ b.vcn \in Nat /\ b.length \in Nat \ {0} /\ b.lcn \in Nat
      /\ b.lcn + b.length <= NClusters
    BY <1>2, <1>3, BlockIs
<1>5. /\ Chain(m, b.vcn, b.length) = b.vcn .. b.vcn + b.length - 1
      /\ b.length <= Cardinality(Later(m, b.vcn))
      /\ \A v \in b.vcn .. b.vcn + b.length - 1 : v \in DOMAIN m /\ m[v] = b.lcn + (v - b.vcn)
    BY <1>2, <1>3, BlockRun
<1>6. /\ adv \in Nat /\ adv > b.vcn
      /\ \A u \in DOMAIN m : u >= b.vcn => (u \in Chain(m, b.vcn, b.length) <=> u < adv)
      /\ Cardinality(Later(m, adv)) = Cardinality(Later(m, b.vcn)) - b.length
      /\ Cardinality(Later(m, adv)) # 0 => adv \in DOMAIN m
    BY <1>2, <1>4, <1>5, AdvanceIs
<1> HIDE DEF adv
<1>7. \A v \in DOMAIN m : v \in Nat /\ v >= b.vcn
    BY <1>2, <1>3, FirstIs DEF IsMap
<1>8. Later(m, b.vcn) = DOMAIN m
    BY <1>7 DEF Later
<1>9. /\ Cardinality(Later(m, b.vcn)) = Size(m) /\ Size(m) \in Nat /\ Size(m) <= NClusters
    BY <1>2, <1>8, SizeIs DEF Size
<1>10. to_process' = Cardinality(Later(m, adv)) /\ to_process' \in 0 .. NClusters
    BY <1>1, <1>2, <1>4, <1>5, <1>6, <1>9
<1>11. \A v \in DOMAIN m : v < adv => v \in b.vcn .. b.vcn + b.length - 1
    BY <1>5, <1>6, <1>7
<1>12. \A v \in DOMAIN m : v < adv => m[v] = b.lcn + (v - b.vcn) /\ v \in Nat /\ v - b.vcn < b.length
    BY <1>4, <1>5, <1>11
<1>13. file_start_lcn' \in 0 .. NClusters
    BY <1>1, <1>2, <1>4
<1>14. FileTypes'
    <2>1. to_process' # 0 => start_vcn' \in DOMAIN map'[file']
        BY <1>1, <1>6, <1>10 DEF Here
    <2> QED
        BY <1>1, <1>2, <1>6, <1>10, <1>13, <2>1 DEF FileTypes, Here, Room
<1>15. Processed'
    <2>1. map'[file'] = m /\ start_vcn' = adv /\ Base' = b.lcn + b.length
        BY <1>1 DEF Base, Here
    <2>2. FirstVcn(m) < adv
        BY <1>3, <1>6
    <2>3. \A v, w \in DOMAIN m : v < w /\ w < adv => m[v] < m[w]
        BY <1>4, <1>6, <1>7, <1>12
    <2>4. \A v \in DOMAIN m : v < adv => m[v] < b.lcn + b.length
        BY <1>4, <1>12
    <2> HIDE DEF m
    <2> QED
        BY <1>10, <2>1, <2>2, <2>3, <2>4 DEF Processed
<1>16. FileInv'
    BY <1>1, <1>14, <1>15 DEF FileInv
<1> QED
    BY <1>1, <1>16, QuietFileKeeps

-----------------------------------------------------------------------------
(* The search for a target.                                                *)

\* RegionIs of the next state is needed.
LEMMA RegionsAre ==
    free \subseteq Clusters =>
        \A r \in Regions :
            /\ r = [lcn |-> r.lcn, length |-> r.length]
            /\ r.lcn \in Nat /\ r.length \in Nat \ {0} /\ r.lcn + r.length <= NClusters
            /\ r.lcn .. r.lcn + r.length - 1 \subseteq free
<1> SUFFICES ASSUME free \subseteq Clusters, NEW r \in Regions
             PROVE  /\ r = [lcn |-> r.lcn, length |-> r.length]
                    /\ r.lcn \in Nat /\ r.length \in Nat \ {0} /\ r.lcn + r.length <= NClusters
                    /\ r.lcn .. r.lcn + r.length - 1 \subseteq free
    OBVIOUS
<1> QED
    BY RegionIs

\* The first free region behind what has been processed is vacant.
LEMMA SearchTargetKeeps ==
    ASSUME Ready, Here, File!SearchTarget
    PROVE  FileKept
<1> DEFINE beyond == {r \in File!Regions' : r.lcn >= file_start_lcn}
           none == [lcn |-> 0, length |-> 0]
<1>1. /\ file_pc = "search" /\ file_pc' = "clean" /\ to_process > 0
      /\ free' = Released /\ to_cleanup' = to_process /\ region' = none
      /\ target' = IF beyond = {} THEN none
                   ELSE CHOOSE r \in beyond : \A q \in beyond : r.lcn <= q.lcn
      /\ file_end_lcn' = IF target' = none THEN NClusters ELSE target'.lcn
      /\ UNCHANGED <<fs, map, failed, stuck, stopped, cleaning, file_start_lcn, start_vcn>>
      /\ UNCHANGED <<to_process, result>>
    BY FileIsSame DEF File!SearchTarget, File!place, File!Behind, File!NoTarget
<1>2. Sound /\ FileTypes /\ Processed /\ NClusters \in Nat /\ to_process \in Nat /\ file_start_lcn \in Nat
    BY <1>1, ReadyIs DEF Ready, FileInv
<1>3. free' \subseteq Clusters /\ \A f \in Files : \A v \in DOMAIN map[f] : map[f][v] \notin free'
    BY <1>1, <1>2, ReleasedIs
<1>4. \A r \in File!Regions' :
            /\ r = [lcn |-> r.lcn, length |-> r.length]
            /\ r.lcn \in Nat /\ r.length \in Nat \ {0} /\ r.lcn + r.length <= NClusters
            /\ r.lcn .. r.lcn + r.length - 1 \subseteq free'
    <2>1. File!Regions = Regions
        BY FileIsSame
    <2>2. (File!Regions = Regions)'
        BY FileIsSame, PTL
    <2>3. (free \subseteq Clusters =>
            \A r \in Regions :
                /\ r = [lcn |-> r.lcn, length |-> r.length]
                /\ r.lcn \in Nat /\ r.length \in Nat \ {0} /\ r.lcn + r.length <= NClusters
                /\ r.lcn .. r.lcn + r.length - 1 \subseteq free)'
        BY RegionsAre, PTL
    <2> QED
        BY <1>3, <2>2, <2>3
<1> HIDE DEF beyond
<1>5. target' = none \/ (target' \in beyond /\ target'.length # 0)
    <2>1. CASE beyond = {}
        BY <1>1, <2>1
    <2>2. CASE beyond # {}
        <3> DEFINE T == {r.lcn : r \in beyond}
        <3>1. T \subseteq Nat /\ T # {}
            BY <1>4, <2>2 DEF beyond
        <3>2. PICK n \in T : \A k \in T : n <= k
            <4> HIDE DEF T
            <4> QED
                BY <3>1, LeastNatural
        <3>3. \E r \in beyond : \A q \in beyond : r.lcn <= q.lcn
            BY <3>2
        <3>4. target' \in beyond
            BY <1>1, <2>2, <3>3
        <3> QED
            BY <1>4, <3>4 DEF beyond
    <2> QED
        BY <2>1, <2>2
<1>6. /\ target' \in Room /\ (target'.length = 0 => target' = none)
      /\ target'.length > 0 =>
            /\ target'.lcn >= file_start_lcn
            /\ \A f \in Files : \A v \in DOMAIN map[f] :
                    map[f][v] \notin target'.lcn .. target'.lcn + target'.length - 1
            /\ target' # none
      /\ target'.lcn \in Nat /\ target'.lcn <= NClusters
    <2>1. CASE target' = none
        BY <1>2, <2>1 DEF Room
    <2>2. CASE target' \in beyond /\ target'.length # 0
        <3>1. /\ target' = [lcn |-> target'.lcn, length |-> target'.length]
              /\ target'.lcn \in Nat /\ target'.length \in Nat \ {0}
              /\ target'.lcn + target'.length <= NClusters
              /\ target'.lcn .. target'.lcn + target'.length - 1 \subseteq free'
              /\ target'.lcn >= file_start_lcn
            BY <1>4, <2>2 DEF beyond
        <3>2. target' \in Room /\ target' # none /\ target'.lcn <= NClusters
            BY <1>2, <3>1 DEF Room
        <3>3. \A f \in Files : \A v \in DOMAIN map[f] :
                    map[f][v] \notin target'.lcn .. target'.lcn + target'.length - 1
            BY <1>3, <3>1
        <3> QED
            BY <3>1, <3>2, <3>3
    <2> QED
        BY <1>5, <2>1, <2>2
<1>7. region' \in Room /\ region'.length = 0
    BY <1>1, <1>2 DEF Room
<1>8. FileTypes'
    BY <1>1, <1>2, <1>6, <1>7 DEF FileTypes, Here, Room
<1>9. Processed'
    BY <1>1, <1>2, <1>7 DEF Processed, Here, Base, CleanedUp
<1>10. Prepared'
    BY <1>1, <1>6, <1>7 DEF Prepared, Vacant, CleanedUp
<1>11. FileInv'
    BY <1>1, <1>2, <1>6, <1>8, <1>9, <1>10 DEF FileInv
<1> QED
    BY <1>1, <1>11, QuietFileKeeps

-----------------------------------------------------------------------------
(* Blocks in the way of the file.                                          *)

\* The targets never overlap a file.
LEMMA VacantBelow ==
    ASSUME NEW lcn \in Nat, NEW n \in Nat, Vacant(lcn, n), NEW k \in Nat, k <= n
    PROVE  Vacant(lcn, k)
<1>1. lcn .. lcn + k - 1 \subseteq lcn .. lcn + n - 1
    OBVIOUS
<1> QED
    BY <1>1 DEF Vacant

\* A block which is in the way.
LEMMA ToCleanIs ==
    ASSUME Sound, NEW b \in File!ToClean
    PROVE  /\ b.file \in Files /\ CanMove(b.file) /\ b \in BlocksOf(b.file)
           /\ ~(fs = "FAT" /\ b.file \in fixed /\ b.vcn = FirstVcn(map[b.file]))
           /\ b.lcn >= file_start_lcn /\ b.lcn < file_end_lcn /\ to_cleanup > 0
           /\ CleanedUp => b.lcn = region.lcn + region.length /\ b.file # file
<1>1. /\ b \in FirstBlock(File!Movable, file_start_lcn) /\ to_cleanup > 0 /\ b.lcn < file_end_lcn
      /\ CleanedUp => b.lcn = region.lcn + region.length /\ b.file # file
    BY FileIsSame DEF File!ToClean, File!CleanedUp, CleanedUp
<1>2. b \in File!Movable /\ b.lcn >= file_start_lcn
    BY <1>1 DEF FirstBlock
<1>3. /\ \E f \in Files : CanMove(f) /\ b \in BlocksOf(f)
      /\ ~(fs = "FAT" /\ b.file \in fixed /\ b.vcn = FirstVcn(map[b.file]))
    BY <1>2, FileIsSame DEF File!Movable
<1>4. PICK f \in Files : CanMove(f) /\ b \in BlocksOf(f)
    BY <1>3
<1>5. b = [file |-> f, vcn |-> b.vcn, lcn |-> b.lcn, length |-> b.length]
    BY <1>4, BlockIs
<1>6. b.file = f
    BY <1>5
<1> QED
    BY <1>1, <1>2, <1>3, <1>4, <1>6

\* The rest of the file follows, which is at its place already.
LEMMA KeepPartKeeps ==
    ASSUME Ready, Here, File!KeepPart
    PROVE  FileKept
<1> DEFINE m == map[file]
<1>1. /\ file_pc = "clean"
      /\ UNCHANGED <<fs, map, free, failed, stuck, stopped, cleaning, file_end_lcn, target, region>>
    BY DEF File!KeepPart, File!moves, File!disk
<1>2. PICK b \in File!ToClean :
        /\ b.file = file /\ b.vcn = start_vcn
        /\ \/ /\ to_process <= b.length \/ b.vcn + b.length = EndVcn(m)
              /\ to_process' = 0 /\ File!Leave(0)
              /\ UNCHANGED <<file_start_lcn, start_vcn, to_cleanup>>
           \/ /\ ~(to_process <= b.length) /\ to_process' = to_process - b.length
              /\ to_cleanup' = to_cleanup - b.length
              /\ start_vcn' = File!AdvanceVcn(b.vcn, b.length)
              /\ file_start_lcn' = b.lcn + b.length
              /\ UNCHANGED <<file_pc, result>>
    BY FileIsSame DEF File!KeepPart, File!AtItsPlace, File!place
<1>3. Sound /\ FileTypes /\ Processed /\ Prepared /\ to_process # 0
    BY <1>1 DEF Ready, FileInv
<1>4. /\ b \in BlocksOf(file) /\ b.lcn >= file_start_lcn /\ b.lcn < file_end_lcn /\ ~CleanedUp
    BY <1>2, <1>3, ToCleanIs
<1>5. /\ to_cleanup = to_process
      /\ (target.length > 0 => file_end_lcn = target.lcn)
      /\ (target.length = 0 => target = [lcn |-> 0, length |-> 0])
    BY <1>1, <1>4 DEF Ready, FileInv
<1>6. /\ file \in Files /\ IsMap(m) /\ NClusters \in Nat
      /\ file_start_lcn \in Nat /\ to_process \in Nat /\ to_process <= NClusters
      /\ target.lcn \in Nat /\ target.length \in Nat
    BY ReadyIs
<1>7. /\ b.vcn \in DOMAIN m /\ b.vcn \in Nat /\ b.length \in Nat \ {0} /\ b.lcn \in Nat
      /\ b.lcn + b.length <= NClusters
    BY <1>3, <1>4, <1>6, BlockIs
<1>8. /\ Chain(m, b.vcn, b.length) = b.vcn .. b.vcn + b.length - 1
      /\ b.length <= Cardinality(Later(m, b.vcn))
      /\ \A v \in b.vcn .. b.vcn + b.length - 1 : v \in DOMAIN m /\ m[v] = b.lcn + (v - b.vcn)
    BY <1>3, <1>4, <1>6, BlockRun
<1>9. /\ FirstVcn(m) < start_vcn
      /\ \A v, w \in DOMAIN m : v < w /\ w < start_vcn => m[v] < m[w]
      /\ \A v \in DOMAIN m : v < start_vcn => m[v] < file_start_lcn
      /\ to_process = Cardinality(Later(m, start_vcn))
    BY <1>3, <1>4 DEF Processed, Base
<1>10. \A v \in DOMAIN m : v \in Nat /\ m[v] \in Nat
    BY <1>6 DEF IsMap, Clusters
<1> HIDE DEF m
<1>11. CASE /\ to_process <= b.length \/ b.vcn + b.length = EndVcn(m)
            /\ to_process' = 0 /\ File!Leave(0)
            /\ UNCHANGED <<file_start_lcn, start_vcn, to_cleanup>>
    <2>1. file_pc' = "done" /\ result' \in {1, -1}
        BY <1>11 DEF File!Leave
    <2>2. FileTypes'
        BY <1>1, <1>3, <1>6, <1>11, <2>1 DEF FileTypes, Here, Room
    <2> DEFINE run == b.vcn .. b.vcn + b.length - 1
    <2>3. \A v \in DOMAIN m : v >= start_vcn => v \in run
        <3>1. CASE b.vcn + b.length = EndVcn(m)
            BY <1>2, <1>6, <1>7, <1>10, <3>1, EndIs
        <3>2. CASE to_process <= b.length
            <4>1. IsFiniteSet(Later(m, b.vcn)) /\ Cardinality(Later(m, b.vcn)) \in Nat
                BY <1>6, <1>7, LaterIs
            <4>2. run \subseteq Later(m, b.vcn)
                BY <1>7, <1>8 DEF Later
            <4>3. Cardinality(run) = b.length
                <5> DEFINE last == b.vcn + b.length - 1
                <5>1. b.vcn \in Int /\ last \in Int /\ ~(b.vcn > last) /\ last - b.vcn + 1 = b.length
                    BY <1>7
                <5> HIDE DEF last
                <5>2. Cardinality(b.vcn .. last) = IF b.vcn > last THEN 0 ELSE last - b.vcn + 1
                    BY <5>1, FS_Interval
                <5>3. Cardinality(b.vcn .. last) = b.length
                    BY <5>1, <5>2
                <5> QED
                    BY <5>3 DEF last
            <4>4. Cardinality(Later(m, b.vcn)) = b.length
                BY <1>2, <1>7, <1>8, <1>9, <3>2, <4>1
            <4> HIDE DEF run
            <4>5. Later(m, b.vcn) = run
                BY <4>1, <4>2, <4>3, <4>4, FS_Subset
            <4> QED
                BY <1>2, <4>5 DEF Later
        <3> QED
            BY <1>11, <3>1, <3>2
    <2>4. \A v \in DOMAIN m : v >= start_vcn => m[v] = b.lcn + (v - b.vcn) /\ m[v] >= b.lcn
        BY <1>7, <1>8, <2>3
    <2>5. ASSUME NEW v \in DOMAIN m, NEW w \in DOMAIN m, v < w PROVE m[v] < m[w]
        <3>1. v \in Nat /\ w \in Nat /\ m[v] \in Nat /\ m[w] \in Nat /\ start_vcn \in Nat
            BY <1>2, <1>7, <1>10
        <3>2. CASE w < start_vcn
            BY <1>9, <2>5, <3>2
        <3>3. CASE v < start_vcn /\ w >= start_vcn
            <4>1. m[v] < file_start_lcn /\ m[w] >= b.lcn
                BY <1>9, <2>4, <3>3
            <4> QED
                BY <1>4, <1>6, <1>7, <3>1, <4>1
        <3>4. CASE v >= start_vcn
            <4>1. m[v] = b.lcn + (v - b.vcn) /\ m[w] = b.lcn + (w - b.vcn)
                BY <2>4, <2>5, <3>1, <3>4
            <4> QED
                BY <1>7, <2>5, <3>1, <4>1
        <3> QED
            BY <3>1, <3>2, <3>3, <3>4
    <2>6. InFileOrder'
        BY <1>1, <2>5 DEF InFileOrder, Here, m
    <2>7. FileInv'
        BY <2>1, <2>2, <2>6 DEF FileInv
    <2> QED
        BY <1>1, <2>7, QuietFileKeeps
<1>12. CASE /\ ~(to_process <= b.length) /\ to_process' = to_process - b.length
            /\ to_cleanup' = to_cleanup - b.length
            /\ start_vcn' = File!AdvanceVcn(b.vcn, b.length)
            /\ file_start_lcn' = b.lcn + b.length
            /\ UNCHANGED <<file_pc, result>>
    <2> DEFINE adv == File!AdvanceVcn(b.vcn, b.length)
    <2>1. /\ adv \in Nat /\ adv > b.vcn
          /\ \A u \in DOMAIN m : u >= b.vcn => (u \in Chain(m, b.vcn, b.length) <=> u < adv)
          /\ Cardinality(Later(m, adv)) = Cardinality(Later(m, b.vcn)) - b.length
          /\ Cardinality(Later(m, adv)) # 0 => adv \in DOMAIN m
        BY <1>3, <1>6, <1>7, <1>8, AdvanceIs DEF m
    <2> HIDE DEF adv
    <2>2. to_process' = Cardinality(Later(m, adv)) /\ to_process' \in 0 .. NClusters /\ to_process' # 0
        BY <1>2, <1>6, <1>7, <1>9, <1>12, <2>1
    <2>3. start_vcn' = adv /\ start_vcn' \in DOMAIN m /\ map'[file'] = m
        BY <1>1, <1>12, <2>1, <2>2 DEF adv, m, Here
    <2>4. file_start_lcn' \in 0 .. NClusters /\ to_cleanup' = to_process'
        BY <1>5, <1>6, <1>7, <1>12
    <2>5. FileTypes'
        BY <1>1, <1>3, <1>12, <2>1, <2>2, <2>3, <2>4 DEF FileTypes, Here, Room
    <2>6. \A v \in DOMAIN m : v < adv =>
            \/ v < start_vcn
            \/ v \in b.vcn .. b.vcn + b.length - 1 /\ m[v] = b.lcn + (v - b.vcn)
        BY <1>2, <1>7, <1>8, <1>10, <2>1
    <2>7. ASSUME NEW v \in DOMAIN m, NEW w \in DOMAIN m, v < w, w < adv PROVE m[v] < m[w]
        <3>1. v \in Nat /\ w \in Nat /\ m[v] \in Nat /\ m[w] \in Nat /\ start_vcn \in Nat /\ v < adv
            BY <1>2, <1>7, <1>10, <2>1, <2>7
        <3>2. CASE w < start_vcn
            BY <1>9, <2>7, <3>2
        <3>3. CASE v < start_vcn /\ ~(w < start_vcn)
            <4>1. m[v] < file_start_lcn /\ m[w] = b.lcn + (w - b.vcn) /\ w \in b.vcn .. b.vcn + b.length - 1
                BY <1>9, <2>6, <2>7, <3>3
            <4> QED
                BY <1>4, <1>6, <1>7, <3>1, <4>1
        <3>4. CASE ~(v < start_vcn)
            <4>1. m[v] = b.lcn + (v - b.vcn) /\ m[w] = b.lcn + (w - b.vcn)
                BY <2>6, <2>7, <3>1, <3>4
            <4> QED
                BY <1>7, <2>7, <3>1, <4>1
        <3> QED
            BY <3>2, <3>3, <3>4
    <2>8. ASSUME NEW v \in DOMAIN m, v < adv PROVE m[v] < b.lcn + b.length
        <3>1. m[v] \in Nat /\ v \in Nat
            BY <1>10
        <3>2. CASE v < start_vcn
            BY <1>4, <1>6, <1>7, <1>9, <3>1, <3>2
        <3>3. CASE v \in b.vcn .. b.vcn + b.length - 1 /\ m[v] = b.lcn + (v - b.vcn)
            BY <1>7, <3>1, <3>3
        <3> QED
            BY <2>6, <2>8, <3>2, <3>3
    <2>9. Processed'
        <3>1. Base' = b.lcn + b.length
            BY <1>1, <1>4, <1>12 DEF Base, CleanedUp
        <3>2. FirstVcn(m) < adv
            BY <1>2, <1>6, <1>7, <1>9, <2>1, FirstIs DEF IsMap
        <3> QED
            BY <2>2, <2>3, <2>7, <2>8, <3>1, <3>2 DEF Processed
    <2>10. target.length > 0 => target.lcn >= b.lcn + b.length
        <3> SUFFICES ASSUME target.length > 0, ~(target.lcn >= b.lcn + b.length) PROVE FALSE
            BY <1>6, <1>7
        <3>1. Vacant(target.lcn, target.length) /\ target.lcn > b.lcn
            BY <1>3, <1>4, <1>5, <1>6, <1>7 DEF Prepared
        <3> DEFINE v == b.vcn + (target.lcn - b.lcn)
        <3>2. v \in b.vcn .. b.vcn + b.length - 1 /\ v - b.vcn = target.lcn - b.lcn
            BY <1>6, <1>7, <3>1
        <3>3. v \in DOMAIN m /\ m[v] = b.lcn + (v - b.vcn)
            BY <1>8, <3>2
        <3>4. m[v] = target.lcn
            BY <1>6, <1>7, <3>2, <3>3
        <3>5. target.lcn \in target.lcn .. target.lcn + target.length - 1
            BY <1>6
        <3> QED
            BY <1>6, <3>1, <3>3, <3>4, <3>5 DEF Vacant, m
    <2>11. Prepared'
        BY <1>1, <1>3, <1>4, <1>12, <2>10 DEF Prepared, CleanedUp, Vacant
    <2>12. FileInv'
        BY <1>1, <1>5, <1>12, <2>2, <2>4, <2>5, <2>9, <2>11 DEF FileInv
    <2> QED
        BY <1>1, <2>12, QuietFileKeeps
<1> QED
    BY <1>2, <1>11, <1>12

\* The processed part of the file lies before the block, and so it is spared.
LEMMA CleanFileBlockKeeps ==
    ASSUME Ready, Here, File!CleanBlock
    PROVE  FileKept
<1>1. /\ file_pc = "clean" /\ file_pc' = "cleanup"
      /\ UNCHANGED <<fs, map, free, failed, stuck, stopped, file_start_lcn, start_vcn>>
      /\ UNCHANGED <<to_process, file_end_lcn, to_cleanup, target, region, result>>
    BY DEF File!CleanBlock, File!moves, File!disk, File!place, File!round
<1>2. PICK b \in File!ToClean :
            ~(b.file = file /\ b.vcn = start_vcn) /\ Begin(b, Min({to_cleanup, b.length}))
    BY FileIsSame DEF File!CleanBlock, File!AtItsPlace
<1>3. Sound /\ FileTypes /\ Processed /\ Prepared /\ to_process # 0
    BY <1>1 DEF Ready, FileInv
<1>4. /\ b.file \in Files /\ CanMove(b.file) /\ b \in BlocksOf(b.file)
      /\ ~(fs = "FAT" /\ b.file \in fixed /\ b.vcn = FirstVcn(map[b.file]))
      /\ b.lcn >= file_start_lcn /\ b.lcn < file_end_lcn /\ to_cleanup > 0
      /\ CleanedUp => b.lcn = region.lcn + region.length /\ b.file # file
    BY <1>2, <1>3, ToCleanIs
<1>5. /\ b.vcn \in DOMAIN map[b.file] /\ b.vcn \in Nat /\ b.length \in Nat \ {0} /\ b.lcn \in Nat
      /\ b.lcn + b.length <= NClusters /\ b.lcn = map[b.file][b.vcn]
      /\ \A i \in 0 .. b.length - 1 :
            b.vcn + i \in DOMAIN map[b.file] /\ map[b.file][b.vcn + i] = b.lcn + i
    BY <1>3, <1>4, BlockIs
<1>6. /\ file \in Files /\ NClusters \in Nat /\ file_start_lcn \in Nat /\ to_cleanup \in Nat
      /\ start_vcn \in Nat
    BY ReadyIs
<1> DEFINE n == Min({to_cleanup, b.length})
<1>7. n \in Nat /\ n # 0 /\ n <= to_cleanup /\ n <= b.length
    <2>1. to_cleanup \in Nat /\ b.length \in Nat /\ to_cleanup # 0 /\ b.length # 0
        BY <1>4, <1>5, <1>6
    <2>2. /\ n \in Nat /\ n <= to_cleanup /\ n <= b.length
          /\ n \in {to_cleanup, b.length}
        BY <2>1, MinOfTwo
    <2> HIDE DEF n
    <2> QED
        BY <2>1, <2>2
<1>8. /\ cleaning'.file = b.file /\ cleaning'.vcn = b.vcn /\ cleaning'.left = n
      /\ cleaning'.lcn = b.lcn /\ cleaning'.last = b.lcn + b.length - 1
    BY <1>2 DEF Begin
<1>9. cleaning' = [file |-> b.file, vcn |-> b.vcn, left |-> n, lcn |-> b.lcn,
                   last |-> b.lcn + b.length - 1]
    BY <1>2 DEF Begin
<1>10. Asked' = n /\ cleaning'.last - cleaning'.lcn + 1 = b.length
    <2>1. cleaning'.last - cleaning'.lcn + 1 = b.length
        BY <1>5, <1>8
    <2>2. Asked' = Min({to_cleanup', cleaning'.last - cleaning'.lcn + 1})
        BY DEF Asked
    <2> QED
        BY <1>1, <2>1, <2>2
<1> HIDE DEF n
<1>11. cleaning' \in Cleaning
    BY <1>4, <1>5, <1>7, <1>9 DEF Cleaning
<1>12. Gone' = 0
    BY <1>7, <1>8, <1>10 DEF Gone
<1>13. b.file # file \/ b.vcn >= start_vcn
    <2> SUFFICES ASSUME b.file = file, b.vcn < start_vcn PROVE FALSE
        BY <1>5, <1>6
    <2>1. map[file][b.vcn] < Base /\ Base = file_start_lcn
        BY <1>3, <1>4, <1>5 DEF Processed, Base
    <2> QED
        BY <1>4, <1>5, <1>6, <2>1
<1>14. fs = "FAT" /\ b.file \in fixed => b.vcn > FirstVcn(map[b.file])
    <2>1. FirstVcn(map[b.file]) \in Nat /\ FirstVcn(map[b.file]) <= b.vcn
        BY <1>3, <1>4, <1>5, FirstIs DEF Sound, IsMap
    <2> QED
        BY <1>4, <1>5, <2>1
<1>15. b.file \notin excluded
    BY <1>4 DEF CanMove
<1>16. CleanedUp => /\ target = region /\ Vacant(region.lcn, region.length)
                    /\ file_start_lcn = region.lcn + region.length /\ b.lcn = file_start_lcn
                    /\ b.file # file
    BY <1>3, <1>4 DEF Prepared
<1>17. BlockLeft'
    <2>1. cleaning'.left \in 1 .. Asked'
        BY <1>7, <1>8, <1>10
    <2>2. cleaning'.lcn <= cleaning'.last /\ cleaning'.last < NClusters
        BY <1>5, <1>6, <1>8
    <2>3. \A c : c \notin cleaning'.lcn .. cleaning'.lcn + Gone' - 1
        BY <1>5, <1>8, <1>12
    <2>4. Vacant(cleaning.lcn, Gone)'
        BY <2>3 DEF Vacant
    <2>5. \A i \in 0 .. cleaning'.last - cleaning'.lcn - Gone' :
            /\ cleaning'.vcn + i \in DOMAIN map'[cleaning'.file]
            /\ map'[cleaning'.file][cleaning'.vcn + i] = cleaning'.lcn + Gone' + i
        <3>1. cleaning'.last - cleaning'.lcn - Gone' = b.length - 1 /\ cleaning'.lcn + Gone' = b.lcn
            BY <1>5, <1>8, <1>12
        <3> QED
            BY <1>1, <1>5, <1>8, <3>1
    <2>6. CleanedUp' => Vacant(region.lcn, region.length)'
        BY <1>1, <1>16 DEF CleanedUp, Vacant
    <2>7. CleanedUp' = CleanedUp
        BY <1>1 DEF CleanedUp
    <2> QED
        BY <1>1, <1>4, <1>8, <1>13, <1>14, <1>15, <1>16, <2>1, <2>2, <2>4, <2>5, <2>6, <2>7
           DEF BlockLeft, Here
<1>18. FileTypes'
    BY <1>1, <1>3 DEF FileTypes, Here, Room
<1>19. Processed'
    BY <1>1, <1>3 DEF Processed, Here, Base, CleanedUp
<1>20. FileInv'
    BY <1>1, <1>3, <1>17, <1>18, <1>19 DEF FileInv
<1>21. Sound'
    BY <1>1, <1>3 DEF Sound
<1> QED
    BY <1>1, <1>11, <1>20, <1>21
       DEF FileKept, FirstsStay, ProcessedStays, ExcludedStay

-----------------------------------------------------------------------------
(* A piece of the block moves.                                             *)

\* Where the pieces of the block go to, and what they do not disturb.
PieceGoes(vcns, lcn, n) ==
    /\ lcn \in Nat /\ n \in 1 .. cleaning.left
    /\ lcn > cleaning.last \/ lcn + n <= map[file][FirstVcn(map[file])]
    /\ vcns \subseteq cleaning.vcn .. cleaning.vcn + n - 1
    /\ Shift(cleaning.file, vcns, lcn, n)

\* What is known of the block.
LEMMA BlockLeftIs ==
    ASSUME Ready, file_pc = "cleanup"
    PROVE  /\ FileTypes /\ Processed /\ BlockLeft /\ to_process # 0
           /\ cleaning.file \in Files /\ cleaning.file \notin excluded
           /\ cleaning.vcn \in Nat /\ cleaning.left \in Nat /\ cleaning.left # 0
           /\ cleaning.lcn \in Nat /\ cleaning.last \in Nat
           /\ cleaning.lcn <= cleaning.last /\ cleaning.last < NClusters
           /\ Asked \in Nat /\ Asked <= to_cleanup /\ cleaning.lcn + Asked <= cleaning.last + 1
           /\ Asked # 0
           /\ Gone \in Nat /\ Gone + cleaning.left = Asked
           /\ Base \in Nat /\ Base <= cleaning.lcn /\ file_start_lcn <= cleaning.lcn
           /\ FirstVcn(map[file]) \in DOMAIN map[file] /\ FirstVcn(map[file]) \in Nat
           /\ map[file][FirstVcn(map[file])] \in Nat
           /\ map[file][FirstVcn(map[file])] < Base
<1>1. FileTypes /\ Processed /\ BlockLeft /\ to_process # 0
    BY DEF Ready, FileInv
<1>2. /\ cleaning.file \in Files /\ cleaning.file \notin excluded
      /\ cleaning.lcn <= cleaning.last /\ cleaning.last < NClusters
      /\ cleaning.left \in 1 .. Asked /\ cleaning.lcn >= file_start_lcn
      /\ CleanedUp => file_start_lcn = region.lcn + region.length
    BY <1>1 DEF BlockLeft
<1>3. /\ cleaning.vcn \in Nat /\ cleaning.left \in Nat /\ cleaning.lcn \in Nat /\ cleaning.last \in Nat
    BY ReadyIs DEF Cleaning
<1>4. /\ file \in Files /\ IsMap(map[file]) /\ to_cleanup \in Nat /\ file_start_lcn \in Nat
      /\ region.lcn \in Nat /\ region.length \in Nat /\ start_vcn \in Nat
    BY ReadyIs
<1>5. /\ Asked \in Nat /\ Asked <= to_cleanup /\ Asked <= cleaning.last - cleaning.lcn + 1
    <2>1. cleaning.last - cleaning.lcn + 1 \in Nat
        BY <1>2, <1>3
    <2> QED
        BY <1>4, <2>1, MinOfTwo DEF Asked
<1>6. Gone \in Nat /\ Gone + cleaning.left = Asked /\ cleaning.left # 0 /\ Asked # 0
    BY <1>2, <1>3, <1>5 DEF Gone
<1>7. Base \in Nat /\ Base <= cleaning.lcn
    BY <1>2, <1>3, <1>4 DEF Base, CleanedUp
<1>8. FirstVcn(map[file]) \in DOMAIN map[file] /\ FirstVcn(map[file]) \in Nat
      /\ map[file][FirstVcn(map[file])] \in Nat
    BY <1>4, FirstIs DEF IsMap, Clusters
<1>9. map[file][FirstVcn(map[file])] < Base
    BY <1>1, <1>8 DEF Processed
<1>10. cleaning.lcn + Asked <= cleaning.last + 1
    BY <1>3, <1>5
<1> QED
    BY <1>1, <1>2, <1>3, <1>4, <1>5, <1>6, <1>7, <1>8, <1>9, <1>10

\* The pieces disturb neither what must stay nor what has been cleaned up.
LEMMA PieceKeeps ==
    ASSUME Ready, Here, file_pc = "cleanup", NEW vcns, NEW lcn, NEW n, PieceGoes(vcns, lcn, n)
    PROVE  /\ FirstsStay /\ ProcessedStays /\ ExcludedStay
           /\ \A f \in Files : DOMAIN map'[f] = DOMAIN map[f]
           /\ \A c \in Base .. cleaning.last : c \notin lcn .. lcn + n - 1
           /\ CleanedUp => \A f \in Files : \A v \in DOMAIN map'[f] :
                    map'[f][v] \notin region.lcn .. region.lcn + region.length - 1
<1>1. /\ Processed /\ BlockLeft
      /\ cleaning.file \in Files /\ cleaning.file \notin excluded
      /\ cleaning.vcn \in Nat /\ cleaning.left \in Nat
      /\ cleaning.lcn \in Nat /\ cleaning.last \in Nat /\ cleaning.lcn <= cleaning.last
      /\ Base \in Nat /\ Base <= cleaning.lcn /\ file_start_lcn <= cleaning.lcn
      /\ FirstVcn(map[file]) \in DOMAIN map[file] /\ FirstVcn(map[file]) \in Nat
      /\ map[file][FirstVcn(map[file])] \in Nat
      /\ map[file][FirstVcn(map[file])] < Base
    BY BlockLeftIs
<1>2. /\ file \in Files /\ IsMap(map[file]) /\ DOMAIN map = Files /\ start_vcn \in Nat
      /\ region.lcn \in Nat /\ region.length \in Nat
    BY ReadyIs
<1>3. /\ lcn \in Nat /\ n \in Nat /\ vcns \subseteq cleaning.vcn .. cleaning.vcn + n - 1
      /\ Shift(cleaning.file, vcns, lcn, n)
      /\ lcn > cleaning.last \/ lcn + n <= map[file][FirstVcn(map[file])]
    BY <1>1 DEF PieceGoes
<1>4. \A f \in Files : /\ DOMAIN map'[f] = DOMAIN map[f]
                       /\ \A v \in DOMAIN map[f] :
                            \/ map'[f][v] = map[f][v] /\ (f = cleaning.file => v \notin vcns)
                            \/ f = cleaning.file /\ v \in vcns /\ map'[f][v] \in lcn .. lcn + n - 1
    BY <1>1, <1>3, ShiftedIs
<1>5. \A v \in vcns : v \in Nat /\ v >= cleaning.vcn
    BY <1>1, <1>3
<1>6. \A c \in Base .. cleaning.last : c \notin lcn .. lcn + n - 1
    BY <1>1, <1>3
<1>7. cleaning.file = file => cleaning.vcn >= start_vcn
    BY <1>1 DEF BlockLeft
<1>8. FirstVcn(map[file]) < start_vcn
    BY <1>1 DEF Processed
<1>9. ASSUME NEW f \in fixed PROVE map'[f][FirstVcn(map[f])] = map[f][FirstVcn(map[f])]
    <2>1. f \in Files /\ FirstVcn(map[f]) \in DOMAIN map[f] /\ FirstVcn(map[f]) \in Nat
        BY FirstIs DEF Ready, Frame, Sound, IsMap
    <2>2. f = cleaning.file => cleaning.vcn > FirstVcn(map[f])
        <3> SUFFICES ASSUME f = cleaning.file PROVE cleaning.vcn > FirstVcn(map[f])
            OBVIOUS
        <3>1. CASE fs = "FAT"
            BY <1>1, <3>1 DEF BlockLeft
        <3>2. CASE fs # "FAT"
            <4>1. f = file
                BY <3>2 DEF Ready, Frame, FileInv, FileTypes
            <4> QED
                BY <1>1, <1>2, <1>7, <1>8, <2>1, <4>1
        <3> QED
            BY <3>1, <3>2
    <2>3. f = cleaning.file => FirstVcn(map[f]) \notin vcns
        BY <1>1, <1>5, <2>1, <2>2
    <2> QED
        BY <1>4, <2>1, <2>3
<1>10. ProcessedStays
    <2> SUFFICES ASSUME NEW v \in DOMAIN map[file], v < start_vcn PROVE map'[file][v] = map[file][v]
        BY DEF ProcessedStays
    <2>1. v \in Nat
        BY <1>2 DEF IsMap
    <2>2. file = cleaning.file => v \notin vcns
        BY <1>1, <1>2, <1>5, <1>7, <2>1
    <2> QED
        BY <1>2, <1>4, <2>2
<1>11. ExcludedStay
    <2>1. \A f \in Files : f # cleaning.file => map'[f] = map[f]
        BY <1>3 DEF Shift
    <2>2. fixed \subseteq Files
        BY DEF Ready, Frame
    <2> QED
        BY <1>1, <2>1, <2>2 DEF ExcludedStay
<1>12. ASSUME CleanedUp, NEW f \in Files, NEW v \in DOMAIN map'[f]
       PROVE  map'[f][v] \notin region.lcn .. region.lcn + region.length - 1
    <2>1. Vacant(region.lcn, region.length) /\ region.lcn + region.length = cleaning.lcn /\ Base = region.lcn
        BY <1>1, <1>12 DEF BlockLeft, Base
    <2>2. \A c \in region.lcn .. region.lcn + region.length - 1 : c \in Base .. cleaning.last
        BY <1>1, <1>2, <2>1
    <2>3. v \in DOMAIN map[f]
        BY <1>4
    <2>4. CASE map'[f][v] = map[f][v]
        BY <2>1, <2>3, <2>4 DEF Vacant
    <2>5. CASE map'[f][v] \in lcn .. lcn + n - 1
        BY <1>6, <2>2, <2>5
    <2> QED
        BY <1>4, <2>3, <2>4, <2>5
<1>13. FirstsStay
    BY <1>9 DEF FirstsStay
<1> QED
    BY <1>4, <1>6, <1>10, <1>11, <1>12, <1>13

\* What has been processed stays so.
LEMMA ProcessedKept ==
    ASSUME Ready, Here, Processed, ProcessedStays, file_pc # "enter",
           \A f \in Files : DOMAIN map'[f] = DOMAIN map[f],
           UNCHANGED <<start_vcn, to_process>>, Base \in Nat, Base' \in Nat, Base <= Base'
    PROVE  Processed'
<1>1. file \in Files /\ IsMap(map[file]) /\ start_vcn \in Nat
    BY ReadyIs
<1> DEFINE m == map[file]
           k == map'[file]
<1>2. /\ FirstVcn(m) < start_vcn
      /\ \A v, w \in DOMAIN m : v < w /\ w < start_vcn => m[v] < m[w]
      /\ \A v \in DOMAIN m : v < start_vcn => m[v] < Base
      /\ to_process = Cardinality(Later(m, start_vcn))
    BY DEF Processed
<1>3. DOMAIN k = DOMAIN m
    BY <1>1
<1>4. file_pc # "idle"
    BY DEF Ready, FileInv, FileTypes
<1>5. \A v \in DOMAIN m : v \in Nat /\ m[v] \in Nat /\ (v < start_vcn => k[v] = m[v])
    BY <1>1, <1>4 DEF ProcessedStays, IsMap, Clusters
<1> HIDE DEF m, k
<1>6. FirstVcn(k) < start_vcn /\ to_process = Cardinality(Later(k, start_vcn))
    BY <1>2, <1>3 DEF FirstVcn, Later
<1>7. \A v, w \in DOMAIN k : v < w /\ w < start_vcn => k[v] < k[w]
    BY <1>1, <1>2, <1>3, <1>5
<1>8. \A v \in DOMAIN k : v < start_vcn => k[v] < Base'
    BY <1>2, <1>3, <1>5
<1>9. map'[file'] = k /\ start_vcn' = start_vcn /\ to_process' = to_process
    BY DEF Here, k
<1> QED
    BY <1>6, <1>7, <1>8, <1>9 DEF Processed

\* The operators of the routine are those of the invariant.
LEMMA ReservedIs ==
    ASSUME Ready
    PROVE  /\ File!ReservedStart = map[file][FirstVcn(map[file])]
           /\ File!Asked = Asked /\ File!CleanedUp = CleanedUp
<1>1. File!ReservedStart = map[file][FirstVcn(map[file])]
    BY ReadyIs, FirstBlockIs DEF File!ReservedStart, Ready
<1>2. File!Asked = Asked /\ File!CleanedUp = CleanedUp
    BY FileIsSame DEF File!Asked, Asked, File!CleanedUp, CleanedUp
<1> QED
    BY <1>1, <1>2

\* A piece has been moved: the space of the block which is vacant has grown.
LEMMA PieceGone ==
    ASSUME Ready, Here, file_pc = "cleanup", File!MoveBlock
    PROVE  \E p \in Pieces(File!ReservedStart) :
            /\ PieceGoes(cleaning.vcn .. cleaning.vcn + p.length - 1, p.lcn, p.length)
            /\ p.length \in 1 .. cleaning.left
            /\ Continued(p) /\ cleaning' \in Cleaning /\ Sound' /\ UNCHANGED <<fs, failed, stuck>>
            /\ \A f \in Files : \A v \in DOMAIN map'[f] :
                    map'[f][v] \notin cleaning.lcn .. cleaning.lcn + (Gone + p.length) - 1
            /\ \A i \in 0 .. cleaning.last - cleaning.lcn - (Gone + p.length) :
                /\ cleaning'.vcn + i \in DOMAIN map'[cleaning.file]
                /\ map'[cleaning.file][cleaning'.vcn + i] = cleaning.lcn + (Gone + p.length) + i
<1> DEFINE f == cleaning.file
           r == File!ReservedStart
<1>1. /\ BlockLeft /\ f \in Files
      /\ cleaning.vcn \in Nat /\ cleaning.left \in Nat /\ cleaning.left # 0
      /\ cleaning.lcn \in Nat /\ cleaning.last \in Nat
      /\ cleaning.lcn <= cleaning.last /\ cleaning.last < NClusters
      /\ Asked \in Nat /\ cleaning.lcn + Asked <= cleaning.last + 1
      /\ Gone \in Nat /\ Gone + cleaning.left = Asked
      /\ Base \in Nat /\ Base <= cleaning.lcn
      /\ map[file][FirstVcn(map[file])] \in Nat
      /\ map[file][FirstVcn(map[file])] < Base
    BY BlockLeftIs
<1>2. r = map[file][FirstVcn(map[file])] /\ r \in Nat
    BY <1>1, ReservedIs
<1>3. Sound /\ cleaning \in Cleaning /\ NClusters \in Nat
    BY ReadyIs DEF Ready
<1>4. PieceMoved(r)
    BY FileIsSame DEF File!MoveBlock
<1> HIDE DEF r
<1>5. PICK p \in Pieces(r) :
            LET ch == Chain(map[f], cleaning.vcn, p.length)
            IN /\ p.length \in 1 .. cleaning.left /\ p.lcn \in Nat
               /\ p.lcn > cleaning.last \/ p.lcn + p.length <= r
               /\ Sound' /\ Shift(f, ch, p.lcn, p.length) /\ cleaning.vcn \in ch
               /\ Continued(p) /\ cleaning' \in Cleaning
               /\ UNCHANGED <<fs, failed, stuck>>
    BY <1>1, <1>2, <1>3, <1>4, PieceMovedKeeps
<1>6. \A i \in 0 .. cleaning.last - cleaning.lcn - Gone :
            cleaning.vcn + i \in DOMAIN map[f] /\ map[f][cleaning.vcn + i] = cleaning.lcn + Gone + i
    BY <1>1 DEF BlockLeft
<1> DEFINE n == p.length
           ch == cleaning.vcn .. cleaning.vcn + n - 1
<1>7. n \in Nat /\ n # 0 /\ n <= cleaning.left /\ p.lcn \in Nat
    BY <1>1, <1>5
<1>8. \A i \in 0 .. n - 1 : i \in 0 .. cleaning.last - cleaning.lcn - Gone
    BY <1>1, <1>7
<1>9. Chain(map[f], cleaning.vcn, n) = ch
    <2>1. IsMap(map[f])
        BY <1>1, <1>3 DEF Sound
    <2>2. \A i \in 0 .. n - 1 : cleaning.vcn + i \in DOMAIN map[f]
        BY <1>6, <1>8
    <2> DEFINE m == map[f]
               a == cleaning.vcn
    <2>3. IsMap(m) /\ a \in Nat /\ \A i \in 0 .. n - 1 : a + i \in DOMAIN m
        BY <1>1, <2>1, <2>2
    <2>4. n \in Nat
        BY <1>7
    <2> HIDE DEF m, a, n
    <2>5. Chain(m, a, n) = a .. a + n - 1
        BY <2>3, <2>4, ChainOfRun
    <2> QED
        BY <2>5 DEF m, a
<1>10. Shift(f, ch, p.lcn, n)
    BY <1>5, <1>9
<1>11. PieceGoes(ch, p.lcn, n)
    BY <1>2, <1>5, <1>10 DEF PieceGoes
<1> HIDE DEF n
<1>12. \A g \in Files : /\ DOMAIN map'[g] = DOMAIN map[g]
                        /\ \A v \in DOMAIN map[g] :
                             \/ map'[g][v] = map[g][v] /\ (g = f => v \notin ch)
                             \/ g = f /\ v \in ch /\ map'[g][v] \in p.lcn .. p.lcn + n - 1
    <2> HIDE DEF ch
    <2> QED
        BY <1>1, <1>10, ShiftedIs
<1>13. \A c \in Base .. cleaning.last : c \notin p.lcn .. p.lcn + n - 1
    BY <1>1, <1>11, PieceKeeps DEF Ready, FileInv
<1>14. ASSUME NEW g \in Files, NEW v \in DOMAIN map'[g],
              map'[g][v] \in cleaning.lcn .. cleaning.lcn + (Gone + n) - 1
       PROVE  FALSE
    <2>1. v \in DOMAIN map[g]
        BY <1>12
    <2> DEFINE c == map'[g][v]
    <2>2. c \in Base .. cleaning.last
        BY <1>1, <1>7, <1>14
    <2>3. c \notin p.lcn .. p.lcn + n - 1
        BY <1>13, <2>2
    <2>4. map[g][v] = c /\ (g = f => v \notin ch)
        BY <1>12, <2>1, <2>3
    <2> HIDE DEF c
    <2>5. c \in Nat /\ c >= cleaning.lcn /\ c < cleaning.lcn + (Gone + n)
        BY <1>1, <1>7, <1>14 DEF c
    <2>6. CASE c < cleaning.lcn + Gone
        <3>1. Vacant(cleaning.lcn, Gone)
            BY <1>1 DEF BlockLeft
        <3>2. c \in cleaning.lcn .. cleaning.lcn + Gone - 1
            BY <1>1, <2>5, <2>6
        <3> QED
            BY <2>1, <2>4, <3>1, <3>2 DEF Vacant
    <2>7. CASE ~(c < cleaning.lcn + Gone)
        <3> DEFINE i == c - (cleaning.lcn + Gone)
        <3>1. i \in 0 .. n - 1 /\ cleaning.lcn + Gone + i = c
            BY <1>1, <1>7, <2>5, <2>7
        <3>2. cleaning.vcn + i \in ch
            BY <1>1, <1>7, <3>1
        <3> HIDE DEF i
        <3>3. cleaning.vcn + i \in DOMAIN map[f] /\ map[f][cleaning.vcn + i] = c
            BY <1>6, <1>8, <3>1
        <3>4. g = f
            BY <1>1, <1>3, <2>1, <2>4, <3>3 DEF Sound
        <3>5. v = cleaning.vcn + i
            BY <1>1, <1>3, <2>1, <2>4, <3>3, <3>4 DEF Sound, IsMap
        <3> QED
            BY <2>4, <3>2, <3>4, <3>5
    <2> QED
        BY <2>6, <2>7
<1>15. ASSUME NEW i \in 0 .. cleaning.last - cleaning.lcn - (Gone + n)
       PROVE  /\ cleaning'.vcn + i \in DOMAIN map'[f]
              /\ map'[f][cleaning'.vcn + i] = cleaning.lcn + (Gone + n) + i
    <2>1. cleaning'.vcn = cleaning.vcn + n
        BY <1>5 DEF Continued, n
    <2>2. /\ n + i \in 0 .. cleaning.last - cleaning.lcn - Gone
          /\ cleaning'.vcn + i = cleaning.vcn + (n + i)
          /\ cleaning.lcn + Gone + (n + i) = cleaning.lcn + (Gone + n) + i
        BY <1>1, <1>7, <2>1
    <2>3. /\ cleaning.vcn + (n + i) \in DOMAIN map[f]
          /\ map[f][cleaning.vcn + (n + i)] = cleaning.lcn + (Gone + n) + i
        BY <1>6, <2>2
    <2>4. cleaning.vcn + (n + i) \notin ch
        BY <1>1, <1>7
    <2>5. cleaning.vcn + (n + i) \in DOMAIN map'[f]
          /\ map'[f][cleaning.vcn + (n + i)] = map[f][cleaning.vcn + (n + i)]
        BY <1>1, <1>12, <2>3, <2>4
    <2> QED
        BY <2>2, <2>3, <2>5
<1> QED
    BY <1>5, <1>11, <1>14, <1>15 DEF n, r

\* The block is not at its new place as a whole yet.
LEMMA MovePieceKeeps ==
    ASSUME Ready, Here, file_pc = "cleanup", File!MoveBlock, cleaning'.left > 0
    PROVE  FileKept
<1>1. /\ FileTypes /\ Processed /\ BlockLeft /\ to_process # 0
      /\ cleaning.file \in Files /\ cleaning.file \notin excluded
      /\ cleaning.vcn \in Nat /\ cleaning.left \in Nat /\ cleaning.left # 0
      /\ cleaning.lcn \in Nat /\ cleaning.last \in Nat
      /\ cleaning.lcn <= cleaning.last /\ cleaning.last < NClusters
      /\ Asked \in Nat /\ Gone \in Nat /\ Gone + cleaning.left = Asked /\ Base \in Nat
    BY BlockLeftIs
<1>2. PICK p \in Pieces(File!ReservedStart) :
            /\ PieceGoes(cleaning.vcn .. cleaning.vcn + p.length - 1, p.lcn, p.length)
            /\ p.length \in 1 .. cleaning.left
            /\ Continued(p) /\ cleaning' \in Cleaning /\ Sound' /\ UNCHANGED <<fs, failed, stuck>>
            /\ \A f \in Files : \A v \in DOMAIN map'[f] :
                    map'[f][v] \notin cleaning.lcn .. cleaning.lcn + (Gone + p.length) - 1
            /\ \A i \in 0 .. cleaning.last - cleaning.lcn - (Gone + p.length) :
                /\ cleaning'.vcn + i \in DOMAIN map'[cleaning.file]
                /\ map'[cleaning.file][cleaning'.vcn + i] = cleaning.lcn + (Gone + p.length) + i
    BY PieceGone
<1> DEFINE n == p.length
<1>3. n \in Nat /\ n # 0 /\ n <= cleaning.left
    BY <1>1, <1>2
<1>4. /\ FirstsStay /\ ProcessedStays /\ ExcludedStay
      /\ \A f \in Files : DOMAIN map'[f] = DOMAIN map[f]
      /\ CleanedUp => \A f \in Files : \A v \in DOMAIN map'[f] :
            map'[f][v] \notin region.lcn .. region.lcn + region.length - 1
    BY <1>2, PieceKeeps
<1>5. /\ cleaning'.file = cleaning.file /\ cleaning'.vcn = cleaning.vcn + n
      /\ cleaning'.left = cleaning.left - n
      /\ cleaning'.lcn = cleaning.lcn /\ cleaning'.last = cleaning.last
    BY <1>2 DEF Continued
<1>6. UNCHANGED <<file_start_lcn, start_vcn, file_end_lcn, to_process, to_cleanup, target, region,
                  result, file_pc, stopped>>
    BY DEF File!MoveBlock, File!place, File!round
<1>7. Base' = Base /\ CleanedUp' = CleanedUp
    BY <1>6 DEF Base, CleanedUp
<1>8. Processed'
    BY <1>1, <1>4, <1>6, <1>7, ProcessedKept
<1>9. Asked' = Asked
    BY <1>5, <1>6 DEF Asked
<1>10. Gone' = Gone + n
    BY <1>1, <1>3, <1>5, <1>9 DEF Gone
<1>11. FileTypes'
    BY <1>1, <1>4, <1>6, ReadyIs DEF FileTypes, Here, Room
<1>12. BlockLeft'
    <2>1. cleaning'.file \in Files \ excluded' /\ cleaning'.left \in 1 .. Asked'
        BY <1>1, <1>3, <1>5, <1>9 DEF Here
    <2>2. cleaning'.lcn <= cleaning'.last /\ cleaning'.last < NClusters
        BY <1>1, <1>5
    <2>3. Vacant(cleaning.lcn, Gone)'
        BY <1>2, <1>5, <1>10 DEF Vacant
    <2>4. \A i \in 0 .. cleaning'.last - cleaning'.lcn - Gone' :
            /\ cleaning'.vcn + i \in DOMAIN map'[cleaning'.file]
            /\ map'[cleaning'.file][cleaning'.vcn + i] = cleaning'.lcn + Gone' + i
        BY <1>2, <1>5, <1>10
    <2>5. cleaning'.lcn >= file_start_lcn'
        BY <1>1, <1>5, <1>6 DEF BlockLeft
    <2>6. CleanedUp' =>
            /\ target' = region' /\ Vacant(region.lcn, region.length)'
            /\ file_start_lcn' = region'.lcn + region'.length /\ cleaning'.lcn = file_start_lcn'
            /\ cleaning'.file # file'
        <3>1. CleanedUp => Vacant(region.lcn, region.length)'
            BY <1>4, <1>6 DEF Vacant
        <3> QED
            BY <1>1, <1>5, <1>6, <1>7, <3>1 DEF BlockLeft, Here
    <2>7. cleaning'.file = file' => cleaning'.vcn >= start_vcn'
        BY <1>1, <1>3, <1>5, <1>6, ReadyIs DEF BlockLeft, Here
    <2>8. fs' = "FAT" /\ cleaning'.file \in fixed' => cleaning'.vcn > FirstVcn(map'[cleaning'.file])
        <3>1. FirstVcn(map'[cleaning'.file]) = FirstVcn(map[cleaning.file])
            BY <1>1, <1>4, <1>5 DEF FirstVcn
        <3>2. IsMap(map[cleaning.file])
            BY <1>1 DEF Ready, Sound
        <3>3. FirstVcn(map[cleaning.file]) \in Nat
            BY <3>2, FirstIs DEF IsMap
        <3> QED
            BY <1>1, <1>2, <1>3, <1>5, <3>1, <3>3 DEF BlockLeft, Here
    <2> QED
        BY <2>1, <2>2, <2>3, <2>4, <2>5, <2>6, <2>7, <2>8 DEF BlockLeft
<1>13. FileInv'
    BY <1>1, <1>6, <1>8, <1>11, <1>12 DEF FileInv
<1> QED
    BY <1>2, <1>4, <1>13 DEF FileKept

\* The block is gone, and its space is the new target.
LEMMA MoveLastPieceKeeps ==
    ASSUME Ready, Here, file_pc = "cleanup", File!MoveBlock, ~(cleaning'.left > 0)
    PROVE  FileKept
<1>1. /\ FileTypes /\ Processed /\ BlockLeft /\ to_process # 0
      /\ cleaning.file \in Files /\ cleaning.file \notin excluded
      /\ cleaning.vcn \in Nat /\ cleaning.left \in Nat /\ cleaning.left # 0
      /\ cleaning.lcn \in Nat /\ cleaning.last \in Nat
      /\ cleaning.lcn <= cleaning.last /\ cleaning.last < NClusters
      /\ Asked \in Nat /\ Asked <= to_cleanup /\ cleaning.lcn + Asked <= cleaning.last + 1
      /\ Asked # 0
      /\ Gone \in Nat /\ Gone + cleaning.left = Asked /\ Base \in Nat
      /\ Base <= cleaning.lcn /\ file_start_lcn <= cleaning.lcn
    BY BlockLeftIs
<1>2. PICK p \in Pieces(File!ReservedStart) :
            /\ PieceGoes(cleaning.vcn .. cleaning.vcn + p.length - 1, p.lcn, p.length)
            /\ p.length \in 1 .. cleaning.left
            /\ Continued(p) /\ cleaning' \in Cleaning /\ Sound' /\ UNCHANGED <<fs, failed, stuck>>
            /\ \A f \in Files : \A v \in DOMAIN map'[f] :
                    map'[f][v] \notin cleaning.lcn .. cleaning.lcn + (Gone + p.length) - 1
    BY PieceGone
<1>3. p.length \in Nat /\ p.length # 0 /\ p.length <= cleaning.left
    BY <1>1, <1>2
<1>4. /\ FirstsStay /\ ProcessedStays /\ ExcludedStay
      /\ \A f \in Files : DOMAIN map'[f] = DOMAIN map[f]
      /\ CleanedUp => \A f \in Files : \A v \in DOMAIN map'[f] :
            map'[f][v] \notin region.lcn .. region.lcn + region.length - 1
    BY <1>2, PieceKeeps
<1>5. cleaning'.left = cleaning.left - p.length
    BY <1>2 DEF Continued
<1>6. Gone + p.length = Asked
    BY <1>1, <1>3, <1>5
<1>7. \A f \in Files : \A v \in DOMAIN map'[f] :
            map'[f][v] \notin cleaning.lcn .. cleaning.lcn + Asked - 1
    BY <1>2, <1>6
<1>8. /\ region' = IF CleanedUp THEN [region EXCEPT !.length = @ + Asked]
                   ELSE [lcn |-> cleaning.lcn, length |-> Asked]
      /\ target' = region' /\ file_start_lcn' = region'.lcn + region'.length
      /\ to_cleanup' = to_cleanup - Asked /\ file_pc' = "clean"
      /\ UNCHANGED <<start_vcn, file_end_lcn, stopped, to_process, result>>
    BY ReservedIs DEF File!MoveBlock, File!Extend
<1>9. /\ region.lcn \in Nat /\ region.length \in Nat /\ to_cleanup \in Nat /\ to_cleanup <= NClusters
      /\ region = [lcn |-> region.lcn, length |-> region.length] /\ NClusters \in Nat
    BY ReadyIs
<1>10. /\ region'.lcn = IF CleanedUp THEN region.lcn ELSE cleaning.lcn
       /\ region'.length = IF CleanedUp THEN region.length + Asked ELSE Asked
       /\ region' = [lcn |-> region'.lcn, length |-> region'.length]
    <2>1. CASE CleanedUp
        BY <1>8, <1>9, <2>1
    <2>2. CASE ~CleanedUp
        BY <1>8, <2>2
    <2> QED
        BY <2>1, <2>2
<1>11. CleanedUp => /\ region.lcn + region.length = cleaning.lcn /\ Base = region.lcn
    BY <1>1 DEF BlockLeft, Base
<1>12. region'.lcn \in Nat /\ region'.length \in Nat /\ region'.lcn + region'.length = cleaning.lcn + Asked
    BY <1>1, <1>9, <1>10, <1>11
<1>13. region'.length > 0
    BY <1>1, <1>9, <1>10
<1>14. region' \in Room
    <2>1. region'.lcn + region'.length <= NClusters
        BY <1>1, <1>9, <1>12
    <2> QED
        BY <1>10, <1>12, <2>1 DEF Room
<1>15. Base' = region'.lcn /\ Base' \in Nat /\ Base <= Base' /\ CleanedUp'
    <2>1. CleanedUp' /\ Base' = region'.lcn
        BY <1>8, <1>13 DEF Base, CleanedUp
    <2> QED
        BY <1>1, <1>10, <1>11, <1>12, <2>1
<1>16. Processed'
    BY <1>1, <1>4, <1>8, <1>15, ProcessedKept
<1>17. FileTypes'
    <2>1. file_start_lcn' \in 0 .. NClusters /\ to_cleanup' \in 0 .. NClusters
        BY <1>1, <1>8, <1>9, <1>12
    <2> QED
        BY <1>1, <1>4, <1>8, <1>14, <2>1, ReadyIs DEF FileTypes, Here
<1>18. Prepared'
    <2>1. ASSUME NEW f \in Files, NEW v \in DOMAIN map'[f],
                 map'[f][v] \in region'.lcn .. region'.lcn + region'.length - 1
          PROVE  FALSE
        <3> DEFINE c == map'[f][v]
        <3> HIDE DEF c
        <3>1. c \in region'.lcn .. region'.lcn + region'.length - 1
            BY <2>1 DEF c
        <3>2. c \notin cleaning.lcn .. cleaning.lcn + Asked - 1
            BY <1>7, <2>1 DEF c
        <3>3. CASE CleanedUp
            <4>1. c \notin region.lcn .. region.lcn + region.length - 1
                BY <1>4, <2>1, <3>3 DEF c
            <4> QED
                BY <1>1, <1>9, <1>10, <1>11, <3>1, <3>2, <3>3, <4>1
        <3>4. CASE ~CleanedUp
            BY <1>10, <3>1, <3>2, <3>4
        <3> QED
            BY <3>3, <3>4
    <2>2. Vacant(region.lcn, region.length)'
        BY <2>1 DEF Vacant
    <2> QED
        BY <1>8, <1>15, <2>2 DEF Prepared
<1>19. FileInv'
    BY <1>1, <1>8, <1>13, <1>15, <1>16, <1>17, <1>18 DEF FileInv
<1> QED
    BY <1>2, <1>4, <1>19 DEF FileKept

\* The piece does not get to its place as a whole: wherever its parts are, they
\* are not where the file goes to.
LEMMA BlockFailsKeeps ==
    ASSUME Ready, Here, file_pc = "cleanup", File!BlockFails
    PROVE  FileKept
<1>1. /\ FileTypes /\ Processed /\ BlockLeft /\ to_process # 0
      /\ cleaning.file \in Files
      /\ cleaning.vcn \in Nat /\ cleaning.left \in Nat /\ cleaning.left # 0
      /\ cleaning.lcn \in Nat /\ cleaning.last \in Nat
      /\ cleaning.lcn <= cleaning.last /\ cleaning.last < NClusters
      /\ Asked \in Nat /\ cleaning.lcn + Asked <= cleaning.last + 1
      /\ Gone \in Nat /\ Gone + cleaning.left = Asked /\ Base \in Nat
      /\ Base <= cleaning.lcn /\ file_start_lcn <= cleaning.lcn
      /\ map[file][FirstVcn(map[file])] \in Nat
    BY BlockLeftIs
<1>2. File!ReservedStart = map[file][FirstVcn(map[file])]
    BY ReservedIs
<1>3. Sound /\ cleaning \in Cleaning /\ NClusters \in Nat
    BY ReadyIs DEF Ready
<1>4. PieceFails(File!ReservedStart)
    BY FileIsSame DEF File!BlockFails
<1>5. PICK p \in Pieces(File!ReservedStart) :
            /\ p.length \in 1 .. cleaning.left /\ p.lcn \in Nat
            /\ p.lcn > cleaning.last \/ p.lcn + p.length <= File!ReservedStart
            /\ Sound' /\ cleaning' = Idle /\ fs' = fs
            /\ \E ch \in SUBSET Chain(map[cleaning.file], cleaning.vcn, p.length) :
                    Shift(cleaning.file, ch, p.lcn, p.length)
    <2> DEFINE r == File!ReservedStart
    <2>1. r \in Nat /\ PieceFails(r)
        BY <1>1, <1>2, <1>4
    <2> HIDE DEF r
    <2>2. \E p \in Pieces(r) :
            /\ p.length \in 1 .. cleaning.left /\ p.lcn \in Nat
            /\ p.lcn > cleaning.last \/ p.lcn + p.length <= r
            /\ Sound' /\ cleaning' = Idle /\ fs' = fs
            /\ cleaning.file \in failed' \cup stuck'
            /\ failed \subseteq failed' /\ stuck \subseteq stuck'
            /\ \E ch \in SUBSET Chain(map[cleaning.file], cleaning.vcn, p.length) :
                    Shift(cleaning.file, ch, p.lcn, p.length)
        BY <1>1, <1>3, <2>1, PieceFailsKeeps
    <2> QED
        BY <2>2 DEF r
<1>6. PICK ch \in SUBSET Chain(map[cleaning.file], cleaning.vcn, p.length) :
            Shift(cleaning.file, ch, p.lcn, p.length)
    BY <1>5
<1>7. PieceGoes(ch, p.lcn, p.length)
    <2>1. IsMap(map[cleaning.file]) /\ p.length \in Nat /\ p.length <= cleaning.left
        BY <1>1, <1>3, <1>5 DEF Sound
    <2>2. \A i \in 0 .. p.length - 1 : i \in 0 .. cleaning.last - cleaning.lcn - Gone
        BY <1>1, <2>1
    <2>3. \A i \in 0 .. p.length - 1 : cleaning.vcn + i \in DOMAIN map[cleaning.file]
        BY <1>1, <2>2 DEF BlockLeft
    <2>4. Chain(map[cleaning.file], cleaning.vcn, p.length) = cleaning.vcn .. cleaning.vcn + p.length - 1
        <3> DEFINE m == map[cleaning.file]
                   a == cleaning.vcn
                   n == p.length
        <3>1. IsMap(m) /\ a \in Nat /\ n \in Nat /\ \A i \in 0 .. n - 1 : a + i \in DOMAIN m
            BY <1>1, <2>1, <2>3
        <3> HIDE DEF m, a, n
        <3>2. Chain(m, a, n) = a .. a + n - 1
            BY <3>1, ChainOfRun
        <3> QED
            BY <3>2 DEF m, a, n
    <2> QED
        BY <1>2, <1>5, <1>6, <2>4 DEF PieceGoes
<1>8. /\ FirstsStay /\ ProcessedStays /\ ExcludedStay
      /\ \A f \in Files : DOMAIN map'[f] = DOMAIN map[f]
      /\ CleanedUp => \A f \in Files : \A v \in DOMAIN map'[f] :
            map'[f][v] \notin region.lcn .. region.lcn + region.length - 1
    BY <1>7, PieceKeeps
<1>9. /\ file_pc' = IF CleanedUp THEN "move" ELSE "search"
      /\ file_start_lcn' = IF CleanedUp THEN file_start_lcn ELSE cleaning.lcn + Asked
      /\ UNCHANGED <<stopped, start_vcn, to_process, file_end_lcn, to_cleanup, target, region, result>>
    <2>1. CASE CleanedUp
        BY <2>1, ReservedIs DEF File!BlockFails, File!round
    <2>2. CASE ~CleanedUp
        BY <2>2, ReservedIs DEF File!BlockFails, File!round
    <2> QED
        BY <2>1, <2>2
<1>10. file_start_lcn' \in Nat /\ file_start_lcn <= file_start_lcn' /\ file_start_lcn' <= NClusters
    <2>1. file_start_lcn \in Nat /\ file_start_lcn <= NClusters
        BY ReadyIs
    <2> QED
        BY <1>1, <1>3, <1>9, <2>1
<1>11. CleanedUp' = CleanedUp
    BY <1>9 DEF CleanedUp
<1>12. Base' \in Nat /\ Base <= Base'
    <2>1. CASE CleanedUp
        BY <1>1, <1>9, <1>11, <2>1 DEF Base
    <2>2. CASE ~CleanedUp
        BY <1>1, <1>9, <1>10, <1>11, <2>2 DEF Base
    <2> QED
        BY <2>1, <2>2
<1>13. Processed'
    BY <1>1, <1>8, <1>9, <1>12, ProcessedKept
<1>14. FileTypes'
    BY <1>1, <1>8, <1>9, <1>10, ReadyIs DEF FileTypes, Here, Room
<1>15. CleanedUp => Prepared' /\ target'.length # 0
    <2> SUFFICES ASSUME CleanedUp PROVE Prepared' /\ target'.length # 0
        OBVIOUS
    <2>1. target = region /\ file_start_lcn = region.lcn + region.length
        BY <1>1 DEF BlockLeft
    <2>2. Vacant(region.lcn, region.length)'
        BY <1>8, <1>9 DEF Vacant
    <2>3. Prepared'
        BY <1>9, <1>11, <2>1, <2>2 DEF Prepared
    <2> QED
        BY <1>9, <2>1, <2>3 DEF CleanedUp
<1>16. FileInv'
    <2>1. CASE CleanedUp
        BY <1>1, <1>9, <1>13, <1>14, <1>15, <2>1 DEF FileInv
    <2>2. CASE ~CleanedUp
        BY <1>1, <1>9, <1>13, <1>14, <2>2 DEF FileInv
    <2> QED
        BY <2>1, <2>2
<1>17. cleaning' \in Cleaning
    BY <1>5 DEF Cleaning, Idle
<1> QED
    BY <1>5, <1>8, <1>16, <1>17 DEF FileKept

-----------------------------------------------------------------------------
(* A portion of the file moves.                                            *)

\* Where it goes to.
LEMMA PortionIs ==
    ASSUME Ready, file_pc = "move", target # File!NoTarget
    PROVE  /\ Processed /\ FileTypes /\ to_process # 0 /\ target.length # 0
           /\ File!Portion \in Nat \ {0}
           /\ File!Portion <= to_process /\ File!Portion <= target.length
           /\ target.lcn + File!Portion <= NClusters
           /\ Vacant(target.lcn, File!Portion)
           /\ Base \in Nat /\ Base <= target.lcn
           /\ start_vcn \in DOMAIN map[file]
           /\ to_process = Cardinality(Later(map[file], start_vcn))
           /\ file \notin excluded
           /\ FirstVcn(map[file]) \in DOMAIN map[file] /\ FirstVcn(map[file]) < start_vcn
<1>1. Processed /\ Prepared /\ FileTypes /\ to_process # 0
    BY DEF Ready, FileInv
<1>2. /\ file \in Files /\ IsMap(map[file]) /\ NClusters \in Nat
      /\ to_process \in Nat /\ file_start_lcn \in Nat /\ start_vcn \in Nat
      /\ target.lcn \in Nat /\ target.length \in Nat /\ target.lcn + target.length <= NClusters
      /\ region.lcn \in Nat /\ region.length \in Nat
    BY ReadyIs
<1>3. target.length # 0
    BY DEF Ready, FileInv, File!NoTarget
<1>4. File!Portion = Min({to_process, target.length})
    BY FileIsSame DEF File!Portion
<1>5. /\ File!Portion \in Nat /\ File!Portion # 0
      /\ File!Portion <= to_process /\ File!Portion <= target.length
    BY <1>1, <1>2, <1>3, <1>4, MinOfTwo
<1>6. Vacant(target.lcn, target.length) /\ Base \in Nat /\ Base <= target.lcn
    <2>1. CASE CleanedUp
        BY <1>1, <1>2, <2>1 DEF Prepared, Base
    <2>2. CASE ~CleanedUp
        BY <1>1, <1>2, <1>3, <2>2 DEF Prepared, Base
    <2> QED
        BY <2>1, <2>2
<1> HIDE DEF File!Portion
<1>7. Vacant(target.lcn, File!Portion)
    BY <1>2, <1>5, <1>6, VacantBelow
<1>8. FirstVcn(map[file]) \in DOMAIN map[file]
    BY <1>2, FirstIs
<1>9. target.lcn + File!Portion <= NClusters
    BY <1>2, <1>5
<1>10. start_vcn \in DOMAIN map[file] /\ file \notin excluded
    BY <1>1 DEF FileTypes
<1>11. to_process = Cardinality(Later(map[file], start_vcn)) /\ FirstVcn(map[file]) < start_vcn
    BY <1>1 DEF Processed
<1> QED
    BY <1>1, <1>2, <1>3, <1>5, <1>6, <1>7, <1>8, <1>9, <1>10, <1>11

\* Whatever part of it moves: what must stay stays.
LEMMA PortionKeeps ==
    ASSUME Ready, Here, file_pc = "move", target # File!NoTarget,
           NEW ch, ch \subseteq Chain(map[file], start_vcn, File!Portion), NEW lcn, NEW n,
           Shift(file, ch, lcn, n)
    PROVE  /\ FirstsStay /\ ProcessedStays /\ ExcludedStay
           /\ \A f \in Files : DOMAIN map'[f] = DOMAIN map[f]
<1>1. /\ file \in Files /\ file \notin excluded /\ IsMap(map[file]) /\ start_vcn \in Nat
      /\ FirstVcn(map[file]) \in DOMAIN map[file] /\ FirstVcn(map[file]) < start_vcn
      /\ File!Portion \in Nat
    BY PortionIs, ReadyIs
<1> HIDE DEF File!Portion
<1>2. \A v \in ch : v >= start_vcn
    BY <1>1, ChainIs
<1>3. \A f \in Files : /\ DOMAIN map'[f] = DOMAIN map[f]
                       /\ \A v \in DOMAIN map[f] :
                            \/ map'[f][v] = map[f][v] /\ (f = file => v \notin ch)
                            \/ f = file /\ v \in ch /\ map'[f][v] \in lcn .. lcn + n - 1
    BY <1>1, ShiftedIs
<1>4. \A v \in DOMAIN map[file] : v < start_vcn => map'[file][v] = map[file][v]
    <2>1. \A v \in DOMAIN map[file] : v \in Nat
        BY <1>1 DEF IsMap
    <2> QED
        BY <1>1, <1>2, <1>3, <2>1
<1>5. \A f \in Files : f # file => map'[f] = map[f]
    BY DEF Shift
<1>6. fixed \subseteq Files
    BY DEF Ready, Frame
<1>7. FirstsStay
    BY <1>1, <1>4, <1>5, <1>6 DEF FirstsStay
<1>8. ProcessedStays
    BY <1>4 DEF ProcessedStays
<1>9. ExcludedStay
    BY <1>1, <1>5, <1>6 DEF ExcludedStay
<1> QED
    BY <1>3, <1>7, <1>8, <1>9

\* The portion follows what has been processed.
LEMMA MovePortionKeeps ==
    ASSUME Ready, Here, file_pc = "move", File!MovePortion
    PROVE  FileKept
<1>1. /\ Processed /\ FileTypes /\ target.length # 0
      /\ File!Portion \in Nat \ {0}
      /\ File!Portion <= to_process /\ File!Portion <= target.length
      /\ target.lcn + File!Portion <= NClusters
      /\ Vacant(target.lcn, File!Portion)
      /\ Base \in Nat /\ Base <= target.lcn
      /\ start_vcn \in DOMAIN map[file]
      /\ to_process = Cardinality(Later(map[file], start_vcn))
      /\ FirstVcn(map[file]) \in DOMAIN map[file] /\ FirstVcn(map[file]) < start_vcn
    BY PortionIs DEF File!MovePortion
<1>2. /\ file \in Files /\ IsMap(map[file]) /\ NClusters \in Nat
      /\ to_process \in Nat /\ to_process <= NClusters /\ start_vcn \in Nat
      /\ target.lcn \in Nat
    BY ReadyIs
<1>3. /\ target # File!NoTarget
      /\ Success(file, start_vcn, File!Portion, target.lcn)
      /\ to_process' = to_process - File!Portion
      /\ file_start_lcn' = target.lcn + File!Portion
      /\ start_vcn' = File!AdvanceVcn(start_vcn, File!Portion)
      /\ file_pc' = "search"
      /\ UNCHANGED <<stopped, cleaning, file_end_lcn, to_cleanup, target, region, result>>
    BY FileIsSame DEF File!MovePortion, File!round
<1>4. Sound /\ cleaning \in Cleaning
    BY ReadyIs DEF Ready
<1> DEFINE n == File!Portion
           m == map[file]
           k == map'[file]
           ch == Chain(map[file], start_vcn, n)
           adv == start_vcn'
<1> HIDE DEF n
<1>5. n \in Nat \ {0} /\ n <= Cardinality(Later(m, start_vcn)) /\ n <= to_process
    BY <1>1 DEF n
<1>6. /\ adv \in Nat /\ adv > start_vcn
      /\ \A u \in DOMAIN m : u >= start_vcn => (u \in ch <=> u < adv)
      /\ Cardinality(Later(m, adv)) = Cardinality(Later(m, start_vcn)) - n
      /\ Cardinality(Later(m, adv)) # 0 => adv \in DOMAIN m
    <2>1. adv = File!AdvanceVcn(start_vcn, n)
        BY <1>3 DEF n
    <2> HIDE DEF adv
    <2> QED
        BY <1>1, <1>2, <1>4, <1>5, <2>1, AdvanceIs
<1>7. /\ Sound' /\ Shift(file, ch, target.lcn, n)
      /\ UNCHANGED <<fs, others, failed, stuck>>
    <2>1. Success(file, start_vcn, n, target.lcn) /\ Vacant(target.lcn, n) /\ target.lcn + n <= NClusters
        BY <1>1, <1>3 DEF n
    <2> QED
        BY <1>2, <1>4, <1>5, <2>1, SuccessKeeps
<1>8. /\ FirstsStay /\ ProcessedStays /\ ExcludedStay
      /\ \A f \in Files : DOMAIN map'[f] = DOMAIN map[f]
    BY <1>3, <1>7, PortionKeeps DEF n
<1>9. \A v \in DOMAIN m :
            /\ v \in Nat /\ m[v] \in Nat
            /\ v < start_vcn => k[v] = m[v] /\ m[v] < Base
            /\ v \in ch => k[v] \in target.lcn .. target.lcn + n - 1
    <2>1. \A v \in DOMAIN m : v \in Nat /\ m[v] \in Nat
        BY <1>2 DEF IsMap, Clusters
    <2>2. \A v \in DOMAIN m : v < start_vcn => k[v] = m[v]
        BY <1>8, <1>3 DEF ProcessedStays
    <2>3. \A v \in DOMAIN m : v < start_vcn => m[v] < Base
        BY <1>1 DEF Processed
    <2>4. \A v \in ch : k[v] \in target.lcn .. target.lcn + n - 1
        BY <1>7 DEF Shift
    <2> QED
        BY <2>1, <2>2, <2>3, <2>4
<1>10. DOMAIN k = DOMAIN m
    BY <1>2, <1>8
<1>11. \A v, w \in DOMAIN m : v < w /\ w < start_vcn => m[v] < m[w]
    BY <1>1 DEF Processed
<1>12. \A v, w \in ch : v < w => k[v] < k[w]
    BY <1>7 DEF Shift
<1>13. FirstVcn(k) < adv /\ to_process' = Cardinality(Later(k, adv))
    <2>1. FirstVcn(k) = FirstVcn(m) /\ Later(k, adv) = Later(m, adv)
        BY <1>10 DEF FirstVcn, Later
    <2>2. FirstVcn(m) \in Nat /\ FirstVcn(m) < start_vcn
        BY <1>1, <1>9
    <2>3. FirstVcn(m) < adv
        BY <1>2, <1>6, <2>2
    <2>4. to_process' = to_process - n /\ to_process = Cardinality(Later(m, start_vcn))
        BY <1>1, <1>3 DEF n
    <2> QED
        BY <1>6, <2>1, <2>3, <2>4
<1>14. Base' = target.lcn + n
    BY <1>3 DEF Base, n
<1> HIDE DEF m, k, ch, adv
<1>15. ASSUME NEW v \in DOMAIN k, v < adv
       PROVE  /\ k[v] < target.lcn + n
              /\ \A w \in DOMAIN k : w < v => k[w] < k[v]
    <2>1. CASE v < start_vcn
        <3>1. k[v] = m[v] /\ m[v] \in Nat /\ m[v] < Base
            BY <1>9, <1>10, <2>1
        <3>2. k[v] < target.lcn + n
            BY <1>1, <1>2, <1>5, <3>1
        <3>3. ASSUME NEW w \in DOMAIN k, w < v PROVE k[w] < k[v]
            <4>1. w < start_vcn
                BY <1>2, <1>9, <1>10, <2>1, <3>3
            <4> QED
                BY <1>9, <1>10, <1>11, <2>1, <3>1, <3>3, <4>1
        <3> QED
            BY <3>2, <3>3
    <2>2. CASE ~(v < start_vcn)
        <3>1. v \in ch
            BY <1>2, <1>6, <1>9, <1>10, <1>15, <2>2
        <3>2. k[v] \in target.lcn .. target.lcn + n - 1
            BY <1>9, <1>10, <3>1
        <3>3. ASSUME NEW w \in DOMAIN k, w < v PROVE k[w] < k[v]
            <4>1. CASE w < start_vcn
                <5>1. k[w] = m[w] /\ m[w] \in Nat /\ m[w] < Base
                    BY <1>9, <1>10, <4>1
                <5> QED
                    BY <1>1, <1>2, <1>5, <3>2, <5>1
            <4>2. CASE ~(w < start_vcn)
                <5>1. w < adv
                    BY <1>6, <1>9, <1>10, <1>15, <3>3
                <5>2. w \in ch
                    BY <1>2, <1>6, <1>9, <1>10, <4>2, <5>1
                <5> QED
                    BY <1>12, <3>1, <3>3, <5>2
            <4> QED
                BY <4>1, <4>2
        <3>4. k[v] < target.lcn + n
            BY <1>2, <1>5, <3>2
        <3> QED
            BY <3>3, <3>4
    <2> QED
        BY <2>1, <2>2
<1>16. Processed'
    <2>1. map'[file'] = k /\ start_vcn' = adv
        BY DEF Here, k, adv
    <2>2. \A v, w \in DOMAIN k : v < w /\ w < adv => k[v] < k[w]
        BY <1>15
    <2>3. \A v \in DOMAIN k : v < adv => k[v] < Base'
        BY <1>14, <1>15
    <2> QED
        BY <1>13, <2>1, <2>2, <2>3 DEF Processed
<1>17. FileTypes'
    <2>1. file_start_lcn' \in 0 .. NClusters
        BY <1>1, <1>2, <1>3
    <2>2. to_process' \in 0 .. NClusters
        BY <1>2, <1>3, <1>5 DEF n
    <2>3. start_vcn' \in Nat
        BY <1>6 DEF adv
    <2>4. to_process' # 0 => start_vcn' \in DOMAIN map'[file']
        <3>1. map'[file'] = k /\ start_vcn' = adv
            BY DEF Here, k, adv
        <3>2. to_process' = Cardinality(Later(m, adv))
            BY <1>1, <1>3, <1>6 DEF n, m
        <3> QED
            BY <1>6, <1>10, <3>1, <3>2
    <2> QED
        BY <1>1, <1>3, <2>1, <2>2, <2>3, <2>4 DEF FileTypes, Here, Room
<1>18. FileInv'
    BY <1>3, <1>16, <1>17 DEF FileInv
<1> QED
    BY <1>3, <1>4, <1>7, <1>8, <1>18 DEF FileKept

\* The routine gives up when the portion cannot be moved.
LEMMA PortionFailsKeeps ==
    ASSUME Ready, Here, file_pc = "move", File!PortionFails
    PROVE  FileKept
<1>1. /\ FileTypes /\ to_process # 0 /\ File!Portion \in Nat
      /\ target.lcn + File!Portion <= NClusters /\ Vacant(target.lcn, File!Portion)
    BY PortionIs DEF File!PortionFails
<1>2. file \in Files /\ target.lcn \in Nat /\ start_vcn \in Nat
    BY ReadyIs
<1>3. /\ target # File!NoTarget
      /\ MoveFails(file, start_vcn, File!Portion, target.lcn)
      /\ file_pc' = "done" /\ result' = IF stopped \/ to_process = 0 THEN 1 ELSE -1
      /\ UNCHANGED <<stopped, cleaning, file_start_lcn, start_vcn, to_process, file_end_lcn, to_cleanup,
                     target, region>>
    BY FileIsSame DEF File!PortionFails, File!Leave, File!place, File!round
<1>4. Sound /\ cleaning \in Cleaning
    BY ReadyIs DEF Ready
<1> HIDE DEF File!Portion
<1>5. /\ Sound' /\ fs' = fs
      /\ \E ch \in SUBSET Chain(map[file], start_vcn, File!Portion) :
            Shift(file, ch, target.lcn, File!Portion)
    BY <1>1, <1>2, <1>3, <1>4, FailsKeeps
<1>6. /\ FirstsStay /\ ProcessedStays /\ ExcludedStay
      /\ \A f \in Files : DOMAIN map'[f] = DOMAIN map[f]
    <2>1. PICK ch \in SUBSET Chain(map[file], start_vcn, File!Portion) :
                Shift(file, ch, target.lcn, File!Portion)
        BY <1>5
    <2> QED
        BY <1>3, <2>1, PortionKeeps
<1>7. FileTypes'
    BY <1>1, <1>2, <1>3, <1>6 DEF FileTypes, Here, Room
<1>8. FileInv'
    BY <1>1, <1>3, <1>7 DEF FileInv
<1> QED
    BY <1>3, <1>4, <1>5, <1>6, <1>8 DEF FileKept

\* The file stays as it is, but for what has got to the target.
LEMMA TryFurtherOnKeeps ==
    ASSUME Ready, Here, file_pc = "move", File!TryFurtherOn
    PROVE  FileKept
<1>1. /\ Processed /\ FileTypes /\ to_process # 0 /\ File!Portion \in Nat
      /\ target.lcn + File!Portion <= NClusters /\ Vacant(target.lcn, File!Portion)
      /\ Base \in Nat /\ Base <= target.lcn
    BY PortionIs DEF File!TryFurtherOn
<1>2. file \in Files /\ target.lcn \in Nat /\ start_vcn \in Nat /\ NClusters \in Nat
    BY ReadyIs
<1>3. /\ target # File!NoTarget
      /\ Partly(file, start_vcn, File!Portion, target.lcn)
      /\ failed' = failed \ {file} /\ file_pc' = "search"
      /\ file_start_lcn' = target.lcn + File!Portion
      /\ UNCHANGED <<stopped, cleaning, start_vcn, to_process, file_end_lcn, to_cleanup,
                     target, region, result>>
    BY FileIsSame DEF File!TryFurtherOn, File!round
<1>4. Sound /\ cleaning \in Cleaning
    BY ReadyIs DEF Ready
<1> HIDE DEF File!Portion
<1>5. failed' \cup stuck' \subseteq Files
    BY <1>3, <1>4 DEF Partly, Sound
<1>6. /\ Sound' /\ UNCHANGED <<fs, stuck>>
      /\ \E ch \in SUBSET Chain(map[file], start_vcn, File!Portion) :
            Shift(file, ch, target.lcn, File!Portion)
    BY <1>1, <1>2, <1>3, <1>4, <1>5, PartlyKeeps
<1>7. /\ FirstsStay /\ ProcessedStays /\ ExcludedStay
      /\ \A f \in Files : DOMAIN map'[f] = DOMAIN map[f]
    <2>1. PICK ch \in SUBSET Chain(map[file], start_vcn, File!Portion) :
                Shift(file, ch, target.lcn, File!Portion)
        BY <1>6
    <2> QED
        BY <1>3, <2>1, PortionKeeps
<1>8. Base' \in Nat /\ Base <= Base'
    BY <1>1, <1>2, <1>3 DEF Base
<1>9. Processed'
    BY <1>1, <1>3, <1>7, <1>8, ProcessedKept
<1>10. FileTypes'
    <2>1. file_start_lcn' \in 0 .. NClusters
        BY <1>1, <1>2, <1>3
    <2> QED
        BY <1>1, <1>2, <1>3, <1>7, <2>1 DEF FileTypes, Here, Room
<1>11. FileInv'
    BY <1>3, <1>9, <1>10 DEF FileInv
<1> QED
    BY <1>3, <1>4, <1>6, <1>7, <1>11 DEF FileKept

\* Every step of the optimization of a file.
LEMMA FileStepKeeps ==
    ASSUME Ready, File!Step
    PROVE  FileKept /\ Here
<1>1. Here
    BY DEF File!Step, Here
<1>2. CASE File!Refuse \/ File!Enter \/ File!Finish \/ File!SearchTarget
    BY <1>1, <1>2, RefuseKeeps, EnterKeeps, FinishKeeps, SearchTargetKeeps
<1>3. CASE File!StopCleaning \/ File!NothingToClean \/ File!MeetLocked \/ File!KeepPart \/ File!CleanBlock
    BY <1>1, <1>3, LeavesKeep, NothingToCleanKeeps, FileMeetLockedKeeps, KeepPartKeeps,
       CleanFileBlockKeeps
<1>4. CASE File!MoveBlock
    <2>1. file_pc = "cleanup"
        BY <1>4 DEF File!MoveBlock
    <2> QED
        BY <1>1, <1>4, <2>1, MovePieceKeeps, MoveLastPieceKeeps
<1>5. CASE File!BlockFails
    <2>1. file_pc = "cleanup"
        BY <1>5 DEF File!BlockFails
    <2> QED
        BY <1>1, <1>5, <2>1, BlockFailsKeeps
<1>6. CASE File!NoSpaceLeft \/ File!NoPlace
    BY <1>1, <1>6, LeavesKeep
<1>7. CASE File!MovePortion \/ File!PortionFails \/ File!TryFurtherOn
    <2>1. file_pc = "move"
        BY <1>7 DEF File!MovePortion, File!PortionFails, File!TryFurtherOn
    <2> QED
        BY <1>1, <1>7, <2>1, MovePortionKeeps, PortionFailsKeeps, TryFurtherOnKeeps
<1> QED
    BY <1>2, <1>3, <1>4, <1>5, <1>6, <1>7 DEF File!Step, File!Job

-----------------------------------------------------------------------------
(* The steps of the whole.                                                 *)

RestKept ==
    /\ File!Kept
    /\ \A f \in fixed : phase = "sort" \/ f \in excluded => map'[f] = map[f]
StepKept == IInv' /\ RestKept /\ Sorting!MovesDown

\* SortAtRest as a formula, to be used in the next state.
LEMMA SortRests == Sorting!AtRest => SortInv
BY SortAtRest

\* The moves of one routine end before the other begins.
LEMMA RestsAre ==
    ASSUME IInv
    PROVE  /\ phase # "file" => /\ file_pc = "idle" /\ file_start_lcn = 0 /\ start_vcn = 0
                                /\ file_end_lcn = 0 /\ to_process = 0 /\ to_cleanup = 0
                                /\ target = File!NoTarget /\ region = File!NoTarget /\ result = 0
           /\ phase # "sort" => Sorting!AtRest
BY DEF IInv, Frame, File!AtRest

\* Nothing is moved.
LEMMA NothingMoved ==
    ASSUME UNCHANGED map
    PROVE  RestKept
BY DEF RestKept, File!Kept

\* No file gets its place.
LEMMA NothingPlaced ==
    ASSUME UNCHANGED placed
    PROVE  Sorting!MovesDown
BY DEF Sorting!MovesDown

\* The routine begins with the next file.
LEMMA TakeFileKeeps ==
    ASSUME IInv, TakeFile
    PROVE  StepKept
<1>1. /\ phase = "files" /\ phase' = "file"
      /\ UNCHANGED <<fs, map, others, free, failed, stuck, stopped, cleaning, fixed, excluded>>
      /\ UNCHANGED sort_locals
    BY DEF TakeFile, volume, moves, disk
<1>2. PICK f \in fixed \ excluded : File!Call(f)
    BY DEF TakeFile
<1>3. /\ file_pc' = "enter" /\ file' = f
      /\ UNCHANGED <<file_start_lcn, start_vcn, to_process, file_end_lcn, to_cleanup, target, region, result>>
    BY <1>2 DEF File!Call, File!place, File!round
<1>4. /\ file_start_lcn = 0 /\ start_vcn = 0 /\ file_end_lcn = 0 /\ to_process = 0 /\ to_cleanup = 0
      /\ target = File!NoTarget /\ region = File!NoTarget /\ result = 0 /\ Sorting!AtRest
    BY <1>1, RestsAre
<1>5. FileTypes'
    <2>1. 0 \in 0 .. NClusters /\ File!NoTarget \in Room
        BY VolumeAssumption DEF File!NoTarget, Room
    <2> QED
        BY <1>1, <1>2, <1>3, <1>4, <2>1 DEF FileTypes, Room
<1>6. FileInv'
    BY <1>3, <1>5 DEF FileInv
<1>7. Sorting!AtRest'
    BY <1>1, <1>4 DEF Sorting!AtRest, sort_locals
<1>8. SortInv'
    <2>1. (Sorting!AtRest => SortInv)'
        BY SortRests, PTL
    <2> QED
        BY <1>7, <2>1
<1>9. Sound' /\ Frame'
    BY <1>1, <1>7 DEF IInv, Sound, Frame
<1>10. RestKept /\ Sorting!MovesDown
    BY <1>1, NothingMoved, NothingPlaced DEF sort_locals
<1> QED
    BY <1>6, <1>8, <1>9, <1>10 DEF StepKept, IInv

\* One routine ends, another one may begin.
LEMMA RestingKeeps ==
    ASSUME IInv, PassFile \/ FileDone \/ LeaveFiles
    PROVE  StepKept
<1>1. /\ phase \in {"files", "file"} /\ phase' \in {"files", "sort"}
      /\ phase' = "sort" => excluded' = {}
      /\ UNCHANGED <<fs, map, others, free, failed, stuck, stopped, cleaning, fixed>>
      /\ UNCHANGED sort_locals
    BY DEF PassFile, FileDone, LeaveFiles, volume, moves, disk
<1>2. File!AtRest'
    <2>1. CASE FileDone
        BY <2>1 DEF FileDone, File!Return, File!AtRest
    <2>2. CASE PassFile \/ LeaveFiles
        <3>1. File!AtRest /\ UNCHANGED file_locals
            BY <2>2 DEF PassFile, LeaveFiles, IInv, Frame
        <3> QED
            BY <3>1 DEF File!AtRest, file_locals
    <2> QED
        BY <2>1, <2>2
<1>3. Sorting!AtRest'
    BY <1>1, RestsAre DEF Sorting!AtRest, sort_locals
<1>4. SortInv'
    <2>1. (Sorting!AtRest => SortInv)'
        BY SortRests, PTL
    <2> QED
        BY <1>3, <2>1
<1>5. Sound' /\ Frame'
    BY <1>1, <1>2, <1>3 DEF IInv, Sound, Frame
<1>6. RestKept /\ Sorting!MovesDown
    BY <1>1, NothingMoved, NothingPlaced DEF sort_locals
<1>7. phase' # "file"
    BY <1>1
<1> QED
    BY <1>4, <1>5, <1>6, <1>7 DEF StepKept, IInv

\* A job may be stopped at any time.
LEMMA StopJobKeeps ==
    ASSUME IInv, StopJob
    PROVE  StepKept
<1>1. stopped' = TRUE
    BY DEF StopJob, Stop
<1>2. /\ UNCHANGED <<fs, map, others, free, failed, stuck, cleaning, fixed, excluded, phase>>
      /\ UNCHANGED file_locals /\ UNCHANGED sort_locals
    BY DEF StopJob, moves, disk
<1>3. Sound' /\ Frame'
    <2>1. File!AtRest' = File!AtRest /\ Sorting!AtRest' = Sorting!AtRest
        BY <1>2 DEF File!AtRest, Sorting!AtRest, file_locals, sort_locals
    <2> QED
        BY <1>2, <2>1 DEF IInv, Sound, Frame
<1>4. phase' = "file" => FileInv'
    BY <1>1, <1>2 DEF IInv, FileInv, FileTypes, Room, Processed, Prepared, BlockLeft, Base, CleanedUp,
        Asked, Gone, Later, Vacant, file_locals
<1>5. SortInv'
    BY <1>1, <1>2 DEF IInv, SortInv, SortTypes, SortOrder, SortBlock, Cleared, Entire, CanMove, Lcn,
        sort_locals
<1>6. RestKept /\ Sorting!MovesDown
    BY <1>2, NothingMoved, NothingPlaced DEF sort_locals
<1> QED
    BY <1>3, <1>4, <1>5, <1>6 DEF StepKept, IInv

\* Nothing happens.
LEMMA StutterKeeps ==
    ASSUME IInv, UNCHANGED vars
    PROVE  StepKept
<1>1. /\ UNCHANGED <<fs, map, others, free, failed, stuck, stopped, cleaning, fixed, excluded, phase>>
      /\ UNCHANGED file_locals /\ UNCHANGED sort_locals
    BY DEF vars, volume, moves, disk
<1>2. Sound' /\ Frame'
    <2>1. File!AtRest' = File!AtRest /\ Sorting!AtRest' = Sorting!AtRest
        BY <1>1 DEF File!AtRest, Sorting!AtRest, file_locals, sort_locals
    <2> QED
        BY <1>1, <2>1 DEF IInv, Sound, Frame
<1>3. phase' = "file" => FileInv'
    BY <1>1 DEF IInv, FileInv, FileTypes, Room, Processed, Prepared, BlockLeft, Base, CleanedUp,
        Asked, Gone, Later, Vacant, InFileOrder, file_locals
<1>4. SortInv'
    BY <1>1 DEF IInv, SortInv, SortTypes, SortOrder, SortBlock, Cleared, Entire, CanMove, Lcn,
        sort_locals
<1>5. RestKept /\ Sorting!MovesDown
    BY <1>1, NothingMoved, NothingPlaced DEF sort_locals
<1> QED
    BY <1>2, <1>3, <1>4, <1>5 DEF StepKept, IInv

\* A step of the optimization of a file.
LEMMA ProcessFileKeeps ==
    ASSUME IInv, ProcessFile
    PROVE  StepKept
<1>1. /\ phase = "file" /\ phase' = "file" /\ File!Step
      /\ UNCHANGED sort_locals
    BY DEF ProcessFile
<1>2. Ready
    BY <1>1 DEF IInv, Ready
<1>3. FileKept /\ Here
    BY <1>1, <1>2, FileStepKeeps
<1>4. Sorting!AtRest'
    BY <1>1, RestsAre DEF Sorting!AtRest, sort_locals
<1>5. SortInv'
    <2>1. (Sorting!AtRest => SortInv)'
        BY SortRests, PTL
    <2> QED
        BY <1>4, <2>1
<1>6. Sound' /\ FileInv' /\ Frame'
    BY <1>1, <1>3, <1>4 DEF FileKept, Here, IInv, Frame
<1>7. File!Kept
    BY <1>3, FileIsSame DEF FileKept, FirstsStay, ProcessedStays, File!Kept
<1>8. RestKept
    BY <1>1, <1>3, <1>7 DEF RestKept, FileKept, ExcludedStay
<1>9. Sorting!MovesDown
    BY <1>1, NothingPlaced DEF sort_locals
<1> QED
    BY <1>5, <1>6, <1>8, <1>9 DEF StepKept, IInv

\* A step of the sorting.
LEMMA SortKeeps ==
    ASSUME IInv, Sort
    PROVE  StepKept
<1>1. /\ phase = "sort" /\ phase' = "sort" /\ Sorting!Step /\ UNCHANGED file_locals
    BY DEF Sort
<1>2. Sound /\ fixed \subseteq Files /\ cleaning \in Cleaning /\ SortInv
    BY DEF IInv, Frame
<1>3. SortKept /\ UNCHANGED <<fixed, excluded>>
    BY <1>1, <1>2, SortStepKeeps
<1>4. Frame'
    <2>1. File!AtRest'
        BY <1>1 DEF IInv, Frame, File!AtRest, file_locals
    <2> QED
        BY <1>1, <1>3, <2>1 DEF IInv, Frame, SortKept
<1>5. File!Kept
    <2>1. file_pc = "idle"
        BY <1>1, RestsAre
    <2> QED
        BY <1>3, <2>1 DEF SortKept, File!Kept
<1>6. RestKept
    BY <1>3, <1>5 DEF RestKept, SortKept
<1>7. ASSUME NEW f \in placed' \ placed, NEW v \in DOMAIN map[f]
      PROVE  Sorting!Lcn(f)' < map[f][v]
    <2>1. map'[f][FirstVcn(map'[f])] < map[f][v]
        BY <1>3, <1>7 DEF SortKept
    <2>2. Sorting!Lcn(f)' = map'[f][FirstVcn(map'[f])]
        BY SortingIsSame DEF Sorting!Lcn
    <2> QED
        BY <2>1, <2>2
<1>8. Sorting!MovesDown
    BY <1>7 DEF Sorting!MovesDown
<1> QED
    BY <1>1, <1>3, <1>4, <1>6, <1>8 DEF StepKept, IInv, SortKept

\* Every step.
LEMMA NextKeeps ==
    ASSUME IInv, [Next]_vars
    PROVE  StepKept
<1>1. CASE Job
    BY <1>1, TakeFileKeeps, RestingKeeps, ProcessFileKeeps, SortKeeps DEF Job
<1>2. CASE StopJob
    BY <1>2, StopJobKeeps
<1>3. CASE Done \/ UNCHANGED vars
    BY <1>3, StutterKeeps DEF Done
<1> QED
    BY <1>1, <1>2, <1>3 DEF Next

\* The inductive invariant.
LEMMA Invariance == Spec => []IInv
<1>1. Init => IInv
    BY InitHolds
<1>2. IInv /\ [Next]_vars => IInv'
    BY NextKeeps DEF StepKept
<1> QED
    BY <1>1, <1>2, PTL DEF Spec

\* What it implies of the routine for a file.
LEMMA FileTyped ==
    ASSUME IInv
    PROVE  File!TypeOK /\ File!InOrder
<1>1. FilesApart /\ failed \cup stuck \subseteq Files
    BY ApartIs DEF IInv, Sound
<1>2. CASE phase = "file"
    <2>1. Ready /\ FileTypes
        BY <1>2 DEF IInv, Ready, FileInv
    <2>2. target.lcn + target.length <= NClusters /\ region.lcn + region.length <= NClusters
        BY <2>1, ReadyIs
    <2>3. File!TypeOK
        BY <1>1, <2>1, <2>2, FileIsSame DEF File!TypeOK, FileTypes
    <2>4. File!InOrder
        BY <1>2 DEF IInv, FileInv, InFileOrder, File!InOrder
    <2> QED
        BY <2>3, <2>4
<1>3. CASE phase # "file"
    <2>1. /\ file_pc = "idle" /\ file_start_lcn = 0 /\ start_vcn = 0
          /\ file_end_lcn = 0 /\ to_process = 0 /\ to_cleanup = 0
          /\ target = File!NoTarget /\ region = File!NoTarget /\ result = 0
        BY <1>3, RestsAre
    <2>2. 0 \in 0 .. NClusters /\ 0 + 0 <= NClusters
        BY VolumeAssumption
    <2>3. target.lcn + target.length <= NClusters /\ region.lcn + region.length <= NClusters
        BY <2>1, <2>2 DEF File!NoTarget
    <2>4. File!TypeOK
        BY <1>1, <2>1, <2>2, <2>3, FileIsSame DEF File!TypeOK
    <2>5. File!InOrder
        BY <2>1 DEF File!InOrder
    <2> QED
        BY <2>4, <2>5
<1> QED
    BY <1>2, <1>3

\* What it implies of the sorting.
LEMMA SortTyped ==
    ASSUME IInv
    PROVE  Sorting!TypeOK /\ Sorting!Sorted
<1>1. FilesApart /\ failed \cup stuck \subseteq Files
    BY ApartIs DEF IInv, Sound
<1>2. SortTypes /\ cleaning \in Cleaning
    BY DEF IInv, SortInv, Frame
<1>3. Sorting!TypeOK
    BY <1>1, <1>2, SortingIsSame DEF Sorting!TypeOK, SortTypes, Cleaning
<1>4. Sorting!Sorted
    BY SortingIsSame, SortLcnIs DEF IInv, SortInv, SortOrder, Sorting!Sorted
<1> QED
    BY <1>3, <1>4

-----------------------------------------------------------------------------
(* What the optimization promises.                                         *)

\* No file is ever placed upon another one, wherever the targets come from and
\* whatever fails; and when optimize_file reports success, the clusters of the
\* file follow each other in its order.
THEOREM FilesGetInOrder == Spec => []InOrder
<1>1. IInv => InOrder
    BY FileTyped, SortTyped DEF InOrder, TypeOK
<1> QED
    BY <1>1, Invariance, PTL

\* A file which has been sorted in lies behind the small files which come
\* before it, over all passes.
THEOREM PlacementStaysSorted == Spec => []SortedPlacement
<1>1. IInv => SortedPlacement
    BY SortTyped DEF SortedPlacement
<1> QED
    BY <1>1, Invariance, PTL

\* No step moves the first clusters of the MFT or of a directory on FAT, what
\* has been processed of the file, or a directory which is done.
THEOREM WhatMustStayStays == Spec => RestStays
<1> DEFINE Stay == /\ File!Kept
                   /\ \A f \in fixed : phase = "sort" \/ f \in excluded => map'[f] = map[f]
<1>1. IInv /\ [Next]_vars => [Stay]_vars
    BY NextKeeps DEF StepKept, RestKept
<1> HIDE DEF Stay
<1>2. Spec => [][Stay]_vars
    BY <1>1, Invariance, PTL DEF Spec
<1> QED
    BY <1>2 DEF RestStays, Stay

\* What is moved to the front gets nearer to the beginning of the disk than any
\* of its clusters has been.
THEOREM PlacedFilesMoveDown == Spec => FrontMovesDown
<1>1. IInv /\ [Next]_vars => [Sorting!MovesDown]_vars
    BY NextKeeps DEF StepKept
<1> QED
    BY <1>1, Invariance, PTL DEF Spec, FrontMovesDown
=============================================================================
