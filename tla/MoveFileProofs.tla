---------------------------- MODULE MoveFileProofs ----------------------------
(***************************************************************************)
(* Proofs about MoveFile and ClusterMap, for every volume, layout, request *)
(* and size of the map: type correctness, the safety of the engine's view  *)
(* of the disk, the statistics and the cluster map.                        *)
(***************************************************************************)
EXTENDS ClusterMap, FiniteSetTheorems, NaturalsInduction, WellFoundedInduction, TLAPS

-----------------------------------------------------------------------------
(* Cardinalities: of subsets, of differences, of ranks.                    *)

\* Taking a subset away leaves the difference of the cardinalities.
LEMMA SplitCardinality ==
  ASSUME NEW S, IsFiniteSet(S), NEW T \in SUBSET S
  PROVE  /\ IsFiniteSet(T) /\ IsFiniteSet(S \ T)
         /\ Cardinality(T) \in Nat /\ Cardinality(S \ T) \in Nat
         /\ Cardinality(S) = Cardinality(T) + Cardinality(S \ T)
<1>1. IsFiniteSet(T) /\ IsFiniteSet(S \ T)
  BY FS_Subset
<1>2. Cardinality(T \cup (S \ T)) =
        Cardinality(T) + Cardinality(S \ T) - Cardinality(T \cap (S \ T))
  BY <1>1, FS_Union
<1>3. T \cup (S \ T) = S /\ T \cap (S \ T) = {}
  OBVIOUS
<1>4. Cardinality(T) \in Nat /\ Cardinality(S \ T) \in Nat
  BY <1>1, FS_CardinalityType
<1>5. Cardinality(S) = Cardinality(T) + Cardinality(S \ T) - 0
  BY <1>2, <1>3, FS_EmptySet
<1> QED
  BY <1>1, <1>4, <1>5

\* The rank of a VCN in a file, seen from v, is a natural number and grows
\* from one cluster of the file to a later one.
LEMMA RankType ==
  ASSUME NEW m, IsFiniteSet(DOMAIN m), NEW v, NEW u
  PROVE  Rank(m, v, u) \in Nat
BY FS_Subset, FS_CardinalityType DEF Rank

LEMMA RankGrows ==
  ASSUME NEW m, IsFiniteSet(DOMAIN m), DOMAIN m \subseteq Nat, NEW v \in Int,
         NEW u \in DOMAIN m, NEW w \in DOMAIN m, v <= u, u < w
  PROVE  Rank(m, v, u) < Rank(m, v, w)
<1> DEFINE Below(x) == {y \in DOMAIN m : v <= y /\ y < x}
<1>1. IsFiniteSet(Below(w)) /\ IsFiniteSet(Below(u))
  BY FS_Subset
<1>2. Below(u) \in SUBSET Below(w) /\ u \in Below(w) /\ u \notin Below(u)
  OBVIOUS
<1>3. Cardinality(Below(u)) \in Nat /\ Cardinality(Below(w)) \in Nat
  BY <1>1, FS_CardinalityType
<1>4. Cardinality(Below(u)) <= Cardinality(Below(w))
  BY <1>1, <1>2, FS_Subset
<1>5. Cardinality(Below(u)) # Cardinality(Below(w))
  BY <1>1, <1>2, FS_Subset
<1> QED
  BY <1>3, <1>4, <1>5 DEF Rank

LEMMA RankInjective ==
  ASSUME NEW m, IsFiniteSet(DOMAIN m), DOMAIN m \subseteq Nat, NEW v \in Int,
         NEW u \in DOMAIN m, NEW w \in DOMAIN m, v <= u, v <= w,
         Rank(m, v, u) = Rank(m, v, w)
  PROVE  u = w
<1>1. ~(u < w) /\ ~(w < u)
  BY RankGrows, RankType
<1> QED
  BY <1>1

\* A chain of n clusters has at most n clusters.
LEMMA ChainBounded ==
  ASSUME NEW m, IsFiniteSet(DOMAIN m), DOMAIN m \subseteq Nat, NEW v \in Int, NEW n \in Nat
  PROVE  /\ IsFiniteSet(Chain(m, v, n))
         /\ Cardinality(Chain(m, v, n)) \in Nat
         /\ Cardinality(Chain(m, v, n)) <= n
<1> DEFINE C == Chain(m, v, n)
           rank == [u \in C |-> Rank(m, v, u)]
<1>1. C \subseteq DOMAIN m /\ \A u \in C : v <= u /\ Rank(m, v, u) \in 0 .. n - 1
  BY RankType DEF Chain
<1>2. IsFiniteSet(C) /\ Cardinality(C) \in Nat
  BY <1>1, FS_Subset, FS_CardinalityType
<1>3. rank \in Injection(C, 0 .. n - 1)
  BY <1>1, RankInjective DEF Injection, IsInjective
<1>4. IsFiniteSet(0 .. n - 1) /\ Cardinality(0 .. n - 1) = n
  BY FS_Interval
<1> QED
  BY <1>2, <1>3, <1>4, FS_Injection

-----------------------------------------------------------------------------
(* What a move does to a map, on the disk and in the desired disposition.  *)

\* The clusters of a chain fit into a target of its length.
LEMMA ChainFits ==
  ASSUME NEW m, IsFiniteSet(DOMAIN m), DOMAIN m \subseteq Nat, NEW v \in Int, NEW n \in Nat,
         NEW t \in Nat, NEW u \in Chain(m, v, n)
  PROVE  u \in DOMAIN m /\ v <= u /\ t + Rank(m, v, u) \in t .. t + n - 1
BY RankType DEF Chain

\* Sending some clusters of a file map to fresh places keeps it a file map.
LEMMA RelocationIsFileMap ==
  ASSUME NEW m, IsFileMap(m), NEW M \in SUBSET DOMAIN m,
         NEW to \in [M -> Clusters \ ClustersOf(m)],
         \A u, w \in M : to[u] = to[w] => u = w
  PROVE  IsFileMap([u \in DOMAIN m |-> IF u \in M THEN to[u] ELSE m[u]])
<1> DEFINE r == [u \in DOMAIN m |-> IF u \in M THEN to[u] ELSE m[u]]
<1>1. DOMAIN r = DOMAIN m
  OBVIOUS
<1>2. \A v \in DOMAIN r : r[v] \in Clusters
  BY DEF IsFileMap
<1>3. ASSUME NEW v \in DOMAIN m, NEW w \in DOMAIN m, r[v] = r[w]
      PROVE  v = w
  <2>1. m[v] \in ClustersOf(m) /\ m[w] \in ClustersOf(m)
    BY DEF ClustersOf
  <2> QED
    BY <1>3, <2>1 DEF IsFileMap
<1> QED
  BY <1>1, <1>2, <1>3 DEF IsFileMap

\* The desired disposition has the same VCNs and stays on the volume; if the
\* target is not part of the file it is a file map that avoids the clusters
\* the chain leaves.
LEMMA DesiredType ==
  ASSUME NEW m, IsFiniteSet(DOMAIN m), DOMAIN m \subseteq Nat,
         \A u \in DOMAIN m : m[u] \in Clusters, NClusters \in Nat,
         NEW v \in Int, NEW n \in Nat, NEW t \in Nat, t + n <= NClusters
  PROVE  Desired(m, v, n, t) \in [DOMAIN m -> Clusters]
<1>1. ASSUME NEW u \in Chain(m, v, n)
      PROVE  t + Rank(m, v, u) \in Clusters
  BY ChainFits DEF Clusters
<1> QED
  BY <1>1 DEF Desired

LEMMA DesiredIsFileMap ==
  ASSUME NEW m, IsFileMap(m), NClusters \in Nat,
         NEW v \in Int, NEW n \in Nat, NEW t \in Nat, t + n <= NClusters,
         (t .. t + n - 1) \cap ClustersOf(m) = {}
  PROVE  /\ IsFileMap(Desired(m, v, n, t))
         /\ ClustersOf(Desired(m, v, n, t)) \subseteq
              (ClustersOf(m) \ {m[u] : u \in Chain(m, v, n)}) \cup (t .. t + n - 1)
<1> DEFINE C == Chain(m, v, n)
           to == [u \in C |-> t + Rank(m, v, u)]
           d == Desired(m, v, n, t)
<1>0. IsFiniteSet(DOMAIN m) /\ DOMAIN m \subseteq Nat
  BY DEF IsFileMap
<1>1. C \in SUBSET DOMAIN m /\ \A u \in C : v <= u /\ to[u] \in t .. t + n - 1
  BY <1>0, ChainFits
<1>2. to \in [C -> Clusters \ ClustersOf(m)]
  BY <1>1 DEF Clusters
<1>3. ASSUME NEW u \in C, NEW w \in C, to[u] = to[w]
      PROVE  u = w
  <2>1. Rank(m, v, u) = Rank(m, v, w)
    BY <1>0, <1>3, RankType
  <2> QED
    BY <1>0, <1>1, <2>1, RankInjective
<1>4. d = [u \in DOMAIN m |-> IF u \in C THEN to[u] ELSE m[u]]
  BY DEF Desired
<1>5. IsFileMap(d)
  <2> HIDE DEF C, to, d
  <2> QED
    BY <1>1, <1>2, <1>3, <1>4, RelocationIsFileMap
<1>6. ASSUME NEW c \in ClustersOf(d)
      PROVE  c \in (ClustersOf(m) \ {m[u] : u \in C}) \cup (t .. t + n - 1)
  <2>1. PICK w \in DOMAIN m : c = d[w]
    BY <1>4, <1>6 DEF ClustersOf
  <2>2. CASE w \in C
    BY <1>1, <1>4, <2>1, <2>2
  <2>3. CASE w \notin C
    BY <1>1, <1>4, <2>1, <2>3 DEF IsFileMap, ClustersOf
  <2> QED
    BY <2>2, <2>3
<1> QED
  BY <1>5, <1>6

-----------------------------------------------------------------------------
(* Type correctness, with what a move in progress keeps true of itself.    *)

\* The request of the running move was accepted, its chain is what is left
\* to hand over, and no two files share a cluster of the disk.
RequestSound ==
    /\ pc # "idle" => req.target + req.length <= NClusters
    /\ todo \subseteq Chain(map[Moving], req.vcn, req.length)
    /\ pc # "moving" => todo = {}

DiskSound ==
    /\ Disjoint(real)
    /\ fs # "NTFS" => temp = {}

Structure == TypeOK /\ RequestSound /\ DiskSound

\* A file map has a finite set of VCNs and the number of its fragments and
\* of its clusters are natural numbers.
LEMMA FileMapFinite ==
  ASSUME NEW m, IsFileMap(m)
  PROVE  /\ IsFiniteSet(DOMAIN m) /\ DOMAIN m \subseteq Nat
         /\ Size(m) \in Nat /\ Fragments(m) \in Nat
<1>1. IsFiniteSet(DOMAIN m) /\ DOMAIN m \subseteq Nat
  BY DEF IsFileMap
<1>2. Starts(m) \in SUBSET DOMAIN m
  BY DEF Starts
<1> QED
  BY <1>1, <1>2, FS_Subset, FS_CardinalityType DEF Size, Fragments

\* What Structure says of the map of the view.
LEMMA ViewTyped ==
  ASSUME TypeOK, NEW f \in Files
  PROVE  /\ DOMAIN map[f] = DOMAIN real[f]
         /\ IsFiniteSet(DOMAIN map[f]) /\ DOMAIN map[f] \subseteq Nat
         /\ \A u \in DOMAIN map[f] : map[f][u] \in Clusters
         /\ Size(map[f]) \in Nat /\ Fragments(map[f]) \in Nat
<1>1. /\ DOMAIN map[f] = DOMAIN real[f] /\ IsFileMap(real[f])
      /\ \A u \in DOMAIN map[f] : map[f][u] \in Clusters
  BY DEF TypeOK
<1>2. IsFiniteSet(DOMAIN map[f]) /\ DOMAIN map[f] \subseteq Nat
  BY <1>1 DEF IsFileMap
<1>3. Starts(map[f]) \in SUBSET DOMAIN map[f]
  BY DEF Starts
<1> QED
  BY <1>1, <1>2, <1>3, FS_Subset, FS_CardinalityType DEF Size, Fragments

\* The clusters a portion is sent to lie in the target of the request.
LEMMA DestSound ==
  ASSUME Structure, pc # "idle", NEW u \in todo
  PROVE  /\ u \in DOMAIN map[Moving] /\ req.vcn <= u
         /\ Dest(u) \in Target /\ Dest(u) \in Clusters
<1>1. Moving \in Files /\ req.vcn \in Nat /\ req.length \in Nat /\ req.target \in Nat
  BY DEF Structure, TypeOK, Moving
<1>2. u \in Chain(map[Moving], req.vcn, req.length)
  BY DEF Structure, RequestSound
<1>3. u \in DOMAIN map[Moving] /\ req.vcn <= u /\ Dest(u) \in Target
  BY <1>1, <1>2, ViewTyped, ChainFits DEF Structure, Dest, Target
<1>4. req.target + req.length <= NClusters /\ NClusters \in Nat
  BY ConstantsAssumption DEF Structure, RequestSound
<1> QED
  BY <1>1, <1>3, <1>4 DEF Target, Clusters

\* Windows moves part of the chain: the disk stays sound, no other file is
\* touched, and the file occupies fresh clusters inside the target only.
LEMMA RelocateSound ==
  ASSUME Structure, pc = "moving", NEW M \in SUBSET todo, Relocate(M)
  PROVE  /\ DOMAIN real' = Files
         /\ \A f \in Files : IsFileMap(real'[f]) /\ DOMAIN real'[f] = DOMAIN real[f]
         /\ \A f \in Files : f # Moving => real'[f] = real[f]
         /\ Disjoint(real')
         /\ OccupiedBy(real') \subseteq OccupiedBy(real) \cup Target
         /\ temp' \subseteq temp \cup OccupiedBy(real)
         /\ fs # "NTFS" => temp' = temp
         /\ temp' \subseteq Clusters /\ used' = used
<1> DEFINE old == real[Moving]
           to == [u \in M |-> Dest(u)]
           new == [u \in DOMAIN old |-> IF u \in M THEN to[u] ELSE old[u]]
<1>1. Moving \in Files /\ DOMAIN real = Files /\ IsFileMap(old)
  BY DEF Structure, TypeOK, Moving
<1>2. M \subseteq DOMAIN old
  BY <1>1, DestSound, ViewTyped DEF Structure
<1>3. real' = [real EXCEPT ![Moving] = new]
  BY <1>1 DEF Relocate
<1>4. /\ DOMAIN real' = Files /\ real'[Moving] = new
      /\ \A f \in Files : f # Moving => real'[f] = real[f]
  BY <1>1, <1>3
<1>5. \A u \in M : Dest(u) \in Clusters /\ Dest(u) \in Target /\ Dest(u) \notin OccupiedBy(real)
  BY DestSound DEF Relocate, ReallyFree
<1>6. \A f \in Files : ClustersOf(real[f]) \subseteq OccupiedBy(real)
  BY DEF OccupiedBy
<1>7. to \in [M -> Clusters \ ClustersOf(old)]
  BY <1>1, <1>5, <1>6
<1>8. ASSUME NEW u \in M, NEW w \in M, to[u] = to[w]
      PROVE  u = w
  <2>1. /\ u \in DOMAIN map[Moving] /\ req.vcn <= u
        /\ w \in DOMAIN map[Moving] /\ req.vcn <= w
    BY DestSound
  <2>2. req.target \in Nat /\ req.vcn \in Int
    BY DEF Structure, TypeOK
  <2>3. IsFiniteSet(DOMAIN map[Moving]) /\ DOMAIN map[Moving] \subseteq Nat
    BY <1>1, ViewTyped DEF Structure
  <2>4. Rank(map[Moving], req.vcn, u) = Rank(map[Moving], req.vcn, w)
    BY <1>8, <2>2, <2>3, RankType DEF Dest
  <2> QED
    BY <2>1, <2>2, <2>3, <2>4, RankInjective
<1>9. IsFileMap(new) /\ DOMAIN new = DOMAIN old
  <2> HIDE DEF to, old
  <2> QED
    BY <1>1, <1>2, <1>7, <1>8, RelocationIsFileMap
<1>10. ClustersOf(new) \subseteq ClustersOf(old) \cup {Dest(u) : u \in M}
  BY DEF ClustersOf
<1>11. \A f \in Files : IsFileMap(real'[f]) /\ DOMAIN real'[f] = DOMAIN real[f]
  BY <1>4, <1>9 DEF Structure, TypeOK
<1>12. \A f \in Files : f # Moving => ClustersOf(new) \cap ClustersOf(real[f]) = {}
  BY <1>1, <1>5, <1>6, <1>10 DEF Structure, DiskSound, Disjoint
<1>13. Disjoint(real')
  BY <1>4, <1>12 DEF Structure, DiskSound, Disjoint
<1>14. OccupiedBy(real') \subseteq OccupiedBy(real) \cup Target
  BY <1>1, <1>4, <1>5, <1>6, <1>10 DEF OccupiedBy
<1>15. {old[u] : u \in M} \subseteq ClustersOf(old) /\ ClustersOf(old) \subseteq Clusters
  BY <1>1, <1>2 DEF ClustersOf, IsFileMap
<1>16. /\ temp' \subseteq temp \cup OccupiedBy(real) /\ (fs # "NTFS" => temp' = temp)
       /\ temp' \subseteq Clusters /\ used' = used
  BY <1>1, <1>6, <1>15 DEF Relocate, Structure, TypeOK
<1> QED
  BY <1>4, <1>11, <1>13, <1>14, <1>16

\* The analysis establishes it.
LEMMA InitStructure ==
  ASSUME Init
  PROVE  Structure
<1>1. /\ DOMAIN real = Files /\ \A f \in Files : IsFileMap(real[f])
      /\ Disjoint(real) /\ map = real
  BY LayoutsAssumption DEF Init
<1>2. \A f \in Files : /\ map[f] \in [DOMAIN real[f] -> Clusters]
                       /\ Fragments(real[f]) \in Nat
  BY <1>1, FileMapFinite DEF IsFileMap
<1>3. NoReq \in [file : Files, vcn : Nat, length : Nat, target : Nat]
  BY ConstantsAssumption DEF NoReq
<1>4. listed \subseteq Nat \X Files
  BY <1>2 DEF Init
<1>5. flags \in [Files -> SUBSET Flags]
  BY DEF Init, Flags
<1>6. free \subseteq Clusters /\ DOMAIN pi = Counters
  BY DEF Init, ReallyFree
<1>7. TypeOK
  BY <1>1, <1>2, <1>3, <1>4, <1>5, <1>6 DEF Init, TypeOK, NoReq
<1>8. RequestSound /\ DiskSound
  BY <1>1 DEF Init, RequestSound, DiskSound
<1> QED
  BY <1>7, <1>8 DEF Structure

\* Handing clusters over keeps the counts of the helper natural numbers.
LEMMA ContinueSound ==
  ASSUME Structure, pc = "moving", NEW rest \in SUBSET todo, NEW unprocessed \in Nat,
         NEW counted \in Nat, Continue(rest, unprocessed, counted)
  PROVE  /\ todo' \subseteq todo /\ (pc' # "moving" => todo' = {})
         /\ pc' \in {"moving", "redump"}
         /\ left' \in Nat /\ processed' \in Nat
<1>1. processed \in Nat
  BY DEF Structure, TypeOK
<1>2. pc' = (IF rest = {} THEN "redump" ELSE "moving") /\ todo' = rest
  BY DEF Continue
<1>3. left' = unprocessed
      /\ processed' = processed + counted + IF rest = {} THEN unprocessed ELSE 0
  BY DEF Continue
<1> QED
  BY <1>1, <1>2, <1>3

\* The parts of the chain a single call works on.
LEMMA GroupSound ==
  ASSUME Structure, pc # "idle"
  PROVE  /\ IsFiniteSet(todo) /\ IsFiniteSet(Group) /\ IsFiniteSet(Portion)
         /\ Portion \subseteq Group /\ Group \subseteq todo
         /\ Cardinality(Group) \in Nat /\ Cardinality(Portion) \in Nat
         /\ Cardinality(todo) \in Nat /\ Cardinality(todo \ Group) \in Nat
         /\ Short \in Nat
<1>1. Moving \in Files /\ req.vcn \in Int /\ req.length \in Nat
  BY DEF Structure, TypeOK, Moving
<1>2. IsFiniteSet(DOMAIN map[Moving]) /\ DOMAIN map[Moving] \subseteq Nat
  BY <1>1, ViewTyped DEF Structure
<1>3. Short \in Nat
  BY <1>1, <1>2, ChainBounded DEF Short
<1>4. IsFiniteSet(todo)
  BY <1>2, FS_Subset DEF Structure, TypeOK, Moving
<1>5. Group \in SUBSET todo /\ Portion \in SUBSET Group
  BY DEF Group, Portion
<1>6. IsFiniteSet(Group) /\ IsFiniteSet(Portion) /\ IsFiniteSet(todo \ Group)
  BY <1>4, <1>5, FS_Subset
<1> QED
  BY <1>3, <1>4, <1>5, <1>6, FS_CardinalityType

\* The common tail of move_file keeps the types whatever map it is given.
LEMMA UpdateSound ==
  ASSUME Structure, pc = "redump", NEW m \in [DOMAIN real[Moving] -> Clusters],
         NEW partial \in BOOLEAN, Update(m, partial), Return, doubt' \in BOOLEAN
  PROVE  Structure'
<1>1. Moving \in Files /\ Moving = req.file /\ IsFileMap(real[Moving])
  BY DEF Structure, TypeOK, Moving
<1>2. Fragments(m) \in Nat
  <2>1. Starts(m) \in SUBSET DOMAIN m /\ IsFiniteSet(DOMAIN m)
    BY <1>1 DEF Starts, IsFileMap
  <2> QED
    BY <2>1, FS_Subset, FS_CardinalityType DEF Fragments
<1>3. DOMAIN map' = Files /\ \A f \in Files : map'[f] \in [DOMAIN real[f] -> Clusters]
  BY <1>1 DEF Update, Structure, TypeOK
<1>4. Released \subseteq Clusters
  <2>1. map[Moving] \in [DOMAIN real[Moving] -> Clusters]
    BY <1>1 DEF Structure, TypeOK
  <2> QED
    BY <2>1 DEF Released, Chain
<1>5. free' \subseteq Clusters
  BY <1>4 DEF Update, NewFree, Structure, TypeOK
<1>6. flags' \in [Files -> SUBSET Flags]
  BY DEF Update, NewFlags, Structure, TypeOK, Flags, StatusFlags
<1>7. listed' \subseteq Nat \X Files
  BY <1>1, <1>2 DEF Update, NewListed, Structure, TypeOK
<1>8. DOMAIN pi' = Counters
  BY DEF Update, AdjustStatistics, Structure, TypeOK, Counters
<1>9. ret' \in [file : Files, value : {0, -1}]
  BY <1>1 DEF Update, Returned
<1>10. /\ pc' = "idle" /\ todo' = {} /\ left' = 0 /\ processed' = 0
       /\ req' \in [file : Files, vcn : Nat, length : Nat, target : Nat]
  BY ConstantsAssumption DEF Return, NoReq, Structure, RequestSound
<1>11. moved' \subseteq Files
  BY <1>1 DEF Update, Structure, TypeOK
<1>12. TypeOK'
  BY <1>3, <1>5, <1>6, <1>7, <1>8, <1>9, <1>10, <1>11
  DEF Return, disk, Structure, TypeOK
<1>13. RequestSound' /\ DiskSound'
  BY <1>10 DEF Return, disk, Structure, RequestSound, DiskSound
<1> QED
  BY <1>12, <1>13 DEF Structure

\* Every step keeps it.
LEMMA NextStructure ==
  ASSUME Structure, [Next]_vars
  PROVE  Structure'
<1>1. ASSUME NEW f \in Files, Reject(f)
      PROVE  Structure'
  <2>1. flags' \in [Files -> SUBSET Flags] /\ ret' \in [file : Files, value : {0, -1}]
    BY <1>1 DEF Reject, AddFlag, Returned, Structure, TypeOK, Flags, StatusFlags
  <2> QED
    BY <1>1, <2>1 DEF Reject, disk, Structure, TypeOK, RequestSound, DiskSound, Moving
<1>2. ASSUME NEW f \in Files, OpenFails(f)
      PROVE  Structure'
  <2>1. flags' \in [Files -> SUBSET Flags] /\ ret' \in [file : Files, value : {0, -1}]
    BY <1>2 DEF OpenFails, AddFlag, Returned, Structure, TypeOK, Flags, StatusFlags
  <2> QED
    BY <1>2, <2>1 DEF OpenFails, disk, Structure, TypeOK, RequestSound, DiskSound, Moving
<1>3. ASSUME NEW f \in Files, Open(f)
      PROVE  Structure'
  <2>1. PICK r \in Accepted(f) : /\ req' = r /\ left' = r.length
                                 /\ todo' = Chain(map[f], r.vcn, r.length)
    BY <1>3 DEF Open
  <2>2. /\ r \in [file : {f}, vcn : 0 .. EndVcn(map[f]), length : 0 .. Size(map[f]),
                  target : Clusters \cup {NClusters}]
        /\ r.vcn \in DOMAIN map[f] /\ ~OutOfVolume(r)
    BY DEF Accepted, Requests, OutOfBounds
  <2>3. NClusters \in Nat /\ Clusters \subseteq Nat
    BY ConstantsAssumption DEF Clusters
  <2>4. r.file = f /\ r.vcn \in Nat /\ r.target \in Nat
    BY <2>2, <2>3, ViewTyped DEF Structure
  <2>5. r.length \in Nat
    BY <2>2, ViewTyped DEF Structure
  <2>6. r.target + r.length <= NClusters
    BY <2>2, <2>3, <2>4, <2>5 DEF OutOfVolume
  <2>7. req' \in [file : Files, vcn : Nat, length : Nat, target : Nat]
    BY <2>1, <2>2, <2>4, <2>5
  <2>8. todo' \subseteq DOMAIN map[f]
    BY <2>1 DEF Chain
  <2>9. moves' \in Nat /\ pc' = "moving" /\ processed' = 0
    BY <1>3 DEF Open, Structure, TypeOK
  <2>10. UNCHANGED <<fs, dry_run, real, used, temp, map, free, flags, listed, pi, ret,
                     stopped, doubt, moved>>
    BY <1>3 DEF Open, disk, view
  <2>11. TypeOK'
    BY <2>1, <2>4, <2>5, <2>7, <2>8, <2>9, <2>10 DEF Structure, TypeOK
  <2>12. RequestSound' /\ DiskSound'
    BY <2>1, <2>4, <2>6, <2>9, <2>10 DEF Structure, RequestSound, DiskSound, Moving
  <2> QED
    BY <2>11, <2>12 DEF Structure
<1>4. ASSUME pc = "moving", NEW rest \in SUBSET todo, NEW unprocessed \in Nat,
             NEW counted \in Nat, Continue(rest, unprocessed, counted),
             DOMAIN real' = Files,
             \A f \in Files : IsFileMap(real'[f]) /\ DOMAIN real'[f] = DOMAIN real[f],
             DiskSound', temp' \subseteq Clusters, used' = used,
             UNCHANGED <<fs, dry_run, view, req, ret, stopped, doubt, moved, moves>>
      PROVE  Structure'
  <2>1. /\ todo' \subseteq todo /\ (pc' # "moving" => todo' = {})
        /\ pc' \in {"moving", "redump"} /\ left' \in Nat /\ processed' \in Nat
    BY <1>4, ContinueSound
  <2>2. TypeOK'
    BY <1>4, <2>1 DEF Structure, TypeOK, view
  <2>3. RequestSound'
    BY <1>4, <2>1 DEF Structure, RequestSound, Moving, view
  <2> QED
    BY <1>4, <2>2, <2>3 DEF Structure
<1>5. ASSUME pc = "moving", UNCHANGED disk, UNCHANGED <<fs, dry_run>>
      PROVE  /\ DOMAIN real' = Files
             /\ \A f \in Files : IsFileMap(real'[f]) /\ DOMAIN real'[f] = DOMAIN real[f]
             /\ DiskSound' /\ temp' \subseteq Clusters /\ used' = used
  BY <1>5 DEF disk, Structure, TypeOK, DiskSound
<1>6. CASE MoveDryRun
  <2>1. /\ pc = "moving" /\ UNCHANGED disk
        /\ UNCHANGED <<fs, dry_run, view, req, ret, stopped, doubt, moved, moves>>
        /\ Continue(todo \ Group, Short + Cardinality(todo \ Group), Cardinality(Group))
    BY <1>6 DEF MoveDryRun
  <2>2. Short + Cardinality(todo \ Group) \in Nat /\ Cardinality(Group) \in Nat
    BY <2>1, GroupSound
  <2> QED
    BY <1>4, <1>5, <2>1, <2>2
<1>7. ASSUME pc = "moving", NEW M \in SUBSET Portion, Relocate(M), UNCHANGED <<fs, dry_run>>
      PROVE  /\ DOMAIN real' = Files
             /\ \A f \in Files : IsFileMap(real'[f]) /\ DOMAIN real'[f] = DOMAIN real[f]
             /\ DiskSound' /\ temp' \subseteq Clusters /\ used' = used
  <2>1. M \in SUBSET todo
    BY <1>7, GroupSound
  <2> QED
    BY <1>7, <2>1, RelocateSound DEF Structure, DiskSound
<1>8. CASE MovePortion
  <2> DEFINE unprocessed ==
        IF Portion = Group THEN Short + Cardinality(todo \ Group) ELSE left
  <2>1. /\ pc = "moving"
        /\ UNCHANGED <<fs, dry_run, view, req, ret, stopped, doubt, moved, moves>>
        /\ Continue(todo \ Portion, unprocessed, Cardinality(Portion))
    BY <1>8 DEF MovePortion
  <2>2. PICK M \in Prefixes(Portion) : Relocate(M)
    BY <1>8 DEF MovePortion
  <2>3. M \in SUBSET Portion
    BY DEF Prefixes
  <2>4. unprocessed \in Nat /\ Cardinality(Portion) \in Nat
    BY <2>1, GroupSound DEF Structure, TypeOK
  <2> HIDE DEF unprocessed
  <2> QED
    BY <1>4, <1>7, <2>1, <2>2, <2>3, <2>4
<1>9. CASE PortionFails
  <2>1. /\ pc = "moving"
        /\ UNCHANGED <<fs, dry_run, view, req, ret, stopped, doubt, moved, moves>>
        /\ Continue({}, left, Cardinality(Group))
    BY <1>9 DEF PortionFails
  <2>2. PICK M \in Prefixes(Portion) : Relocate(M)
    BY <1>9 DEF PortionFails
  <2>3. M \in SUBSET Portion
    BY DEF Prefixes
  <2>4. left \in Nat /\ Cardinality(Group) \in Nat
    BY <2>1, GroupSound DEF Structure, TypeOK
  <2> QED
    BY <1>4, <1>7, <2>1, <2>2, <2>3, <2>4
<1>10. CASE AbortMove
  <2>1. /\ pc = "moving" /\ UNCHANGED disk /\ left \in Nat
        /\ UNCHANGED <<fs, dry_run, view, req, ret, stopped, doubt, moved, moves>>
        /\ Continue({}, left, 0)
    BY <1>10 DEF AbortMove, Structure, TypeOK
  <2> QED
    BY <1>4, <1>5, <2>1
<1>11. CASE AssumeSuccess
  <2>1. Moving \in Files /\ req.vcn \in Int /\ req.length \in Nat /\ req.target \in Nat
    BY DEF Structure, TypeOK, Moving
  <2>2. req.target + req.length <= NClusters /\ NClusters \in Nat
    BY <1>11, ConstantsAssumption DEF AssumeSuccess, Structure, RequestSound
  <2>3. Wanted \in [DOMAIN real[Moving] -> Clusters]
    BY <2>1, <2>2, ViewTyped, DesiredType DEF Structure, Wanted
  <2>4. pc = "redump" /\ Update(Wanted, FALSE) /\ Return /\ doubt' \in BOOLEAN
    BY <1>11 DEF AssumeSuccess, Structure, TypeOK
  <2> QED
    BY <2>3, <2>4, UpdateSound
<1>12. real[Moving] \in [DOMAIN real[Moving] -> Clusters]
  BY DEF Structure, TypeOK, IsFileMap, Moving
<1>13. CASE Succeed
  <2>1. pc = "redump" /\ Update(real[Moving], FALSE) /\ Return /\ doubt' \in BOOLEAN
    BY <1>13 DEF Succeed, Structure, TypeOK
  <2> QED
    BY <1>12, <2>1, UpdateSound
<1>14. CASE Fail
  <2>1. flags' \in [Files -> SUBSET Flags] /\ ret' \in [file : Files, value : {0, -1}]
    BY <1>14 DEF Fail, AddFlag, Returned, Structure, TypeOK, Flags, StatusFlags, Moving
  <2>2. req' \in [file : Files, vcn : Nat, length : Nat, target : Nat]
    BY <1>14, ConstantsAssumption DEF Fail, Return, NoReq
  <2>3. /\ pc' = "idle" /\ left' = 0 /\ processed' = 0 /\ todo' = {}
        /\ free' = free \ Target
        /\ UNCHANGED <<fs, dry_run, real, used, temp, map, listed, pi, stopped, doubt, moved, moves>>
    BY <1>14 DEF Fail, Return, disk, Structure, RequestSound
  <2>4. TypeOK'
    BY <2>1, <2>2, <2>3 DEF Structure, TypeOK
  <2>5. RequestSound' /\ DiskSound'
    BY <2>3 DEF Structure, RequestSound, DiskSound
  <2> QED
    BY <2>4, <2>5 DEF Structure
<1>15. CASE SucceedPartially
  <2>1. pc = "redump" /\ Update(real[Moving], TRUE) /\ Return /\ doubt' \in BOOLEAN
    BY <1>15 DEF SucceedPartially, Structure, TypeOK
  <2> QED
    BY <1>12, <2>1, UpdateSound
<1>16. CASE ReleaseTempSpace
  BY <1>16 DEF ReleaseTempSpace, call, Structure, TypeOK, RequestSound, DiskSound, Moving
<1>17. CASE OtherAllocates
  BY <1>17 DEF OtherAllocates, ReallyFree, view, call, Structure, TypeOK, RequestSound,
               DiskSound, Moving
<1>18. CASE OtherReleases
  BY <1>18 DEF OtherReleases, view, call, Structure, TypeOK, RequestSound, DiskSound, Moving
<1>19. CASE Stop
  BY <1>19 DEF Stop, disk, view, call, Structure, TypeOK, RequestSound, DiskSound, Moving
<1>20. CASE UNCHANGED vars
  BY <1>20 DEF vars, disk, view, call, Structure, TypeOK, RequestSound, DiskSound, Moving
<1> QED
  BY <1>1, <1>2, <1>3, <1>6, <1>8, <1>9, <1>10, <1>11, <1>13, <1>14, <1>15, <1>16, <1>17,
     <1>18, <1>19, <1>20 DEF Next

\* Whatever happens, the engine's data keep their types, no two files share a
\* cluster of the disk, and a running move stays within its accepted request.
THEOREM StructureInvariant == Spec => []Structure
<1>1. Init => Structure
  BY InitStructure
<1>2. Structure /\ [Next]_vars => Structure'
  BY NextStructure
<1> QED
  BY <1>1, <1>2, PTL DEF Spec

\* Type correctness of the engine's view of the volume.
THEOREM TypeCorrect == Spec => []TypeOK
<1>1. Structure => TypeOK
  BY DEF Structure
<1> QED
  BY <1>1, StructureInvariant, PTL

-----------------------------------------------------------------------------
(* The view is exact and the free regions are free.                        *)

\* A move in progress was granted its target from the list of free regions.
TargetGranted == pc # "idle" => Target \subseteq free

\* The maps of the view are trusted in a dry run and as long as every move
\* could be verified.
Trusted == dry_run \/ ~doubt

\* Trusted maps do not overlap, and the target of a move is in none of them.
MapsSound ==
    Trusted =>
        /\ \A f \in Files : IsFileMap(map[f])
        /\ Disjoint(map)
        /\ pc # "idle" => Target \cap OccupiedBy(map) = {}

ViewInvariant ==
    /\ Structure
    /\ TargetGranted
    /\ MapsSound
    /\ FreeViewSound
    /\ ViewExact
    /\ dry_run => ~doubt

LEMMA InitView ==
  ASSUME Init
  PROVE  ViewInvariant
<1>1. Structure
  BY InitStructure
<1>2. /\ \A f \in Files : IsFileMap(real[f])
      /\ Disjoint(real) /\ map = real
  BY LayoutsAssumption DEF Init
<1>3. TargetGranted /\ MapsSound
  BY <1>2 DEF Init, TargetGranted, MapsSound
<1>4. free \cap OccupiedBy(real) = {} /\ temp = {}
  BY DEF Init, ReallyFree
<1>5. FreeViewSound
  BY <1>2, <1>4 DEF FreeViewSound, Owned
<1>6. ViewExact
  BY <1>2 DEF ViewExact
<1> QED
  BY <1>1, <1>3, <1>5, <1>6 DEF ViewInvariant, Init

\* The disk and the flags may change, but nothing the view's soundness
\* depends on.
LEMMA ViewStutter ==
  ASSUME ViewInvariant, Structure',
         UNCHANGED <<fs, dry_run, real, temp, map, free, pc, req, doubt>>
  PROVE  ViewInvariant'
BY DEF ViewInvariant, TargetGranted, MapsSound, Trusted, FreeViewSound, Owned, InFlight,
       Target, ViewExact, Moving, OccupiedBy, Disjoint

\* Portions are handed over: only the moving file and its target change.
LEMMA ViewPortion ==
  ASSUME ViewInvariant, Structure', pc = "moving", pc' \in {"moving", "redump"},
         ~dry_run, NEW M \in SUBSET todo, Relocate(M),
         UNCHANGED <<fs, dry_run, map, free, req, doubt>>
  PROVE  ViewInvariant'
<1>1. /\ \A f \in Files : f # Moving => real'[f] = real[f]
      /\ OccupiedBy(real') \subseteq OccupiedBy(real) \cup Target
      /\ temp' \subseteq temp \cup OccupiedBy(real)
  BY RelocateSound DEF ViewInvariant
<1>2. Target' = Target /\ InFlight' = Target /\ InFlight = Target
  BY DEF Target, InFlight
<1>3. OccupiedBy(map)' = OccupiedBy(map)
  BY DEF OccupiedBy
<1>4. TargetGranted'
  BY <1>2 DEF ViewInvariant, TargetGranted
<1>5. MapsSound'
  BY <1>2, <1>3 DEF ViewInvariant, MapsSound, Trusted, Disjoint
<1>6. Owned = OccupiedBy(real) \cup temp /\ Owned' = OccupiedBy(real') \cup temp'
  BY DEF Owned, OccupiedBy
<1>7. FreeViewSound'
  BY <1>1, <1>2, <1>6 DEF ViewInvariant, FreeViewSound
<1>8. ViewExact'
  BY <1>1 DEF ViewInvariant, ViewExact, Moving
<1> QED
  BY <1>4, <1>5, <1>7, <1>8 DEF ViewInvariant

\* The move was assumed to be complete.
LEMMA ViewAssumed ==
  ASSUME ViewInvariant, Structure', AssumeSuccess
  PROVE  ViewInvariant'
<1>1. /\ map' = [map EXCEPT ![Moving] = Wanted] /\ free' = NewFree(FALSE)
      /\ pc = "redump" /\ pc' = "idle" /\ doubt' = (doubt \/ ~dry_run)
      /\ UNCHANGED <<fs, dry_run, real, used, temp>>
  BY DEF AssumeSuccess, Update, Return, disk
<1>2. TargetGranted'
  BY <1>1 DEF TargetGranted
<1>3. CASE ~dry_run
  <2>1. doubt' /\ ~Trusted'
    BY <1>1, <1>3 DEF Trusted
  <2>2. fs = "NTFS" => free' = free \ Target
    BY <1>1, <1>3 DEF NewFree
  <2>3. Owned' = Owned /\ InFlight = Target
    BY <1>1, <1>3 DEF Owned, OccupiedBy, InFlight
  <2>4. FreeViewSound'
    BY <1>1, <1>3, <2>1, <2>2, <2>3 DEF ViewInvariant, FreeViewSound
  <2> QED
    BY <1>1, <1>2, <1>3, <2>1, <2>4 DEF ViewInvariant, MapsSound, ViewExact
<1>4. CASE dry_run
  <2>1. /\ Moving \in Files /\ req.vcn \in Int /\ req.length \in Nat /\ req.target \in Nat
        /\ req.target + req.length <= NClusters /\ NClusters \in Nat /\ DOMAIN map = Files
    BY <1>1, ConstantsAssumption
    DEF ViewInvariant, Structure, TypeOK, RequestSound, Moving
  <2>2. /\ \A f \in Files : IsFileMap(map[f])
        /\ Disjoint(map) /\ Target \cap OccupiedBy(map) = {}
        /\ free \cap OccupiedBy(map) = {} /\ ~doubt
    BY <1>1, <1>4 DEF ViewInvariant, MapsSound, Trusted, FreeViewSound, Owned, InFlight
  <2>3. \A f \in Files : ClustersOf(map[f]) \subseteq OccupiedBy(map)
    BY DEF OccupiedBy
  <2>4. /\ IsFileMap(Wanted)
        /\ ClustersOf(Wanted) \subseteq (ClustersOf(map[Moving]) \ Released) \cup Target
    <3>1. (req.target .. req.target + req.length - 1) \cap ClustersOf(map[Moving]) = {}
      BY <2>1, <2>2, <2>3 DEF Target
    <3> QED
      BY <2>1, <2>2, <3>1, DesiredIsFileMap DEF Wanted, Released, Target
  <2>5. /\ map'[Moving] = Wanted /\ DOMAIN map' = Files
        /\ \A f \in Files : f # Moving => map'[f] = map[f]
    BY <1>1, <2>1
  <2>6. \A f \in Files : IsFileMap(map'[f])
    BY <2>2, <2>4, <2>5
  <2>7. \A f \in Files : f # Moving => ClustersOf(Wanted) \cap ClustersOf(map[f]) = {}
    BY <2>1, <2>2, <2>3, <2>4 DEF Disjoint
  <2>8. Disjoint(map')
    BY <2>2, <2>5, <2>7 DEF Disjoint
  <2>9. MapsSound'
    BY <1>1, <2>6, <2>8 DEF MapsSound
  <2>10. Released \subseteq ClustersOf(map[Moving])
    BY DEF Released, ClustersOf, Chain
  <2>11. free' \subseteq (free \ Target) \cup Released
    BY <1>1 DEF NewFree
  <2>12. \A f \in Files : free' \cap ClustersOf(map'[f]) = {}
    <3> TAKE f \in Files
    <3>1. CASE f = Moving
      BY <2>1, <2>2, <2>3, <2>4, <2>5, <2>10, <2>11, <3>1
    <3>2. CASE f # Moving
      BY <2>1, <2>2, <2>3, <2>5, <2>10, <2>11, <3>2 DEF Disjoint
    <3> QED
      BY <3>1, <3>2
  <2>13. FreeViewSound'
    <3>1. free' \cap OccupiedBy(map') = {}
      BY <2>12 DEF OccupiedBy
    <3>2. Owned' = OccupiedBy(map')
      BY <1>1, <1>4 DEF Owned, OccupiedBy
    <3> QED
      BY <3>1, <3>2 DEF FreeViewSound
  <2> QED
    BY <1>1, <1>2, <1>4, <2>2, <2>9, <2>13 DEF ViewInvariant, ViewExact
<1> QED
  BY <1>3, <1>4

\* The dumped map is taken over, completely or partially moved.
LEMMA ViewDumped ==
  ASSUME ViewInvariant, Structure', Succeed \/ SucceedPartially
  PROVE  ViewInvariant'
<1>1. /\ map' = [map EXCEPT ![Moving] = real[Moving]] /\ ~dry_run
      /\ pc = "redump" /\ pc' = "idle"
      /\ UNCHANGED <<fs, dry_run, real, used, temp, doubt>>
  BY DEF Succeed, SucceedPartially, Update, Return, disk
<1>2. /\ Moving \in Files /\ DOMAIN map = Files /\ InFlight = Target
      /\ req.vcn \in Int /\ req.length \in Nat /\ req.target \in Nat
      /\ req.target + req.length <= NClusters /\ NClusters \in Nat
  BY <1>1, ConstantsAssumption
  DEF ViewInvariant, Structure, TypeOK, RequestSound, Moving, InFlight
<1>3. map'[Moving] = real[Moving] /\ \A f \in Files : f # Moving => map'[f] = map[f]
  BY <1>1, <1>2
<1>4. ~doubt => \A f \in Files : map'[f] = real[f]
  BY <1>1, <1>3 DEF ViewInvariant, ViewExact
<1>5. TargetGranted' /\ ViewExact'
  BY <1>1, <1>4 DEF TargetGranted, ViewExact
<1>6. MapsSound'
  BY <1>1, <1>4 DEF MapsSound, Trusted, ViewInvariant, Structure, TypeOK, DiskSound, Disjoint
<1>7. Owned = OccupiedBy(real) \cup temp /\ Owned' = Owned
  BY <1>1 DEF Owned, OccupiedBy
<1>8. CASE fs = "NTFS" \/ SucceedPartially
  <2>1. free' = free \ Target
    BY <1>1, <1>8 DEF Succeed, SucceedPartially, Update, NewFree
  <2> QED
    BY <1>1, <1>2, <1>5, <1>6, <1>7, <2>1 DEF ViewInvariant, FreeViewSound
<1>9. CASE fs # "NTFS" /\ doubt
  BY <1>1, <1>5, <1>6, <1>9 DEF ViewInvariant, FreeViewSound
<1>10. CASE fs # "NTFS" /\ ~doubt /\ Succeed
  <2>1. free' = (free \ Target) \cup Released /\ real[Moving] = Wanted
    BY <1>1, <1>10 DEF Succeed, Update, NewFree
  <2>2. free \cap Owned \subseteq Target /\ temp = {}
    BY <1>2, <1>10 DEF ViewInvariant, Structure, DiskSound, FreeViewSound
  <2>3. /\ IsFileMap(map[Moving]) /\ Disjoint(map) /\ Target \cap OccupiedBy(map) = {}
        /\ ClustersOf(map[Moving]) \subseteq OccupiedBy(map)
    BY <1>1, <1>2, <1>10 DEF ViewInvariant, MapsSound, Trusted, OccupiedBy
  <2>4. \A f \in Files : f # Moving => map[f] = real[f]
    BY <1>1, <1>10 DEF ViewInvariant, ViewExact
  <2>5. ClustersOf(Wanted) \subseteq (ClustersOf(map[Moving]) \ Released) \cup Target
    BY <1>2, <2>3, DesiredIsFileMap DEF Wanted, Released, Target
  <2>6. Released \subseteq ClustersOf(map[Moving])
    BY DEF Released, ClustersOf, Chain
  <2>7. \A f \in Files : Released \cap ClustersOf(real[f]) = {}
    <3> TAKE f \in Files
    <3>1. CASE f = Moving
      BY <2>1, <2>3, <2>5, <2>6, <3>1
    <3>2. CASE f # Moving
      BY <1>2, <2>3, <2>4, <2>6, <3>2 DEF Disjoint
    <3> QED
      BY <3>1, <3>2
  <2>8. Released \cap OccupiedBy(real) = {}
    BY <2>7 DEF OccupiedBy
  <2>9. FreeViewSound'
    BY <1>7, <2>1, <2>2, <2>8 DEF FreeViewSound
  <2> QED
    BY <1>1, <1>5, <1>6, <2>9 DEF ViewInvariant
<1> QED
  BY <1>8, <1>9, <1>10

\* Nothing has been moved: the target is given up.
LEMMA ViewFailed ==
  ASSUME ViewInvariant, Structure', Fail
  PROVE  ViewInvariant'
<1>1. /\ UNCHANGED <<fs, dry_run, real, temp, map, doubt>> /\ free' = free \ Target
      /\ pc = "redump" /\ pc' = "idle" /\ ~dry_run /\ real[Moving] = map[Moving]
  BY DEF Fail, Return, disk
<1>2. TargetGranted' /\ MapsSound'
  BY <1>1 DEF ViewInvariant, TargetGranted, MapsSound, Trusted, Disjoint
<1>3. FreeViewSound'
  BY <1>1 DEF ViewInvariant, FreeViewSound, Owned, OccupiedBy, InFlight
<1>4. ViewExact'
  BY <1>1 DEF ViewInvariant, ViewExact
<1> QED
  BY <1>1, <1>2, <1>3, <1>4 DEF ViewInvariant

\* A request is accepted: its target was free and in no map.
LEMMA ViewOpened ==
  ASSUME ViewInvariant, Structure', NEW f \in Files, Open(f)
  PROVE  ViewInvariant'
<1>1. /\ UNCHANGED <<fs, dry_run, real, temp, map, free, doubt>>
      /\ pc = "idle" /\ pc' = "moving" /\ req' \in Accepted(f)
  BY DEF Open, Enter, disk, view
<1>2. /\ req' \in Requests(f) /\ ~OutOfVolume(req')
      /\ req'.target \in Nat /\ req'.length \in Nat /\ NClusters \in Nat
  BY <1>1, ConstantsAssumption DEF Accepted, ViewInvariant, Structure, TypeOK
<1>3. Target' \subseteq free
  BY <1>2 DEF Requests, OutOfVolume, Target
<1>4. TargetGranted' /\ InFlight = {} /\ InFlight' = Target'
  BY <1>1, <1>3 DEF TargetGranted, InFlight
<1>5. FreeViewSound' /\ (Trusted => free \cap Owned = {})
  BY <1>1, <1>4 DEF ViewInvariant, FreeViewSound, Owned, OccupiedBy, Trusted
<1>6. ViewExact' /\ (~dry_run /\ ~doubt => \A g \in Files : map[g] = real[g])
  BY <1>1 DEF ViewInvariant, ViewExact
<1>7. Trusted => OccupiedBy(map) \subseteq Owned
  BY <1>6 DEF Trusted, Owned, OccupiedBy
<1>8. OccupiedBy(map)' = OccupiedBy(map)
  BY <1>1 DEF OccupiedBy
<1>9. MapsSound'
  BY <1>1, <1>3, <1>5, <1>7, <1>8 DEF ViewInvariant, MapsSound, Trusted, Disjoint
<1> QED
  BY <1>1, <1>4, <1>5, <1>6, <1>9 DEF ViewInvariant

\* The list of free regions is loaded again between two moves.
LEMMA ViewReloaded ==
  ASSUME ViewInvariant, Structure', ReleaseTempSpace
  PROVE  ViewInvariant'
<1>1. /\ UNCHANGED <<fs, dry_run, real, map, pc, req, doubt>> /\ temp' = {}
      /\ pc = "idle" /\ ~dry_run /\ free' \cap OccupiedBy(real) = {}
  BY DEF ReleaseTempSpace, call
<1>2. TargetGranted' /\ MapsSound' /\ ViewExact'
  BY <1>1 DEF ViewInvariant, TargetGranted, MapsSound, Trusted, Disjoint, ViewExact, Moving
<1>3. Owned' = OccupiedBy(real)
  BY <1>1 DEF Owned, OccupiedBy
<1> QED
  BY <1>1, <1>2, <1>3 DEF ViewInvariant, FreeViewSound

LEMMA NextView ==
  ASSUME ViewInvariant, [Next]_vars
  PROVE  ViewInvariant'
<1>1. Structure'
  BY NextStructure DEF ViewInvariant
<1>2. ASSUME NEW f \in Files, Reject(f) \/ OpenFails(f)
      PROVE  ViewInvariant'
  BY <1>1, <1>2, ViewStutter DEF Reject, OpenFails, disk
<1>3. ASSUME NEW f \in Files, Open(f)
      PROVE  ViewInvariant'
  BY <1>1, <1>3, ViewOpened
<1>4. ASSUME pc = "moving", pc' \in {"moving", "redump"},
             UNCHANGED <<fs, dry_run, disk, view, req, doubt>>
      PROVE  ViewInvariant'
  BY <1>1, <1>4
  DEF disk, view, ViewInvariant, TargetGranted, MapsSound, Trusted, FreeViewSound, Owned,
      InFlight, Target, ViewExact, Moving, OccupiedBy, Disjoint
<1>5. CASE MoveDryRun \/ AbortMove
  BY <1>4, <1>5 DEF MoveDryRun, AbortMove, Continue
<1>6. CASE MovePortion \/ PortionFails
  <2>1. /\ pc = "moving" /\ pc' \in {"moving", "redump"} /\ ~dry_run
        /\ UNCHANGED <<fs, dry_run, map, free, req, doubt>>
    BY <1>6 DEF MovePortion, PortionFails, Continue, view
  <2>2. PICK M \in Prefixes(Portion) : Relocate(M)
    BY <1>6 DEF MovePortion, PortionFails
  <2>3. M \in SUBSET todo
    BY DEF Prefixes, Portion, Group
  <2> QED
    BY <1>1, <2>1, <2>2, <2>3, ViewPortion
<1>7. CASE AssumeSuccess
  BY <1>1, <1>7, ViewAssumed
<1>8. CASE Succeed \/ SucceedPartially
  BY <1>1, <1>8, ViewDumped
<1>9. CASE Fail
  BY <1>1, <1>9, ViewFailed
<1>10. CASE ReleaseTempSpace
  BY <1>1, <1>10, ViewReloaded
<1>11. CASE OtherAllocates \/ OtherReleases \/ Stop \/ UNCHANGED vars
  BY <1>1, <1>11, ViewStutter DEF OtherAllocates, OtherReleases, Stop, vars, disk, view, call
<1> QED
  BY <1>2, <1>3, <1>5, <1>6, <1>7, <1>8, <1>9, <1>10, <1>11 DEF Next

\* What the engine believes of free space and maps is inductive together.
THEOREM ViewInvariance == Spec => []ViewInvariant
<1>1. Init => ViewInvariant
  BY InitView
<1>2. ViewInvariant /\ [Next]_vars => ViewInvariant'
  BY NextView
<1> QED
  BY <1>1, <1>2, PTL DEF Spec

\* The list of free regions never offers a cluster a known file occupies or
\* NTFS holds back, whichever moves fail, stop half-way or are simulated.
THEOREM FreeRegionsAreFree == Spec => []FreeViewSound
<1>1. ViewInvariant => FreeViewSound
  BY DEF ViewInvariant
<1> QED
  BY <1>1, ViewInvariance, PTL

\* As long as every move could be verified the block maps are the disk's.
THEOREM MapsAreExact == Spec => []ViewExact
<1>1. ViewInvariant => ViewExact
  BY DEF ViewInvariant
<1> QED
  BY <1>1, ViewInvariance, PTL

-----------------------------------------------------------------------------
(* The list of fragmented files, the status flags and the progress count.  *)

\* The flag of a file is what the filters say: those by size and fragments of
\* its map as it is now, and until its first move the one by path.
FlagsFollow == \A f \in Files : Excluded(f) <=> Rejected(f)

LEMMA FlagsStutter ==
  ASSUME FlagsFollow, UNCHANGED <<map, moved>>, \A f \in Files : Excluded(f)' <=> Excluded(f)
  PROVE  FlagsFollow'
BY DEF FlagsFollow, Rejected, Readmitted

LEMMA FlagsUpdated ==
  ASSUME Structure, pc = "redump", FlagsFollow, NEW m, NEW partial \in BOOLEAN,
         Update(m, partial)
  PROVE  FlagsFollow'
<1>1. /\ Moving \in Files /\ DOMAIN map = Files /\ DOMAIN flags = Files
  BY DEF Structure, TypeOK, Moving
<1>2. /\ map' = [map EXCEPT ![Moving] = m] /\ moved' = moved \cup {Moving}
      /\ flags' = NewFlags(Filtered(m), partial)
  BY DEF Update
<1>3. /\ map'[Moving] = m
      /\ \A f \in Files : f # Moving => map'[f] = map[f] /\ flags'[f] = flags[f]
  BY <1>1, <1>2 DEF NewFlags
<1>4. ("EXCLUDED" \in flags'[Moving]) <=> Filtered(m)
  BY <1>1, <1>2 DEF NewFlags
<1>5. ASSUME NEW f \in Files
      PROVE  "EXCLUDED" \in flags'[f] <=>
               f \in PathExcluded \ (PathExcluded \cap moved') \/ Filtered(map'[f])
  <2>1. CASE f = Moving
    BY <1>2, <1>3, <1>4, <2>1
  <2>2. CASE f # Moving
    BY <1>2, <1>3, <2>2 DEF FlagsFollow, Rejected, Readmitted, Excluded
  <2> QED
    BY <2>1, <2>2
<1> QED
  BY <1>5 DEF FlagsFollow, Rejected, Readmitted, Excluded

\* Nothing but the tail of move_file gives a file another map or flag.
LEMMA FlagsInvariance == Spec => []FlagsFollow
<1>1. Init => FlagsFollow
  BY DEF Init, FlagsFollow, Rejected, Readmitted, Excluded
<1>2. ASSUME Structure, FlagsFollow, [Next]_vars
      PROVE  FlagsFollow'
  <2>1. ASSUME NEW f \in Files, Reject(f) \/ OpenFails(f)
        PROVE  FlagsFollow'
    <3>1. /\ UNCHANGED <<map, moved>>
          /\ AddFlag(f, "IMPROPER_STATE") \/ AddFlag(f, "LOCKED")
      BY <2>1 DEF Reject, OpenFails
    <3>2. \A g \in Files : Excluded(g)' <=> Excluded(g)
      BY <1>2, <3>1 DEF AddFlag, Excluded, Structure, TypeOK
    <3> QED
      BY <1>2, <3>1, <3>2, FlagsStutter
  <2>2. ASSUME UNCHANGED <<map, moved, flags>>
        PROVE  FlagsFollow'
    BY <1>2, <2>2, FlagsStutter DEF Excluded
  <2>3. ASSUME NEW f \in Files, Open(f)
        PROVE  FlagsFollow'
    BY <2>2, <2>3 DEF Open, view
  <2>4. CASE MoveDryRun \/ MovePortion \/ PortionFails \/ AbortMove
    BY <2>2, <2>4 DEF MoveDryRun, MovePortion, PortionFails, AbortMove, view
  <2>5. CASE AssumeSuccess \/ Succeed \/ SucceedPartially
    <3>1. pc = "redump" /\ \E m \in {Wanted, real[Moving]}, partial \in BOOLEAN : Update(m, partial)
      BY <2>5 DEF AssumeSuccess, Succeed, SucceedPartially
    <3> QED
      BY <1>2, <3>1, FlagsUpdated
  <2>6. CASE Fail
    <3>1. UNCHANGED <<map, moved>> /\ AddFlag(Moving, "MOVING_FAILED")
      BY <2>6 DEF Fail
    <3>2. \A g \in Files : Excluded(g)' <=> Excluded(g)
      BY <1>2, <3>1 DEF AddFlag, Excluded, Structure, TypeOK
    <3> QED
      BY <1>2, <3>1, <3>2, FlagsStutter
  <2>7. CASE ReleaseTempSpace \/ OtherAllocates \/ OtherReleases \/ Stop \/ UNCHANGED vars
    BY <2>2, <2>7 DEF ReleaseTempSpace, OtherAllocates, OtherReleases, Stop, vars, view
  <2> QED
    BY <1>2, <2>1, <2>3, <2>4, <2>5, <2>6, <2>7 DEF Next
<1> QED
  BY <1>1, <1>2, StructureInvariant, PTL DEF Spec

\* The files the list has to hold: fragmented and not flagged as excluded.
Queued(f) == Fragmented(map[f]) /\ ~Excluded(f)
ListByFlags ==
    listed = {<<Fragments(map[f]), f>> :
                f \in {g \in Files : Fragmented(map[g]) /\ ~Excluded(g)}}

LEMMA ListUpdated ==
  ASSUME Structure, pc = "redump", ListByFlags, NEW m, NEW partial \in BOOLEAN,
         Update(m, partial)
  PROVE  ListByFlags'
<1> DEFINE became == Fragmented(m) /\ ~Filtered(m)
<1>1. /\ Moving \in Files /\ DOMAIN map = Files /\ DOMAIN flags = Files
  BY DEF Structure, TypeOK, Moving
<1>2. /\ map' = [map EXCEPT ![Moving] = m]
      /\ flags' = NewFlags(Filtered(m), partial)
      /\ listed' = NewListed(m, Queued(Moving), became)
  BY DEF Update, Queued
<1>3. /\ map'[Moving] = m
      /\ \A f \in Files : f # Moving => map'[f] = map[f] /\ flags'[f] = flags[f]
  BY <1>1, <1>2 DEF NewFlags
<1>4. ("EXCLUDED" \in flags'[Moving]) <=> Filtered(m)
  BY <1>1, <1>2 DEF NewFlags
<1>5. \A f \in Files : f # Moving => (Queued(f)' <=> Queued(f))
  BY <1>3 DEF Queued, Excluded
<1>6. Fragmented(map'[Moving]) /\ ~("EXCLUDED" \in flags'[Moving]) <=> became
  BY <1>3, <1>4
<1>7. listed = {<<Fragments(map[f]), f>> : f \in {g \in Files : Queued(g)}}
  BY DEF ListByFlags, Queued
<1>8. listed' = (listed \ (IF Queued(Moving) THEN {<<Fragments(map[Moving]), Moving>>} ELSE {}))
                   \cup (IF became THEN {<<Fragments(m), Moving>>} ELSE {})
  BY <1>2 DEF NewListed
<1>9. listed' = {<<Fragments(map'[f]), f>> :
                   f \in {g \in Files : Fragmented(map'[g]) /\ ~("EXCLUDED" \in flags'[g])}}
  <2>1. ASSUME NEW f \in Files, f # Moving
        PROVE  /\ Fragmented(map'[f]) /\ ~("EXCLUDED" \in flags'[f]) <=> Queued(f)
               /\ Fragments(map'[f]) = Fragments(map[f])
    BY <1>3, <2>1 DEF Queued, Excluded
  <2>2. ASSUME NEW f \in Files, Fragmented(map'[f]) /\ ~("EXCLUDED" \in flags'[f])
        PROVE  <<Fragments(map'[f]), f>> \in listed'
    <3>1. CASE f = Moving
      BY <1>3, <1>6, <1>8, <2>2, <3>1
    <3>2. CASE f # Moving
      BY <1>7, <1>8, <2>1, <2>2, <3>2
    <3> QED
      BY <3>1, <3>2
  <2>3. ASSUME NEW node \in listed'
        PROVE  \E f \in Files : /\ Fragmented(map'[f]) /\ ~("EXCLUDED" \in flags'[f])
                                /\ node = <<Fragments(map'[f]), f>>
    <3>1. CASE became /\ node = <<Fragments(m), Moving>>
      BY <1>1, <1>3, <1>6, <3>1
    <3>2. CASE node \in listed /\ ~(Queued(Moving) /\ node = <<Fragments(map[Moving]), Moving>>)
      <4>1. PICK f \in Files : Queued(f) /\ node = <<Fragments(map[f]), f>>
        BY <1>7, <3>2
      <4>2. f # Moving
        BY <3>2, <4>1
      <4> QED
        BY <2>1, <4>1, <4>2
    <3> QED
      BY <1>8, <3>1, <3>2
  <2> QED
    BY <2>2, <2>3
<1> QED
  BY <1>9 DEF ListByFlags, Excluded

LEMMA ListStutter ==
  ASSUME ListByFlags, UNCHANGED <<map, listed>>,
         \A f \in Files : Excluded(f)' <=> Excluded(f)
  PROVE  ListByFlags'
<1>1. {g \in Files : Fragmented(map'[g]) /\ ~Excluded(g)'} =
        {g \in Files : Fragmented(map[g]) /\ ~Excluded(g)}
  OBVIOUS
<1> QED
  BY <1>1 DEF ListByFlags

LEMMA ListInvariance == Spec => []ListByFlags
<1>1. Init => ListByFlags
  BY DEF Init, ListByFlags
<1>2. ASSUME Structure, ListByFlags, [Next]_vars
      PROVE  ListByFlags'
  <2>1. ASSUME NEW f \in Files, Reject(f) \/ OpenFails(f)
        PROVE  ListByFlags'
    <3>1. /\ UNCHANGED <<map, listed>>
          /\ AddFlag(f, "IMPROPER_STATE") \/ AddFlag(f, "LOCKED")
      BY <2>1 DEF Reject, OpenFails
    <3>2. \A g \in Files : Excluded(g)' <=> Excluded(g)
      BY <1>2, <3>1 DEF AddFlag, Excluded, Structure, TypeOK
    <3> QED
      BY <1>2, <3>1, <3>2, ListStutter
  <2>2. ASSUME UNCHANGED <<map, listed, flags>>
        PROVE  ListByFlags'
    BY <1>2, <2>2, ListStutter DEF Excluded
  <2>3. ASSUME NEW f \in Files, Open(f)
        PROVE  ListByFlags'
    BY <2>2, <2>3 DEF Open, view
  <2>4. CASE MoveDryRun \/ MovePortion \/ PortionFails \/ AbortMove
    BY <2>2, <2>4 DEF MoveDryRun, MovePortion, PortionFails, AbortMove, view
  <2>5. CASE AssumeSuccess \/ Succeed \/ SucceedPartially
    <3>1. pc = "redump" /\ \E m \in {Wanted, real[Moving]}, partial \in BOOLEAN : Update(m, partial)
      BY <2>5 DEF AssumeSuccess, Succeed, SucceedPartially
    <3> QED
      BY <1>2, <3>1, ListUpdated
  <2>6. CASE Fail
    <3>1. UNCHANGED <<map, listed>> /\ AddFlag(Moving, "MOVING_FAILED")
      BY <2>6 DEF Fail
    <3>2. \A g \in Files : Excluded(g)' <=> Excluded(g)
      BY <1>2, <3>1 DEF AddFlag, Excluded, Structure, TypeOK
    <3> QED
      BY <1>2, <3>1, <3>2, ListStutter
  <2>7. CASE ReleaseTempSpace \/ OtherAllocates \/ OtherReleases \/ Stop \/ UNCHANGED vars
    BY <2>2, <2>7 DEF ReleaseTempSpace, OtherAllocates, OtherReleases, Stop, vars, view
  <2> QED
    BY <1>2, <2>1, <2>3, <2>4, <2>5, <2>6, <2>7 DEF Next
<1> QED
  BY <1>1, <1>2, StructureInvariant, PTL DEF Spec

\* The tree the defragmentation walks is exact after every move: it holds the
\* fragmented files the filters let through, asked anew, and none besides but
\* those a move has readmitted (move.c 682-688, 697-706, 784-785).
THEOREM FragmentedListCorrect == Spec => []FragmentedListExact
<1>1. ListByFlags /\ FlagsFollow => FragmentedListExact
  <2>1. ASSUME FlagsFollow
        PROVE  {g \in Files : Fragmented(map[g]) /\ ~Excluded(g)} =
               {g \in Files : Fragmented(map[g]) /\ ~Rejected(g)}
    BY <2>1 DEF FlagsFollow
  <2> QED
    BY <2>1 DEF ListByFlags, FragmentedListExact
<1> QED
  BY <1>1, ListInvariance, FlagsInvariance, PTL

\* A negative value always comes with a status flag, whatever the reason, so
\* no pass of a job tries the same file again.
THEOREM FailuresAreFlagged == Spec => []FailureIsFlagged
<1>1. Init => FailureIsFlagged
  BY DEF Init, FailureIsFlagged
<1>2. ASSUME Structure, FailureIsFlagged, [Next]_vars
      PROVE  FailureIsFlagged'
  <2>0. DOMAIN flags = Files /\ Moving \in Files
    BY <1>2 DEF Structure, TypeOK, Moving
  <2>1. ASSUME NEW f \in Files, Reject(f) \/ OpenFails(f)
        PROVE  FailureIsFlagged'
    <3>1. \E flag \in StatusFlags : AddFlag(f, flag)
      BY <2>1 DEF Reject, OpenFails, StatusFlags
    <3>2. \E value \in {0, -1} : Returned(f, value)
      BY <2>1 DEF Reject, OpenFails
    <3> QED
      BY <2>0, <2>1, <3>1, <3>2 DEF AddFlag, Returned, FailureIsFlagged, CanMove
  <2>2. ASSUME UNCHANGED <<flags, ret>>
        PROVE  FailureIsFlagged'
    BY <1>2, <2>2 DEF FailureIsFlagged, CanMove
  <2>3. ASSUME NEW f \in Files, Open(f)
        PROVE  FailureIsFlagged'
    BY <2>2, <2>3 DEF Open, view
  <2>4. CASE MoveDryRun \/ MovePortion \/ PortionFails \/ AbortMove
    BY <2>2, <2>4 DEF MoveDryRun, MovePortion, PortionFails, AbortMove, view
  <2>5. CASE AssumeSuccess \/ Succeed
    <3>1. Returned(Moving, 0)
      BY <2>5 DEF AssumeSuccess, Succeed, Update
    <3> QED
      BY <3>1 DEF Returned, FailureIsFlagged
  <2>6. CASE SucceedPartially
    <3>1. ret'.file = Moving /\ flags' = NewFlags(Filtered(real[Moving]), TRUE)
      BY <2>6 DEF SucceedPartially, Update, Returned
    <3>2. "MOVING_FAILED" \in flags'[Moving]
      BY <2>0, <3>1 DEF NewFlags
    <3> QED
      BY <3>1, <3>2 DEF FailureIsFlagged, CanMove, StatusFlags
  <2>7. CASE Fail
    <3>1. ret'.file = Moving /\ AddFlag(Moving, "MOVING_FAILED")
      BY <2>7 DEF Fail, Returned
    <3> QED
      BY <2>0, <3>1 DEF AddFlag, FailureIsFlagged, CanMove, StatusFlags
  <2>8. CASE ReleaseTempSpace \/ OtherAllocates \/ OtherReleases \/ Stop \/ UNCHANGED vars
    BY <2>2, <2>8 DEF ReleaseTempSpace, OtherAllocates, OtherReleases, Stop, vars, view, call
  <2> QED
    BY <1>2, <2>1, <2>3, <2>4, <2>5, <2>6, <2>7, <2>8 DEF Next
<1> QED
  BY <1>1, <1>2, StructureInvariant, PTL DEF Spec

\* What has been counted and what is still to be counted add up to the
\* length of the request at least, in both of the helper's accounts.
CountInvariant ==
    /\ pc = "moving" =>
         /\ processed + left >= req.length
         /\ processed + Short + Cardinality(todo) >= req.length
    /\ CountedEntirely

LEMMA CountContinued ==
  ASSUME Structure, pc = "moving", NEW rest \in SUBSET todo, NEW unprocessed \in Nat,
         NEW counted \in Nat, Continue(rest, unprocessed, counted), UNCHANGED <<map, req>>,
         processed + counted + unprocessed >= req.length,
         rest # {} => processed + counted + Short + Cardinality(rest) >= req.length
  PROVE  CountInvariant'
<1>1. /\ todo' = rest /\ left' = unprocessed
      /\ pc' = (IF rest = {} THEN "redump" ELSE "moving")
      /\ processed' = processed + counted + IF rest = {} THEN unprocessed ELSE 0
  BY DEF Continue
<1>2. processed \in Nat /\ Short' = Short
  BY DEF Structure, TypeOK, Short, Moving
<1>3. CASE rest = {}
  BY <1>1, <1>2, <1>3 DEF CountInvariant, CountedEntirely
<1>4. CASE rest # {}
  <2>1. processed' = processed + counted
    BY <1>1, <1>2, <1>4
  <2>2. Short \in Nat /\ req.length \in Nat
    BY GroupSound DEF Structure, TypeOK
  <2>3. processed' + Short' + Cardinality(todo') >= req'.length
    BY <1>1, <1>2, <1>4, <2>1
  <2> QED
    BY <1>1, <1>2, <1>4, <2>1, <2>3 DEF CountInvariant, CountedEntirely
<1> QED
  BY <1>3, <1>4

\* The progress indicator arrives: when the helper returns every cluster of
\* the request has been counted, also after an error or a termination.
THEOREM ProgressArrives == Spec => []CountedEntirely
<1>1. Init => CountInvariant
  BY DEF Init, CountInvariant, CountedEntirely
<1>2. ASSUME Structure, CountInvariant, [Next]_vars
      PROVE  CountInvariant'
  <2>1. ASSUME pc' = "idle"
        PROVE  CountInvariant'
    BY <2>1 DEF CountInvariant, CountedEntirely
  <2>2. ASSUME UNCHANGED <<pc, map, req, todo, left, processed>>
        PROVE  CountInvariant'
    BY <1>2, <2>2 DEF CountInvariant, CountedEntirely, Short, Moving
  <2>3. ASSUME NEW f \in Files, Reject(f) \/ OpenFails(f)
        PROVE  CountInvariant'
    BY <2>2, <2>3 DEF Reject, OpenFails, view
  <2>4. ASSUME NEW f \in Files, Open(f)
        PROVE  CountInvariant'
    <3>1. PICK r \in Accepted(f) : /\ req' = r /\ left' = r.length
                                   /\ todo' = Chain(map[f], r.vcn, r.length)
      BY <2>4 DEF Open
    <3>2. pc' = "moving" /\ processed' = 0 /\ map' = map /\ r.file = f
      BY <2>4 DEF Open, view, Accepted, Requests
    <3>3. Short' = r.length - Cardinality(todo')
      BY <3>1, <3>2 DEF Short, Moving
    <3>4. r.length \in Nat /\ r.vcn \in Nat
      BY <1>2, <2>4, <3>2, ViewTyped DEF Structure, Accepted, Requests, OutOfBounds
    <3>5. Cardinality(todo') \in Nat
      BY <1>2, <3>1, <3>4, ViewTyped, ChainBounded DEF Structure
    <3> QED
      BY <3>1, <3>2, <3>3, <3>4, <3>5 DEF CountInvariant, CountedEntirely
  <2>5. ASSUME pc = "moving"
        PROVE  /\ processed + left >= req.length
               /\ processed + Short + Cardinality(todo) >= req.length
               /\ processed \in Nat /\ left \in Nat /\ req.length \in Nat
               /\ Short \in Nat /\ Cardinality(todo) \in Nat
               /\ Cardinality(Group) \in Nat /\ Cardinality(Portion) \in Nat
               /\ Cardinality(todo \ Group) \in Nat /\ Cardinality(todo \ Portion) \in Nat
               /\ Cardinality(todo) = Cardinality(Group) + Cardinality(todo \ Group)
               /\ Cardinality(todo) = Cardinality(Portion) + Cardinality(todo \ Portion)
    <3>1. IsFiniteSet(todo) /\ Group \in SUBSET todo /\ Portion \in SUBSET todo /\ Short \in Nat
      BY <1>2, <2>5, GroupSound
    <3>2. processed \in Nat /\ left \in Nat /\ req.length \in Nat
      BY <1>2 DEF Structure, TypeOK
    <3> QED
      BY <1>2, <2>5, <3>1, <3>2, SplitCardinality, FS_CardinalityType DEF CountInvariant
  <2>6. CASE MoveDryRun
    <3>1. /\ pc = "moving" /\ UNCHANGED <<map, req>>
          /\ Continue(todo \ Group, Short + Cardinality(todo \ Group), Cardinality(Group))
      BY <2>6 DEF MoveDryRun, view
    <3> DEFINE unprocessed == Short + Cardinality(todo \ Group)
    <3>2. /\ unprocessed \in Nat
          /\ processed + Cardinality(Group) + unprocessed >= req.length
          /\ processed + Cardinality(Group) + Short + Cardinality(todo \ Group) >= req.length
      BY <2>5, <3>1
    <3> HIDE DEF unprocessed
    <3> QED
      BY <1>2, <2>5, <3>1, <3>2, CountContinued DEF unprocessed
  <2>7. CASE MovePortion
    <3> DEFINE unprocessed ==
          IF Portion = Group THEN Short + Cardinality(todo \ Group) ELSE left
    <3>1. /\ pc = "moving" /\ UNCHANGED <<map, req>>
          /\ Continue(todo \ Portion, unprocessed, Cardinality(Portion))
      BY <2>7 DEF MovePortion, view
    <3>2. unprocessed \in Nat /\ processed + Cardinality(Portion) + unprocessed >= req.length
      BY <2>5, <3>1
    <3>3. processed + Cardinality(Portion) + Short + Cardinality(todo \ Portion) >= req.length
      BY <2>5, <3>1
    <3> HIDE DEF unprocessed
    <3> QED
      BY <1>2, <2>5, <3>1, <3>2, <3>3, CountContinued
  <2>8. CASE PortionFails
    <3>1. /\ pc = "moving" /\ UNCHANGED <<map, req>>
          /\ Continue({}, left, Cardinality(Group))
      BY <2>8 DEF PortionFails, view
    <3>2. processed + Cardinality(Group) + left >= req.length
      BY <2>5, <3>1
    <3> QED
      BY <1>2, <2>5, <3>1, <3>2, CountContinued
  <2>9. CASE AbortMove
    <3>1. pc = "moving" /\ UNCHANGED <<map, req>> /\ Continue({}, left, 0)
      BY <2>9 DEF AbortMove, view
    <3>2. processed + 0 + left >= req.length
      BY <2>5, <3>1
    <3> QED
      BY <1>2, <2>5, <3>1, <3>2, CountContinued
  <2>10. CASE AssumeSuccess \/ Succeed \/ Fail \/ SucceedPartially
    BY <2>1, <2>10 DEF AssumeSuccess, Succeed, Fail, SucceedPartially, Return
  <2>11. CASE ReleaseTempSpace \/ OtherAllocates \/ OtherReleases \/ Stop \/ UNCHANGED vars
    BY <2>2, <2>11 DEF ReleaseTempSpace, OtherAllocates, OtherReleases, Stop, vars, view, call
  <2> QED
    BY <1>2, <2>3, <2>4, <2>6, <2>7, <2>8, <2>9, <2>10, <2>11 DEF Next
<1>3. CountInvariant => CountedEntirely
  BY DEF CountInvariant
<1> QED
  BY <1>1, <1>2, <1>3, StructureInvariant, PTL DEF Spec

\* A failed move leaves a flag and every cluster of a request is counted: what
\* move_file reports can be relied on (move.c 609-620, 636-662).
THEOREM MoveIsReported == Spec => []Reported
<1>1. FailureIsFlagged /\ CountedEntirely => Reported
  BY DEF Reported
<1> QED
  BY <1>1, FailuresAreFlagged, ProgressArrives, PTL

-----------------------------------------------------------------------------
(* Sums over the files, and the statistics.                                *)

\* Every set of natural numbers has a least element.
LEMMA LeastNatural ==
  ASSUME NEW T, T \subseteq Nat, T # {}
  PROVE  \E n \in T : \A m \in T : n <= m
<1> DEFINE R == OpToRel(<, Nat)
<1>1. \E x \in T : \A y \in T : ~ (<<y, x>> \in R)
  <2>1. IsWellFoundedOn(R, Nat)
    BY NatLessThanWellFounded
  <2> HIDE DEF R
  <2> QED
    BY <2>1, WFMin
<1>2. PICK x \in T : \A y \in T : ~ (<<y, x>> \in R)
  BY <1>1
<1>3. ASSUME NEW y \in T PROVE x <= y
  <2>1. x \in Nat /\ y \in Nat /\ (y < x => <<y, x>> \in R)
    BY DEF OpToRel
  <2> HIDE DEF R
  <2> QED
    BY <1>2, <2>1
<1> QED
  BY <1>3

\* The element a fold of the community modules takes from a set.
First(s) == CHOOSE x \in s : TRUE

\* h folds the function step, from base on, over every subset of S.
Folds(h, step, base, S) ==
    h = [s \in SUBSET S |->
           IF s = {} THEN base ELSE step[<<First(s), h[s \ {First(s)}]>>]]

\* h gives the sum of g over every subset of S.
Sums(h, g, S) ==
    h = [s \in SUBSET S |-> IF s = {} THEN 0 ELSE g[First(s)] + h[s \ {First(s)}]]

\* A smallest counterexample among the subsets of a finite set.
LEMMA SmallestSubset ==
  ASSUME NEW S, IsFiniteSet(S), NEW Bad \in SUBSET (SUBSET S), Bad # {}
  PROVE  \E s \in Bad : \A t \in Bad : Cardinality(s) <= Cardinality(t)
<1> DEFINE Sizes == {Cardinality(s) : s \in Bad}
<1>1. \A s \in Bad : Cardinality(s) \in Nat
  BY FS_Subset, FS_CardinalityType
<1>2. Sizes \subseteq Nat /\ Sizes # {}
  BY <1>1
<1>3. PICK k \in Sizes : \A j \in Sizes : k <= j
  <2> HIDE DEF Sizes
  <2> QED
    BY <1>2, LeastNatural
<1> QED
  BY <1>3

\* The folds exist: they are built up by the size of the subset.
LEMMA FoldsExist ==
  ASSUME NEW S, IsFiniteSet(S), NEW V, NEW base \in V, NEW step \in [S \X V -> V]
  PROVE  \E h \in [SUBSET S -> V] : Folds(h, step, base, S)
<1> DEFINE Eq(h, s) == h[s] = IF s = {} THEN base ELSE step[<<First(s), h[s \ {First(s)}]>>]
           Upto(h, n) == \A s \in SUBSET S : Cardinality(s) < n => Eq(h, s)
           Reached(n) == \E h \in [SUBSET S -> V] : Upto(h, n)
           Bad == {n \in Nat : ~Reached(n)}
<1>1. \A s \in SUBSET S : IsFiniteSet(s) /\ Cardinality(s) \in Nat
  BY FS_Subset, FS_CardinalityType
<1>2. ASSUME NEW s \in SUBSET S, s # {}
      PROVE  /\ First(s) \in s /\ First(s) \in S /\ s \ {First(s)} \in SUBSET S
             /\ Cardinality(s \ {First(s)}) = Cardinality(s) - 1
  <2>1. First(s) \in s
    BY <1>2 DEF First
  <2> QED
    BY <1>1, <2>1, FS_RemoveElement
<1>3. Reached(0)
  <2>1. [s \in SUBSET S |-> base] \in [SUBSET S -> V]
    OBVIOUS
  <2>2. Upto([s \in SUBSET S |-> base], 0)
    BY <1>1
  <2> QED
    BY <2>1, <2>2
<1>4. ASSUME NEW n \in Nat, Reached(n)
      PROVE  Reached(n + 1)
  <2>1. PICK h \in [SUBSET S -> V] : Upto(h, n)
    BY <1>4
  <2> DEFINE k == [s \in SUBSET S |->
                     IF Cardinality(s) = n
                     THEN IF s = {} THEN base ELSE step[<<First(s), h[s \ {First(s)}]>>]
                     ELSE h[s]]
  <2>2. \A s \in SUBSET S : k[s] \in V
    BY <1>2
  <2>3. k \in [SUBSET S -> V]
    BY <2>2
  <2>4. ASSUME NEW s \in SUBSET S, Cardinality(s) < n + 1
        PROVE  Eq(k, s)
    <3>1. s # {} => k[s \ {First(s)}] = h[s \ {First(s)}]
      BY <1>1, <1>2, <2>4
    <3>2. CASE Cardinality(s) = n
      BY <3>1, <3>2
    <3>3. CASE Cardinality(s) # n
      <4>1. Cardinality(s) < n
        BY <1>1, <2>4, <3>3
      <4>2. Eq(h, s)
        BY <2>1, <4>1
      <4>3. k[s] = h[s]
        BY <3>3
      <4> HIDE DEF k
      <4> QED
        BY <3>1, <4>2, <4>3
    <3> QED
      BY <3>2, <3>3
  <2> QED
    BY <2>3, <2>4
<1>5. \A n \in Nat : Reached(n)
  <2>1. SUFFICES ASSUME Bad # {} PROVE FALSE
    OBVIOUS
  <2>2. Bad \subseteq Nat
    OBVIOUS
  <2>3. PICK n \in Bad : \A m \in Bad : n <= m
    <3> HIDE DEF Bad
    <3> QED
      BY <2>1, <2>2, LeastNatural
  <2> HIDE DEF Reached
  <2>4. n \in Nat /\ n # 0
    BY <1>3, <2>3
  <2>5. n - 1 \in Nat /\ n - 1 \notin Bad
    BY <2>3, <2>4
  <2>6. Reached((n - 1) + 1)
    BY <1>4, <2>5
  <2>7. (n - 1) + 1 = n
    BY <2>4
  <2> QED
    BY <2>3, <2>6, <2>7
<1>6. PICK h \in [SUBSET S -> V] : Upto(h, Cardinality(S) + 1)
  <2>1. Cardinality(S) + 1 \in Nat
    BY FS_CardinalityType
  <2> HIDE DEF Upto
  <2> QED
    BY <1>5, <2>1
<1>7. \A s \in SUBSET S : Eq(h, s)
  <2>1. \A s \in SUBSET S : Cardinality(s) <= Cardinality(S)
    BY FS_Subset
  <2>2. Cardinality(S) \in Nat
    BY FS_CardinalityType
  <2> HIDE DEF Eq
  <2> QED
    BY <1>1, <1>6, <2>1, <2>2
<1>8. h = [s \in SUBSET S |-> IF s = {} THEN base ELSE step[<<First(s), h[s \ {First(s)}]>>]]
  BY <1>7
<1> QED
  BY <1>8 DEF Folds

\* A sum is such a fold.
LEMMA SumsExist ==
  ASSUME NEW S, IsFiniteSet(S), NEW g \in [S -> Int]
  PROVE  \E h \in [SUBSET S -> Int] : Sums(h, g, S)
<1> DEFINE step == [p \in S \X Int |-> g[p[1]] + p[2]]
<1>1. step \in [S \X Int -> Int]
  OBVIOUS
<1>2. 0 \in Int
  OBVIOUS
<1>3. PICK h \in [SUBSET S -> Int] : Folds(h, step, 0, S)
  <2> HIDE DEF step
  <2> QED
    BY <1>1, <1>2, FoldsExist, Zenon
<1>4. \A s \in SUBSET S : s # {} =>
         step[<<First(s), h[s \ {First(s)}]>>] = g[First(s)] + h[s \ {First(s)}]
  <2>1. \A s \in SUBSET S : s # {} => First(s) \in S /\ h[s \ {First(s)}] \in Int
    BY DEF First
  <2> QED
    BY <2>1
<1> HIDE DEF step
<1>5. Sums(h, g, S)
  BY <1>3, <1>4 DEF Folds, Sums
<1> QED
  BY <1>5

\* There is only one such sum.
LEMMA SumsUnique ==
  ASSUME NEW S, IsFiniteSet(S), NEW g, NEW h, NEW k, Sums(h, g, S), Sums(k, g, S)
  PROVE  h = k
<1> DEFINE Bad == {s \in SUBSET S : h[s] # k[s]}
<1>1. /\ \A s \in SUBSET S : h[s] = IF s = {} THEN 0 ELSE g[First(s)] + h[s \ {First(s)}]
      /\ \A s \in SUBSET S : k[s] = IF s = {} THEN 0 ELSE g[First(s)] + k[s \ {First(s)}]
      /\ h = [s \in SUBSET S |-> h[s]] /\ k = [s \in SUBSET S |-> k[s]]
  BY DEF Sums
<1>2. ASSUME Bad # {} PROVE FALSE
  <2>1. Bad \in SUBSET (SUBSET S)
    OBVIOUS
  <2>2. PICK s \in Bad : \A t \in Bad : Cardinality(s) <= Cardinality(t)
    <3> HIDE DEF Bad
    <3> QED
      BY <1>2, <2>1, SmallestSubset
  <2>3. s # {} /\ s \in SUBSET S
    BY <1>1
  <2>4. First(s) \in s
    BY <2>3 DEF First
  <2>5. /\ IsFiniteSet(s) /\ Cardinality(s) \in Nat
        /\ Cardinality(s \ {First(s)}) = Cardinality(s) - 1
    BY <2>3, <2>4, FS_Subset, FS_RemoveElement, FS_CardinalityType
  <2>6. s \ {First(s)} \notin Bad
    BY <2>2, <2>5
  <2>7. h[s \ {First(s)}] = k[s \ {First(s)}]
    BY <2>3, <2>6
  <2> QED
    BY <1>1, <2>3, <2>7
<1> QED
  BY <1>1, <1>2

\* What the sums h of g are shown to satisfy: any element may be taken first,
\* and two sums differ by what their summands differ in.
AnyOrder(h, g, S) == \A s \in SUBSET S : \A x \in s : h[s] = g[x] + h[s \ {x}]
Difference(k, h, q, g, x, S) == k[S] = h[S] + q[x] - g[x]
AgreeBut(q, g, x, S) == \A y \in S : y # x => q[y] = g[y]

\* The order does not matter: any element may be taken away.
LEMMA SumsTake ==
  ASSUME NEW S, IsFiniteSet(S), NEW g \in [S -> Int], NEW h \in [SUBSET S -> Int], Sums(h, g, S)
  PROVE  AnyOrder(h, g, S)
<1> DEFINE Bad == {s \in SUBSET S : \E x \in s : h[s] # g[x] + h[s \ {x}]}
<1>1. \A s \in SUBSET S : s # {} => h[s] = g[First(s)] + h[s \ {First(s)}]
  BY DEF Sums
<1>2. ASSUME Bad # {} PROVE FALSE
  <2>1. Bad \in SUBSET (SUBSET S)
    OBVIOUS
  <2>2. PICK s \in Bad : \A t \in Bad : Cardinality(s) <= Cardinality(t)
    <3> HIDE DEF Bad
    <3> QED
      BY <1>2, <2>1, SmallestSubset
  <2>3. PICK x \in s : h[s] # g[x] + h[s \ {x}]
    BY <2>2
  <2> DEFINE y == First(s)
             t == s \ {y}
             u == s \ {x}
             r == t \ {x}
  <2>4. y \in s /\ s \in SUBSET S
    BY <2>3 DEF First
  <2>5. h[s] = g[y] + h[t]
    BY <1>1, <2>3, <2>4
  <2>6. x # y
    BY <2>3, <2>5
  <2>7. /\ IsFiniteSet(s) /\ Cardinality(s) \in Nat
        /\ Cardinality(t) = Cardinality(s) - 1 /\ Cardinality(u) = Cardinality(s) - 1
    BY <2>3, <2>4, FS_Subset, FS_RemoveElement, FS_CardinalityType
  <2>8. t \in SUBSET S /\ u \in SUBSET S /\ t \notin Bad /\ u \notin Bad
    <3>1. t \notin Bad /\ u \notin Bad
      <4> HIDE DEF Bad, t, u
      <4> QED
        BY <2>2, <2>7
    <3> QED
      BY <2>4, <3>1
  <2>9. h[t] = g[x] + h[t \ {x}] /\ h[u] = g[y] + h[u \ {y}]
    <3>1. x \in t /\ y \in u
      BY <2>3, <2>4, <2>6
    <3> HIDE DEF t, u, y
    <3> QED
      BY <2>8, <3>1
  <2>10. u \ {y} = r
    OBVIOUS
  <2>11. g[x] \in Int /\ g[y] \in Int /\ h[r] \in Int
    BY <2>3, <2>4
  <2> HIDE DEF t, u, y, r
  <2>12. h[s] = g[y] + (g[x] + h[r]) /\ h[u] = g[y] + h[r]
    BY <2>5, <2>9, <2>10 DEF r
  <2>13. h[s] # g[x] + h[u]
    BY <2>3 DEF u
  <2> QED
    BY <2>11, <2>12, <2>13
<1> QED
  BY <1>2 DEF AnyOrder

\* Changing one summand changes the sum by the difference.
LEMMA SumsChange ==
  ASSUME NEW S, IsFiniteSet(S), NEW g \in [S -> Int], NEW h \in [SUBSET S -> Int], Sums(h, g, S),
         NEW q \in [S -> Int], NEW k \in [SUBSET S -> Int], Sums(k, q, S),
         NEW x \in S, AgreeBut(q, g, x, S)
  PROVE  Difference(k, h, q, g, x, S)
<1> DEFINE T == S \ {x}
           Bad == {s \in SUBSET T : h[s] # k[s]}
<1>1. /\ \A s \in SUBSET S : h[s] = IF s = {} THEN 0 ELSE g[First(s)] + h[s \ {First(s)}]
      /\ \A s \in SUBSET S : k[s] = IF s = {} THEN 0 ELSE q[First(s)] + k[s \ {First(s)}]
  BY DEF Sums
<1>2. ASSUME Bad # {} PROVE FALSE
  <2>1. Bad \in SUBSET (SUBSET T) /\ IsFiniteSet(T)
    BY FS_Subset
  <2>2. PICK s \in Bad : \A t \in Bad : Cardinality(s) <= Cardinality(t)
    <3> HIDE DEF Bad, T
    <3> QED
      BY <1>2, <2>1, SmallestSubset
  <2>3. s # {} /\ s \in SUBSET T /\ s \in SUBSET S
    BY <1>1
  <2>4. First(s) \in s
    BY <2>3 DEF First
  <2>5. /\ IsFiniteSet(s) /\ Cardinality(s) \in Nat
        /\ Cardinality(s \ {First(s)}) = Cardinality(s) - 1
    <3>1. IsFiniteSet(s)
      <4> HIDE DEF Bad
      <4> QED
        BY <2>3, FS_Subset
    <3> HIDE DEF Bad
    <3> QED
      BY <2>4, <3>1, FS_RemoveElement, FS_CardinalityType
  <2>6. s \ {First(s)} \notin Bad
    <3> HIDE DEF Bad
    <3> QED
      BY <2>2, <2>5
  <2>7. h[s \ {First(s)}] = k[s \ {First(s)}]
    BY <2>3, <2>6
  <2>8. q[First(s)] = g[First(s)]
    BY <2>3, <2>4 DEF AgreeBut
  <2> QED
    BY <1>1, <2>3, <2>7, <2>8
<1>3. h[T] = k[T]
  BY <1>2
<1>4. h[S] = g[x] + h[T] /\ k[S] = q[x] + k[T]
  <2>1. S \in SUBSET S
    OBVIOUS
  <2>2. AnyOrder(h, g, S) /\ AnyOrder(k, q, S)
    BY SumsTake
  <2> QED
    BY <2>1, <2>2 DEF AnyOrder
<1>5. g[x] \in Int /\ q[x] \in Int /\ h[T] \in Int
  OBVIOUS
<1>6. \A a, b, c \in Int : b + c = (a + c) + b - a
  OBVIOUS
<1> HIDE DEF T
<1> QED
  BY <1>3, <1>4, <1>5, <1>6 DEF Difference

\* Total is such a sum.
LEMMA TotalIsSum ==
  ASSUME NEW field \in Counters, NEW maps, NEW excluded,
         \A f \in Files : Share(maps[f], f \in excluded)[field] \in Int
  PROVE  \E h \in [SUBSET Files -> Int] :
            /\ Sums(h, [f \in Files |-> Share(maps[f], f \in excluded)[field]], Files)
            /\ Total(field, maps, excluded) = h[Files]
<1> DEFINE g == [f \in Files |-> Share(maps[f], f \in excluded)[field]]
           Iter(h) == h = [s \in SUBSET Files |->
              IF s = {} THEN 0
              ELSE Share(maps[First(s)], First(s) \in excluded)[field] + h[s \ {First(s)}]]
<1>1. Total(field, maps, excluded) = (CHOOSE h : Iter(h))[Files]
  BY DEF Total, MapThenSumSet, MapThenFoldSet, First
<1>2. g \in [Files -> Int] /\ IsFiniteSet(Files)
  BY ConstantsAssumption
<1>3. \A h : Iter(h) <=> Sums(h, g, Files)
  <2>1. \A s \in SUBSET Files : s # {} =>
           g[First(s)] = Share(maps[First(s)], First(s) \in excluded)[field]
    <3>1. \A s \in SUBSET Files : s # {} => First(s) \in Files
      BY DEF First
    <3> QED
      BY <3>1
  <2>2. ASSUME NEW h
        PROVE  [s \in SUBSET Files |->
                  IF s = {} THEN 0
                  ELSE Share(maps[First(s)], First(s) \in excluded)[field] + h[s \ {First(s)}]] =
               [s \in SUBSET Files |-> IF s = {} THEN 0 ELSE g[First(s)] + h[s \ {First(s)}]]
    <3> HIDE DEF g
    <3> QED
      BY <2>1
  <2> QED
    BY <2>2 DEF Sums
<1>4. PICK k \in [SUBSET Files -> Int] : Sums(k, g, Files)
  <2> HIDE DEF g
  <2> QED
    BY <1>2, SumsExist
<1> DEFINE h == CHOOSE x : Iter(x)
<1>5. Iter(k)
  BY <1>3, <1>4
<1>6. Iter(h)
  <2> HIDE DEF Iter
  <2> QED
    BY <1>5
<1>7. Sums(h, g, Files)
  BY <1>3, <1>6
<1>8. h = k
  <2> HIDE DEF h, g
  <2> QED
    BY <1>2, <1>4, <1>7, SumsUnique
<1> HIDE DEF h
<1> QED
  BY <1>1, <1>4, <1>8 DEF h

\* The share of a file in a counter: that of a fragmented file which is not
\* filtered out is high, that of every other file is low.
ShareOf(field, maps, excluded, f) == Share(maps[f], f \in excluded)[field]

High(m) == [fragmented |-> 1, fragments |-> Fragments(m),
            bad_fragments |-> Fragments(m), bad_clusters |-> Size(m)]
Low == [fragmented |-> 0, fragments |-> 1, bad_fragments |-> 0, bad_clusters |-> 0]

LEMMA ShareOfHigh ==
  ASSUME NEW field, NEW maps, NEW excluded, NEW f, Fragmented(maps[f]), f \notin excluded
  PROVE  ShareOf(field, maps, excluded, f) = High(maps[f])[field]
BY DEF ShareOf, Share, High

LEMMA ShareOfLow ==
  ASSUME NEW field, NEW maps, NEW excluded, NEW f, ~(Fragmented(maps[f]) /\ f \notin excluded)
  PROVE  ShareOf(field, maps, excluded, f) = Low[field]
BY DEF ShareOf, Share, Low

LEMMA HighLow ==
  ASSUME NEW m, Size(m) \in Nat, Fragments(m) \in Nat, NEW c \in Counters
  PROVE  High(m)[c] \in Int /\ Low[c] \in Int
BY DEF High, Low, Counters

LEMMA ShareOfType ==
  ASSUME NEW field \in Counters, NEW maps, NEW excluded, NEW f,
         Size(maps[f]) \in Nat, Fragments(maps[f]) \in Nat
  PROVE  ShareOf(field, maps, excluded, f) \in Int
<1>1. CASE Fragmented(maps[f]) /\ f \notin excluded
  BY <1>1, ShareOfHigh, HighLow
<1>2. CASE ~(Fragmented(maps[f]) /\ f \notin excluded)
  BY <1>2, ShareOfLow, HighLow
<1> QED
  BY <1>1, <1>2

LEMMA ShareOfSame ==
  ASSUME NEW field, NEW maps, NEW excluded, NEW others, NEW exempt, NEW f,
         others[f] = maps[f], f \in exempt <=> f \in excluded
  PROVE  ShareOf(field, others, exempt, f) = ShareOf(field, maps, excluded, f)
<1>1. CASE Fragmented(maps[f]) /\ f \notin excluded
  BY <1>1, ShareOfHigh
<1>2. CASE ~(Fragmented(maps[f]) /\ f \notin excluded)
  BY <1>2, ShareOfLow
<1> QED
  BY <1>1, <1>2

\* Changing the share of one file changes a total by the difference.
LEMMA TotalChanges ==
  ASSUME NEW field \in Counters, NEW maps, NEW excluded, NEW others, NEW exempt, NEW g \in Files,
         \A f \in Files : ShareOf(field, maps, excluded, f) \in Int,
         ShareOf(field, others, exempt, g) \in Int,
         \A f \in Files : f # g =>
            ShareOf(field, others, exempt, f) = ShareOf(field, maps, excluded, f)
  PROVE  /\ Total(field, maps, excluded) \in Int
         /\ Total(field, others, exempt) =
              Total(field, maps, excluded) + ShareOf(field, others, exempt, g)
                                           - ShareOf(field, maps, excluded, g)
<1> DEFINE old == [f \in Files |-> ShareOf(field, maps, excluded, f)]
           new == [f \in Files |-> ShareOf(field, others, exempt, f)]
<1>1. /\ old \in [Files -> Int] /\ new \in [Files -> Int]
      /\ \A f \in Files : f # g => new[f] = old[f]
      /\ old[g] = ShareOf(field, maps, excluded, g)
      /\ new[g] = ShareOf(field, others, exempt, g)
  OBVIOUS
<1>2. PICK h \in [SUBSET Files -> Int] :
         Sums(h, old, Files) /\ Total(field, maps, excluded) = h[Files]
  BY TotalIsSum DEF ShareOf
<1>3. PICK k \in [SUBSET Files -> Int] :
         Sums(k, new, Files) /\ Total(field, others, exempt) = k[Files]
  <2>1. \A f \in Files : ShareOf(field, others, exempt, f) \in Int
    OBVIOUS
  <2> QED
    BY <2>1, TotalIsSum DEF ShareOf
<1>4. IsFiniteSet(Files)
  BY ConstantsAssumption
<1> HIDE DEF old, new
<1>5. k[Files] = h[Files] + new[g] - old[g]
  <2>1. AgreeBut(new, old, g, Files)
    BY <1>1 DEF AgreeBut
  <2>2. Difference(k, h, new, old, g, Files)
    BY <1>1, <1>2, <1>3, <1>4, <2>1, SumsChange
  <2> QED
    BY <2>2 DEF Difference
<1>6. h[Files] \in Int
  BY <1>2
<1> QED
  BY <1>1, <1>2, <1>3, <1>5, <1>6


Exempt == {f \in Files : Excluded(f)}
StatisticsByFlags == \A c \in Counters : pi[c] = Total(c, map, {f \in Files : Excluded(f)})

\* Nothing the statistics depend on has changed.
LEMMA StatisticsStutter ==
  ASSUME StatisticsByFlags, UNCHANGED <<map, pi>>, \A f \in Files : Excluded(f)' <=> Excluded(f)
  PROVE  StatisticsByFlags'
<1>1. Exempt' = Exempt
  BY DEF Exempt
<1> QED
  BY <1>1 DEF StatisticsByFlags, Exempt

\* The common tail of move_file adjusts every counter by what the file it
\* has moved contributes, in each of the four cases.
LEMMA StatisticsUpdated ==
  ASSUME Structure, pc = "redump", StatisticsByFlags, NEW m, Size(m) \in Nat, Fragments(m) \in Nat,
         NEW partial \in BOOLEAN, Update(m, partial)
  PROVE  StatisticsByFlags'
<1> DEFINE was == Queued(Moving)
           became == Fragmented(m) /\ ~Filtered(m)
           old == map[Moving]
<1>1. /\ Moving \in Files /\ DOMAIN map = Files /\ DOMAIN flags = Files
  BY DEF Structure, TypeOK, Moving
<1>2. /\ map' = [map EXCEPT ![Moving] = m]
      /\ flags' = NewFlags(Filtered(m), partial)
      /\ AdjustStatistics(m, was, became)
  BY DEF Update, Queued
<1>3. /\ map'[Moving] = m
      /\ \A f \in Files : f # Moving => map'[f] = map[f] /\ flags'[f] = flags[f]
  BY <1>1, <1>2 DEF NewFlags
<1>4. ("EXCLUDED" \in flags'[Moving]) <=> Filtered(m)
  BY <1>1, <1>2 DEF NewFlags
<1>5. /\ \A f \in Files : f \in Exempt <=> Excluded(f)
      /\ \A f \in Files : f \in Exempt' <=> "EXCLUDED" \in flags'[f]
  BY DEF Exempt, Excluded
<1>6. Size(old) \in Nat /\ Fragments(old) \in Nat
  BY <1>1, ViewTyped DEF Structure
<1>7. ASSUME NEW c \in Counters
      PROVE  /\ pi[c] \in Int
             /\ Total(c, map', Exempt') =
                  pi[c] + ShareOf(c, map', Exempt', Moving) - ShareOf(c, map, Exempt, Moving)
  <2>1. \A f \in Files : ShareOf(c, map, Exempt, f) \in Int
    BY ViewTyped, ShareOfType DEF Structure
  <2>2. ShareOf(c, map', Exempt', Moving) \in Int
    BY <1>3, ShareOfType
  <2>3. \A f \in Files : f # Moving =>
           ShareOf(c, map', Exempt', f) = ShareOf(c, map, Exempt, f)
    BY <1>3, <1>5, ShareOfSame DEF Excluded
  <2>4. pi[c] = Total(c, map, Exempt)
    BY DEF StatisticsByFlags, Exempt
  <2> QED
    BY <1>1, <2>1, <2>2, <2>3, <2>4, TotalChanges
<1>8. ASSUME NEW c \in Counters
      PROVE  /\ ShareOf(c, map, Exempt, Moving) = IF was THEN High(old)[c] ELSE Low[c]
             /\ ShareOf(c, map', Exempt', Moving) = IF became THEN High(m)[c] ELSE Low[c]
  <2>1. was <=> Fragmented(old) /\ Moving \notin Exempt
    BY <1>1, <1>5 DEF Queued
  <2>2. became <=> Fragmented(map'[Moving]) /\ Moving \notin Exempt'
    BY <1>1, <1>3, <1>4, <1>5
  <2> HIDE DEF was, became
  <2> QED
    BY <1>3, <2>1, <2>2, ShareOfHigh, ShareOfLow
<1>9. ASSUME NEW c \in Counters
      PROVE  pi'[c] = Total(c, map', Exempt')
  <2>1. pi[c] \in Int /\ High(m)[c] \in Int /\ High(old)[c] \in Int /\ Low[c] \in Int
    BY <1>6, <1>7, HighLow
  <2>2. pi'[c] = pi[c] + (IF became THEN High(m)[c] ELSE Low[c])
                       - (IF was THEN High(old)[c] ELSE Low[c])
    <3>1. /\ pi.fragmented \in Int /\ pi.fragments \in Int
          /\ pi.bad_fragments \in Int /\ pi.bad_clusters \in Int
      BY <1>7 DEF Counters
    <3>2. CASE became /\ ~was
      <4>1. pi' = [fragmented |-> pi.fragmented + 1, fragments |-> pi.fragments + (Fragments(m) - 1),
                   bad_fragments |-> pi.bad_fragments + Fragments(m),
                   bad_clusters |-> pi.bad_clusters + Size(m)]
        BY <1>2, <3>2, Zenon DEF AdjustStatistics
      <4> HIDE DEF was, became
      <4> QED
        BY <1>6, <3>1, <3>2, <4>1 DEF High, Low, Counters
    <3>3. CASE became /\ was
      <4>1. pi' = [fragmented |-> pi.fragmented + 0,
                   fragments |-> pi.fragments + (Fragments(m) - Fragments(old)),
                   bad_fragments |-> pi.bad_fragments + (Fragments(m) - Fragments(old)),
                   bad_clusters |-> pi.bad_clusters + (Size(m) - Size(old))]
        BY <1>2, <3>3 DEF AdjustStatistics
      <4> HIDE DEF was, became
      <4> QED
        BY <1>6, <3>1, <3>3, <4>1 DEF High, Low, Counters
    <3>4. CASE ~became /\ was
      <4>1. pi' = [fragmented |-> pi.fragmented + (-1),
                   fragments |-> pi.fragments + (1 - Fragments(old)),
                   bad_fragments |-> pi.bad_fragments + (-Fragments(old)),
                   bad_clusters |-> pi.bad_clusters + (-Size(old))]
        BY <1>2, <3>4 DEF AdjustStatistics
      <4> HIDE DEF was, became
      <4> QED
        BY <1>6, <3>1, <3>4, <4>1 DEF High, Low, Counters
    <3>5. CASE ~became /\ ~was
      <4>1. pi' = pi
        BY <1>2, <3>5 DEF AdjustStatistics
      <4> HIDE DEF was, became
      <4> QED
        BY <1>7, <3>5, <4>1, HighLow
    <3> QED
      BY <3>2, <3>3, <3>4, <3>5
  <2> QED
    BY <1>7, <1>8, <2>2
<1> QED
  BY <1>9 DEF StatisticsByFlags, Exempt

LEMMA StatisticsInvariance == Spec => []StatisticsByFlags
<1>1. Init => StatisticsByFlags
  <2>1. Init => \A c \in Counters : pi[c] = Total(c, real, {f \in Files : Excluded(f)}) /\ map = real
    BY DEF Init
  <2> QED
    BY <2>1 DEF StatisticsByFlags
<1>2. ASSUME Structure, StatisticsByFlags, [Next]_vars
      PROVE  StatisticsByFlags'
  <2>1. ASSUME NEW f \in Files, Reject(f) \/ OpenFails(f)
        PROVE  StatisticsByFlags'
    <3>1. /\ UNCHANGED <<map, pi>>
          /\ AddFlag(f, "IMPROPER_STATE") \/ AddFlag(f, "LOCKED")
      BY <2>1 DEF Reject, OpenFails
    <3>2. \A g \in Files : Excluded(g)' <=> Excluded(g)
      BY <1>2, <3>1 DEF AddFlag, Excluded, Structure, TypeOK
    <3> QED
      BY <1>2, <3>1, <3>2, StatisticsStutter
  <2>2. ASSUME UNCHANGED <<map, pi, flags>>
        PROVE  StatisticsByFlags'
    BY <1>2, <2>2, StatisticsStutter DEF Excluded
  <2>3. ASSUME NEW f \in Files, Open(f)
        PROVE  StatisticsByFlags'
    BY <2>2, <2>3 DEF Open, view
  <2>4. CASE MoveDryRun \/ MovePortion \/ PortionFails \/ AbortMove
    BY <2>2, <2>4 DEF MoveDryRun, MovePortion, PortionFails, AbortMove, view
  <2>5. CASE AssumeSuccess \/ Succeed \/ SucceedPartially
    <3>1. pc = "redump" /\ \E m \in {Wanted, real[Moving]}, partial \in BOOLEAN : Update(m, partial)
      BY <2>5 DEF AssumeSuccess, Succeed, SucceedPartially
    <3>2. PICK m \in {Wanted, real[Moving]}, partial \in BOOLEAN : Update(m, partial)
      BY <3>1
    <3>3. Moving \in Files /\ IsFileMap(real[Moving])
      BY <1>2 DEF Structure, TypeOK, Moving
    <3>4. DOMAIN m = DOMAIN real[Moving]
      BY <1>2, <3>3, ViewTyped DEF Structure, Wanted, Desired
    <3>5. Size(m) \in Nat /\ Fragments(m) \in Nat
      <4>1. IsFiniteSet(DOMAIN m) /\ Starts(m) \in SUBSET DOMAIN m
        BY <3>3, <3>4 DEF Starts, IsFileMap
      <4> QED
        BY <4>1, FS_Subset, FS_CardinalityType DEF Size, Fragments
    <3> QED
      BY <1>2, <3>1, <3>2, <3>5, StatisticsUpdated
  <2>6. CASE Fail
    <3>1. UNCHANGED <<map, pi>> /\ AddFlag(Moving, "MOVING_FAILED")
      BY <2>6 DEF Fail
    <3>2. \A g \in Files : Excluded(g)' <=> Excluded(g)
      BY <1>2, <3>1 DEF AddFlag, Excluded, Structure, TypeOK
    <3> QED
      BY <1>2, <3>1, <3>2, StatisticsStutter
  <2>7. CASE ReleaseTempSpace \/ OtherAllocates \/ OtherReleases \/ Stop \/ UNCHANGED vars
    BY <2>2, <2>7 DEF ReleaseTempSpace, OtherAllocates, OtherReleases, Stop, vars, view
  <2> QED
    BY <1>2, <2>1, <2>3, <2>4, <2>5, <2>6, <2>7 DEF Next
<1> QED
  BY <1>1, <1>2, StructureInvariant, PTL DEF Spec

\* The statistics shown to the user are those an analysis of the maps would
\* count, whatever has been moved, in part or not at all, except that a file
\* its path rejects counts like any other after its first move (move.c
\* 694-768).
THEOREM StatisticsStayExact == Spec => []StatisticsExact
<1>1. StatisticsByFlags /\ FlagsFollow => StatisticsExact
  <2>1. ASSUME FlagsFollow
        PROVE  {f \in Files : Excluded(f)} = {f \in Files : Rejected(f)}
    BY <2>1 DEF FlagsFollow
  <2> QED
    BY <2>1 DEF StatisticsByFlags, StatisticsExact
<1> QED
  BY <1>1, StatisticsInvariance, FlagsInvariance, PTL

-----------------------------------------------------------------------------
(* The cluster map: arrays of counters and the pictures they are drawn     *)
(* from, one colour for every cluster.                                     *)

\* The colours a cluster is drawn with when no zone is drawn.
Plain == ColourSet \ {"ZONE"}
Arrays == [Cells -> [ColourSet -> Nat]]
Pictures == [Clusters -> Plain]

CountOf(pic, cell, colour) == Cardinality({c \in ClustersIn(cell) : pic[c] = colour})
Depicts(cells, pic) ==
    \A cell \in 0 .. UsedCells - 1 : \A colour \in Plain :
        cells[cell][colour] = CountOf(pic, cell, colour)

Painted(pic, S, new) == [c \in Clusters |-> IF c \in S THEN new ELSE pic[c]]

LEMMA ColoursAre ==
  ColourSet = {"DEFAULT", "UNUSED", "FREE", "SYSTEM", "FRAGM", "UNFRAGM", "DIR", "ZONE"}
<1>1. DOMAIN Colours = 1 .. 8
  BY DEF Colours
<1>2. /\ Colours[1] = "DEFAULT" /\ Colours[2] = "UNUSED" /\ Colours[3] = "FREE"
      /\ Colours[4] = "SYSTEM" /\ Colours[5] = "FRAGM" /\ Colours[6] = "UNFRAGM"
      /\ Colours[7] = "DIR" /\ Colours[8] = "ZONE"
  BY DEF Colours
<1>3. \A k \in 1 .. 8 : k \in {1, 2, 3, 4, 5, 6, 7, 8}
  OBVIOUS
<1> HIDE DEF Colours
<1>4. ASSUME NEW k \in DOMAIN Colours
      PROVE  Colours[k] \in {"DEFAULT", "UNUSED", "FREE", "SYSTEM", "FRAGM", "UNFRAGM", "DIR", "ZONE"}
  BY <1>1, <1>2, <1>3
<1>5. \A colour \in {"DEFAULT", "UNUSED", "FREE", "SYSTEM", "FRAGM", "UNFRAGM", "DIR", "ZONE"} :
         \E k \in DOMAIN Colours : Colours[k] = colour
  BY <1>1, <1>2
<1> QED
  BY <1>4, <1>5 DEF ColourSet

\* The clusters of a cell are finitely many clusters of the volume.
LEMMA CellFinite ==
  ASSUME NEW cell, NEW S \in SUBSET ClustersIn(cell)
  PROVE  IsFiniteSet(S) /\ Cardinality(S) \in Nat /\ S \subseteq Clusters
<1>1. ClustersIn(cell) \in SUBSET Clusters
  BY DEF ClustersIn
<1>2. IsFiniteSet(Clusters)
  BY ConstantsAssumption, FS_Interval DEF Clusters
<1> QED
  BY <1>1, <1>2, FS_Subset, FS_CardinalityType

LEMMA CountType ==
  ASSUME NEW pic, NEW cell, NEW colour
  PROVE  CountOf(pic, cell, colour) \in Nat
BY CellFinite DEF CountOf

\* If there are more cells than clusters a cell stands for one of them at most.
LEMMA OneCluster ==
  ASSUME OppositeOrder, NEW cell, NEW c \in ClustersIn(cell), NEW d \in ClustersIn(cell)
  PROVE  c = d
BY DEF ClustersIn

LEMMA LessType ==
  ASSUME NEW m \in Nat, NEW n \in Nat
  PROVE  Less(m, n) \in Nat
BY DEF Less

\* An array of counters stays one.
LEMMA ColorizedType ==
  ASSUME NEW cells \in Arrays, NEW S, NEW new \in ColourSet, NEW old \in ColourSet
  PROVE  Colorized(cells, S, new, old) \in Arrays
<1> DEFINE n(cell) == Cardinality(S \cap ClustersIn(cell))
           k(cell) ==
             IF n(cell) = 0 \/ new = old THEN cells[cell]
             ELSE IF new = "ZONE"
             THEN [cells[cell] EXCEPT ![new] = IF OppositeOrder THEN 1 ELSE @ + n(cell)]
             ELSE IF OppositeOrder
             THEN [colour \in ColourSet |-> IF colour = new THEN 1 ELSE 0]
             ELSE [cells[cell] EXCEPT ![new] = @ + n(cell), ![old] = Less(@, n(cell))]
<1>1. ASSUME NEW cell \in Cells
      PROVE  k(cell) \in [ColourSet -> Nat]
  <2> DEFINE row == cells[cell]
             m == n(cell)
  <2>1. row \in [ColourSet -> Nat]
    BY DEF Arrays
  <2>2. m \in Nat
    BY CellFinite
  <2> HIDE DEF row, m
  <2>3. row[new] \in Nat /\ row[new] + m \in Nat /\ \A x \in Nat : Less(x, m) \in Nat
    <3>1. row[new] \in Nat
      BY <2>1
    <3>2. \A x \in Nat : Less(x, m) \in Nat
      BY <2>2, LessType
    <3> QED
      BY <2>2, <3>1, <3>2
  <2>4. [row EXCEPT ![new] = IF OppositeOrder THEN 1 ELSE @ + m] \in [ColourSet -> Nat]
    BY <2>1, <2>3 DEF row
  <2>5. [colour \in ColourSet |-> IF colour = new THEN 1 ELSE 0] \in [ColourSet -> Nat]
    OBVIOUS
  <2>6. [row EXCEPT ![new] = @ + m, ![old] = Less(@, m)] \in [ColourSet -> Nat]
    BY <2>1, <2>3 DEF row
  <2> QED
    BY <2>1, <2>4, <2>5, <2>6 DEF row, m
<1>2. Colorized(cells, S, new, old) = [cell \in Cells |-> k(cell)]
  BY DEF Colorized
<1> HIDE DEF k
<1> QED
  BY <1>1, <1>2 DEF Arrays

LEMMA DivideUp ==
  ASSUME NEW a \in Nat, NEW b \in Nat \ {0}
  PROVE  /\ Ceiling(a, b) \in Nat
         /\ a <= b * Ceiling(a, b) /\ b * Ceiling(a, b) < a + b
<1>1. a + b - 1 \in Nat
  OBVIOUS
<1> DEFINE q == (a + b - 1) \div b
<1>2. q \in Nat /\ b * q <= a + b - 1 /\ a + b - 1 < b * q + b
  BY <1>1
<1>3. b * q \in Nat
  BY <1>2
<1> HIDE DEF q
<1> QED
  BY <1>2, <1>3 DEF Ceiling, q

\* Every used cell is a cell.
LEMMA UsedCellsExist ==
  /\ UsedCells \in Nat /\ UsedCells <= MapSize
  /\ OppositeOrder => CellsPerCluster \in Nat \ {0}
  /\ ~OppositeOrder => /\ ClustersPerCell \in Nat \ {0}
                       /\ NClusters <= ClustersPerCell * UsedCells
                       /\ ClustersPerCell * UsedCells < NClusters + ClustersPerCell
<1>0. MapSize \in Nat \ {0} /\ NClusters \in Nat \ {0}
  BY MapAssumption, ConstantsAssumption
<1>1. CASE OppositeOrder
  <2> DEFINE q == MapSize \div NClusters
  <2>1. q \in Nat /\ NClusters * q <= MapSize /\ MapSize < NClusters * q + NClusters
    BY <1>0
  <2>2. NClusters < MapSize
    <3> DEFINE r == NClusters \div MapSize
    <3>1. r \in Nat /\ NClusters < MapSize * r + MapSize
      BY <1>0
    <3>2. r = 0
      BY <1>1 DEF OppositeOrder
    <3> HIDE DEF r
    <3> QED
      BY <1>0, <3>1, <3>2
  <2>3. q # 0
    <3> HIDE DEF q
    <3> QED
      BY <1>0, <2>1, <2>2
  <2>4. UsedCells = q * NClusters /\ CellsPerCluster = q
    BY <1>1 DEF UsedCells, CellsPerCluster
  <2> HIDE DEF q
  <2> QED
    BY <1>0, <1>1, <2>1, <2>3, <2>4
<1>2. CASE ~OppositeOrder
  <2> DEFINE k == ClustersPerCell
             u == Ceiling(NClusters, k)
  <2>1. k \in Nat /\ NClusters <= MapSize * k /\ MapSize * k < NClusters + MapSize
    BY <1>0, DivideUp DEF ClustersPerCell
  <2>2. k # 0
    BY <1>0, <2>1
  <2>3. u \in Nat /\ NClusters <= k * u /\ k * u < NClusters + k
    <3> HIDE DEF k
    <3> QED
      BY <1>0, <2>1, <2>2, DivideUp
  <2>4. u <= MapSize
    <3>1. k * u < MapSize * k + k
      <4>1. k * u \in Nat /\ MapSize * k \in Nat
        <5> HIDE DEF k, u
        <5> QED
          BY <1>0, <2>1, <2>3
      <4> HIDE DEF k, u
      <4> QED
        BY <1>0, <2>1, <2>3, <4>1
    <3>2. k * u < k * (MapSize + 1)
      <4> HIDE DEF k, u
      <4> QED
        BY <1>0, <2>1, <2>3, <3>1
    <3>3. u < MapSize + 1
      <4> HIDE DEF k, u
      <4> QED
        BY <1>0, <2>1, <2>2, <2>3, <3>2
    <3> HIDE DEF k, u
    <3> QED
      BY <1>0, <2>3, <3>3
  <2> HIDE DEF k, u
  <2> QED
    BY <1>2, <2>1, <2>2, <2>3, <2>4 DEF UsedCells, k, u
<1> QED
  BY <1>1, <1>2

\* A set of clusters of one colour is drawn in another one: the counters are
\* those of the picture which results.
LEMMA Paint ==
  ASSUME NEW cells \in Arrays, NEW pic \in Pictures, Depicts(cells, pic),
         NEW S \in SUBSET Clusters, NEW new \in Plain, NEW old \in Plain,
         \A c \in S : pic[c] = old
  PROVE  /\ Painted(pic, S, new) \in Pictures
         /\ Depicts(Colorized(cells, S, new, old), Painted(pic, S, new))
<1> DEFINE q == Painted(pic, S, new)
           k == Colorized(cells, S, new, old)
<1>1. q \in Pictures
  BY DEF Painted, Pictures
<1>2. ASSUME NEW cell \in 0 .. UsedCells - 1, NEW colour \in Plain
      PROVE  k[cell][colour] = CountOf(q, cell, colour)
  <2> DEFINE B == ClustersIn(cell)
             T == S \cap B
             n == Cardinality(T)
             Was(x) == {c \in B : pic[c] = x}
             Is(x) == {c \in B : q[c] = x}
             row == cells[cell]
  <2>1. cell \in Cells
    BY UsedCellsExist, MapAssumption DEF Cells
  <2>2. row \in [ColourSet -> Nat] /\ \A x \in Plain : row[x] = Cardinality(Was(x))
    BY <2>1 DEF Arrays, Depicts, CountOf
  <2>3. CountOf(q, cell, colour) = Cardinality(Is(colour))
    BY DEF CountOf
  <2>4. B \subseteq Clusters /\ IsFiniteSet(T) /\ n \in Nat
    BY CellFinite
  <2>5. \A c \in B : q[c] = IF c \in T THEN new ELSE pic[c]
    BY <2>4 DEF Painted
  <2>6. \A c \in T : pic[c] = old
    OBVIOUS
  <2>7. \A x : /\ IsFiniteSet(Was(x)) /\ Cardinality(Was(x)) \in Nat
              /\ IsFiniteSet(Is(x)) /\ Cardinality(Is(x)) \in Nat
    BY CellFinite
  <2>8. new \in ColourSet /\ old \in ColourSet /\ new # "ZONE" /\ old # "ZONE"
        /\ colour \in ColourSet /\ colour # "ZONE"
    BY DEF Plain
  <2>9. k[cell] = IF n = 0 \/ new = old THEN row
                  ELSE IF OppositeOrder THEN [x \in ColourSet |-> IF x = new THEN 1 ELSE 0]
                  ELSE [row EXCEPT ![new] = @ + n, ![old] = Less(@, n)]
    BY <2>1, <2>8 DEF Colorized
  <2> HIDE DEF q, k, B, row, Was, Is
  <2>10. CASE n = 0 \/ new = old
    <3>1. Is(colour) = Was(colour)
      <4>1. CASE n = 0
        <5>1. T = {}
          BY <2>4, <4>1, FS_EmptySet
        <5> QED
          BY <2>5, <5>1 DEF Is, Was
      <4>2. CASE new = old
        BY <2>5, <2>6, <4>2 DEF Is, Was
      <4> QED
        BY <2>10, <4>1, <4>2
    <3>2. k[cell] = row
      BY <2>9, <2>10
    <3> QED
      BY <2>2, <2>3, <3>1, <3>2
  <2>11. CASE n # 0 /\ new # old /\ OppositeOrder
    <3>1. PICK c \in T : TRUE
      BY <2>4, <2>11, FS_EmptySet
    <3>2. T = {c} /\ B = {c}
      BY <2>11, <3>1, OneCluster DEF B
    <3>3. Is(colour) = IF colour = new THEN {c} ELSE {}
      BY <2>5, <3>2 DEF Is
    <3>4. Cardinality({c}) = 1 /\ Cardinality({}) = 0
      BY FS_Singleton, FS_EmptySet
    <3>5. k[cell] = [x \in ColourSet |-> IF x = new THEN 1 ELSE 0]
      BY <2>8, <2>9, <2>11
    <3> QED
      BY <2>3, <2>8, <3>3, <3>4, <3>5
  <2>12. CASE n # 0 /\ new # old /\ ~OppositeOrder
    <3>1. k[cell] = [row EXCEPT ![new] = @ + n, ![old] = Less(@, n)]
      BY <2>8, <2>9, <2>12
    <3>2. CASE colour = new
      <4>1. Is(new) = Was(new) \cup T /\ Was(new) \cap T = {}
        BY <2>5, <2>6, <2>12 DEF Is, Was
      <4>2. Cardinality(Is(new)) = Cardinality(Was(new)) + n
        <5>1. T \in SUBSET Is(new) /\ Is(new) \ T = Was(new)
          BY <4>1
        <5>2. IsFiniteSet(Is(new))
          BY <2>7
        <5>3. Cardinality(Is(new)) = n + Cardinality(Was(new))
          <6> HIDE DEF T
          <6> QED
            BY <5>1, <5>2, SplitCardinality DEF n
        <5> QED
          BY <2>4, <2>7, <5>3
      <4> QED
        BY <2>2, <2>3, <2>8, <2>12, <3>1, <3>2, <4>2
    <3>3. CASE colour = old
      <4>1. Is(old) = Was(old) \ T /\ T \in SUBSET Was(old)
        BY <2>5, <2>6, <2>12 DEF Is, Was
      <4>2. /\ Cardinality(Was(old)) = n + Cardinality(Is(old))
            /\ Cardinality(Is(old)) \in Nat
        <5>1. IsFiniteSet(Was(old)) /\ Cardinality(Is(old)) \in Nat
          BY <2>7
        <5> HIDE DEF T
        <5>2. Cardinality(Was(old)) = n + Cardinality(Is(old))
          BY <4>1, <5>1, SplitCardinality DEF n
        <5> QED
          BY <5>1, <5>2
      <4>3. Less(Cardinality(Was(old)), n) = Cardinality(Is(old))
        BY <2>4, <4>2 DEF Less
      <4> QED
        BY <2>2, <2>3, <2>8, <2>12, <3>1, <3>3, <4>3
    <3>4. CASE colour # new /\ colour # old
      <4>1. Is(colour) = Was(colour)
        BY <2>5, <2>6, <3>4 DEF Is, Was
      <4> QED
        BY <2>2, <2>3, <2>8, <3>1, <3>4, <4>1
    <3> QED
      BY <3>2, <3>3, <3>4
  <2> QED
    BY <2>10, <2>11, <2>12
<1> QED
  BY <1>1, <1>2 DEF Depicts

\* Division by a number which is not zero.
LEMMA Divide ==
  ASSUME NEW a \in Nat, NEW b \in Nat \ {0}
  PROVE  /\ a \div b \in Nat /\ b * (a \div b) <= a /\ a < b * (a \div b) + b
         /\ \A q \in Nat : b * q <= a /\ a < b * q + b => a \div b = q
OBVIOUS

\* What a full cell counts is the number of its clusters, which is not zero.
LEMMA FullIs ==
  ASSUME NEW cell \in 0 .. UsedCells - 1
  PROVE  Full(cell) = Cardinality(ClustersIn(cell)) /\ Full(cell) \in Nat \ {0}
<1>0. /\ MapSize \in Nat \ {0} /\ NClusters \in Nat \ {0}
      /\ UsedCells \in Nat /\ cell \in Nat /\ cell <= UsedCells - 1
  BY MapAssumption, ConstantsAssumption, UsedCellsExist
<1>1. CASE OppositeOrder
  <2> DEFINE q == CellsPerCluster
             c == cell \div q
  <2>1. q \in Nat \ {0}
    BY <1>1, UsedCellsExist
  <2>2. UsedCells = q * NClusters
    BY <1>1 DEF UsedCells
  <2>3. c \in Nat /\ q * c <= cell
    <3> HIDE DEF q
    <3> QED
      BY <1>0, <2>1, Divide
  <2>4. c < NClusters
    <3> HIDE DEF q, c
    <3>1. q * c < q * NClusters
      BY <1>0, <2>1, <2>2, <2>3
    <3> QED
      BY <1>0, <2>1, <2>3, <3>1
  <2>5. ClustersIn(cell) = {c}
    BY <1>0, <1>1, <2>3, <2>4 DEF ClustersIn, Clusters
  <2>6. Full(cell) = 1
    BY <1>1 DEF Full
  <2> HIDE DEF c
  <2>7. Cardinality(ClustersIn(cell)) = 1
    BY <2>5, FS_Singleton
  <2> QED
    BY <2>6, <2>7
<1>2. CASE ~OppositeOrder
  <2> DEFINE k == ClustersPerCell
             u == UsedCells
             hi == IF cell = u - 1 THEN NClusters - 1 ELSE k * cell + k - 1
  <2>1. k \in Nat \ {0} /\ u \in Nat /\ NClusters <= k * u /\ k * u < NClusters + k
    BY <1>2, UsedCellsExist
  <2>2. k * cell \in Nat /\ k * (u - 1) = k * u - k
    <3> HIDE DEF k, u
    <3> QED
      BY <1>0, <2>1
  <2>3. cell # u - 1 => k * cell + k <= k * (u - 1)
    <3>1. ASSUME cell # u - 1
          PROVE  k * (cell + 1) <= k * (u - 1)
      <4>1. cell + 1 <= u - 1 /\ cell + 1 \in Nat /\ u - 1 \in Nat
        BY <1>0, <3>1
      <4> HIDE DEF k, u
      <4> QED
        BY <2>1, <4>1
    <3>2. k * (cell + 1) = k * cell + k
      <4> HIDE DEF k, u
      <4> QED
        BY <1>0, <2>1
    <3> QED
      BY <3>1, <3>2
  <2>4. k * (u - 1) < NClusters /\ NClusters <= k * (u - 1) + k
    <3> HIDE DEF k, u
    <3> QED
      BY <1>0, <2>1, <2>2
  <2>5. hi \in Nat /\ k * cell <= hi /\ hi <= NClusters - 1 /\ hi <= k * cell + k - 1
        /\ (hi = k * cell + k - 1 \/ hi = NClusters - 1)
    <3>1. CASE cell = u - 1
      <4>1. k * cell = k * (u - 1)
        BY <3>1
      <4> HIDE DEF k, u
      <4> QED
        BY <1>0, <2>1, <2>2, <2>4, <3>1, <4>1
    <3>2. CASE cell # u - 1
      <4>1. k * (u - 1) \in Int
        <5> HIDE DEF k, u
        <5> QED
          BY <1>0, <2>1
      <4> HIDE DEF k, u
      <4> QED
        BY <1>0, <2>1, <2>2, <2>3, <2>4, <3>2, <4>1
    <3> QED
      BY <3>1, <3>2
  <2>6. ASSUME NEW c \in Clusters
        PROVE  c \div k = cell <=> c \in k * cell .. hi
    <3>1. c \in Nat /\ c <= NClusters - 1
      BY <1>0 DEF Clusters
    <3>2. c \div k \in Nat /\ k * (c \div k) <= c /\ c < k * (c \div k) + k
          /\ (k * cell <= c /\ c < k * cell + k => c \div k = cell)
      <4> HIDE DEF k
      <4> QED
        BY <1>0, <2>1, <3>1, Divide
    <3> DEFINE d == c \div k
    <3> HIDE DEF k, hi, d
    <3>3. CASE d = cell
      BY <1>0, <2>1, <2>2, <2>5, <3>1, <3>2, <3>3 DEF d
    <3>4. CASE c \in k * cell .. hi
      BY <1>0, <2>1, <2>2, <2>5, <3>1, <3>2, <3>4 DEF d
    <3> QED
      BY <3>3, <3>4 DEF d
  <2>7. ClustersIn(cell) = k * cell .. hi
    <3>1. ClustersIn(cell) = {c \in Clusters : c \div k = cell}
      BY <1>2 DEF ClustersIn
    <3>2. k * cell .. hi \subseteq Clusters
      <4> HIDE DEF k, hi
      <4> QED
        BY <1>0, <2>2, <2>5 DEF Clusters
    <3> HIDE DEF k, hi
    <3> QED
      BY <2>6, <3>1, <3>2
  <2>8. Cardinality(ClustersIn(cell)) = hi - k * cell + 1
    <3> HIDE DEF k, hi
    <3> QED
      BY <2>2, <2>5, <2>7, FS_Interval
  <2>9. Full(cell) = hi - k * cell + 1
    <3>1. CASE cell = u - 1
      <4>1. Full(cell) = NClusters - k * cell /\ hi = NClusters - 1
        BY <1>2, <3>1 DEF Full
      <4> HIDE DEF k, hi
      <4> QED
        BY <1>0, <2>2, <4>1
    <3>2. CASE cell # u - 1
      <4>1. Full(cell) = k /\ hi = k * cell + k - 1
        BY <1>2, <3>2 DEF Full
      <4> HIDE DEF k, hi
      <4> QED
        BY <2>1, <2>2, <4>1
    <3> QED
      BY <3>1, <3>2
  <2> HIDE DEF k, hi
  <2> QED
    BY <2>2, <2>5, <2>8, <2>9
<1> QED
  BY <1>1, <1>2

\* An empty map shows every cluster in the default colour.
LEMMA BlankDepicts ==
  /\ Blank \in Arrays
  /\ [c \in Clusters |-> "DEFAULT"] \in Pictures
  /\ Depicts(Blank, [c \in Clusters |-> "DEFAULT"])
<1> DEFINE pic == [c \in Clusters |-> "DEFAULT"]
<1>1. ASSUME NEW cell \in Cells, cell < UsedCells
      PROVE  cell \in 0 .. UsedCells - 1
  BY <1>1, UsedCellsExist, MapAssumption DEF Cells
<1>2. \A cell \in 0 .. UsedCells - 1 : cell \in Cells /\ cell < UsedCells
  BY UsedCellsExist, MapAssumption DEF Cells
<1>3. ASSUME NEW cell \in Cells
      PROVE  Full(cell) \in Nat
  <2>1. CASE cell < UsedCells
    BY <1>1, <2>1, FullIs
  <2>2. CASE ~(cell < UsedCells)
    <3>1. cell # UsedCells - 1
      BY <2>2, UsedCellsExist, MapAssumption DEF Cells
    <3> QED
      BY <3>1, UsedCellsExist DEF Full
  <2> QED
    BY <2>1, <2>2
<1>4. Blank \in Arrays
  <2>1. \A cell \in Cells, colour \in ColourSet :
          (IF colour = IF cell < UsedCells THEN "DEFAULT" ELSE "UNUSED" THEN Full(cell) ELSE 0) \in Nat
    BY <1>3
  <2> QED
    BY <2>1 DEF Blank, Arrays
<1>5. pic \in Pictures
  BY ColoursAre DEF Pictures, Plain
<1>6. ASSUME NEW cell \in 0 .. UsedCells - 1, NEW colour \in Plain
      PROVE  Blank[cell][colour] = CountOf(pic, cell, colour)
  <2>1. Blank[cell][colour] = IF colour = "DEFAULT" THEN Full(cell) ELSE 0
    BY <1>2 DEF Blank, Plain
  <2>2. \A c \in ClustersIn(cell) : pic[c] = "DEFAULT"
    BY DEF ClustersIn
  <2>3. CASE colour = "DEFAULT"
    <3>1. {c \in ClustersIn(cell) : pic[c] = colour} = ClustersIn(cell)
      BY <2>2, <2>3
    <3> QED
      BY <2>1, <2>3, <3>1, FullIs DEF CountOf
  <2>4. CASE colour # "DEFAULT"
    <3>1. {c \in ClustersIn(cell) : pic[c] = colour} = {}
      BY <2>2, <2>4
    <3> QED
      BY <2>1, <2>4, <3>1, FS_EmptySet DEF CountOf
  <2> QED
    BY <2>3, <2>4
<1> QED
  BY <1>4, <1>5, <1>6 DEF Depicts

\* The zone is drawn over what is there.
LEMMA ZoneDrawn ==
  ASSUME NEW cells \in Arrays, NEW pic, Depicts(cells, pic)
  PROVE  DrawZone(cells) \in Arrays /\ Depicts(DrawZone(cells), pic)
<1>0. "ZONE" \in ColourSet /\ "DEFAULT" \in ColourSet
  BY ColoursAre
<1>1. CASE fs # "NTFS"
  BY <1>1 DEF DrawZone
<1>2. CASE fs = "NTFS"
  <2> DEFINE k == Colorized(cells, Zone, "ZONE", "DEFAULT")
  <2>1. k \in Arrays
    BY <1>0, ColorizedType
  <2>2. ASSUME NEW cell \in Cells, NEW colour \in Plain
        PROVE  k[cell][colour] = cells[cell][colour]
    <3>1. cells[cell] \in [ColourSet -> Nat] /\ colour \in ColourSet /\ colour # "ZONE"
      BY DEF Arrays, Plain
    <3> DEFINE n == Cardinality(Zone \cap ClustersIn(cell))
    <3>2. k[cell] = IF n = 0 THEN cells[cell]
                    ELSE [cells[cell] EXCEPT !["ZONE"] = IF OppositeOrder THEN 1 ELSE @ + n]
      BY DEF Colorized
    <3> HIDE DEF n, k
    <3> QED
      BY <3>1, <3>2
  <2>3. \A cell \in 0 .. UsedCells - 1 : cell \in Cells
    BY UsedCellsExist, MapAssumption DEF Cells
  <2>4. DrawZone(cells) = k
    BY <1>2 DEF DrawZone
  <2> HIDE DEF k
  <2> QED
    BY <2>1, <2>2, <2>3, <2>4 DEF Depicts
<1> QED
  BY <1>1, <1>2

\* What is known of the counter of the zone: in the normal order it is the
\* number of clusters of the zone, in the other one files take it away.
ZoneIs(cells, type) ==
    \A cell \in 0 .. UsedCells - 1 :
        IF OppositeOrder
        THEN cells[cell]["ZONE"] > 0 => type = "NTFS" /\ ClustersIn(cell) \subseteq Zone
        ELSE cells[cell]["ZONE"] = IF type = "NTFS" THEN Cardinality(Zone \cap ClustersIn(cell)) ELSE 0

\* No other colour changes the counter of the zone, but in the opposite order
\* it replaces it.
LEMMA ZoneUntouched ==
  ASSUME NEW cells \in Arrays, NEW S, NEW new \in Plain, NEW old \in Plain, NEW cell \in Cells
  PROVE  \/ Colorized(cells, S, new, old)[cell]["ZONE"] = cells[cell]["ZONE"]
         \/ OppositeOrder /\ Colorized(cells, S, new, old)[cell]["ZONE"] = 0
<1> DEFINE n == Cardinality(S \cap ClustersIn(cell))
           k == Colorized(cells, S, new, old)
           row == cells[cell]
<1>1. /\ new \in ColourSet /\ old \in ColourSet /\ new # "ZONE" /\ old # "ZONE"
      /\ "ZONE" \in ColourSet
  BY ColoursAre DEF Plain
<1>2. row \in [ColourSet -> Nat]
  BY DEF Arrays
<1>3. k[cell] = IF n = 0 \/ new = old THEN row
                ELSE IF OppositeOrder THEN [x \in ColourSet |-> IF x = new THEN 1 ELSE 0]
                ELSE [row EXCEPT ![new] = @ + n, ![old] = Less(@, n)]
  BY <1>1 DEF Colorized
<1> HIDE DEF n, k, row
<1>4. k[cell]["ZONE"] = row["ZONE"] \/ (OppositeOrder /\ k[cell]["ZONE"] = 0)
  BY <1>1, <1>2, <1>3
<1> QED
  BY <1>4 DEF k, row

LEMMA ZoneStays ==
  ASSUME NEW cells \in Arrays, NEW S, NEW new \in Plain, NEW old \in Plain,
         NEW type, ZoneIs(cells, type)
  PROVE  ZoneIs(Colorized(cells, S, new, old), type)
<1>1. \A cell \in 0 .. UsedCells - 1 : cell \in Cells
  BY UsedCellsExist, MapAssumption DEF Cells
<1> DEFINE k == Colorized(cells, S, new, old)
<1>2. ASSUME NEW cell \in 0 .. UsedCells - 1
      PROVE  \/ k[cell]["ZONE"] = cells[cell]["ZONE"]
             \/ OppositeOrder /\ k[cell]["ZONE"] = 0
  BY <1>1, ZoneUntouched
<1> HIDE DEF k
<1>3. ZoneIs(k, type)
  BY <1>2 DEF ZoneIs
<1> QED
  BY <1>3 DEF k

\* The zone of an empty map on which nothing but free space is drawn.
LEMMA ZoneAtFirst ==
  ASSUME NEW S
  PROVE  ZoneIs(DrawZone(Colorized(Blank, S, "FREE", "DEFAULT")), fs)
<1> DEFINE cells == Colorized(Blank, S, "FREE", "DEFAULT")
           k == Colorized(cells, Zone, "ZONE", "DEFAULT")
<1>0. /\ \A cell \in 0 .. UsedCells - 1 : cell \in Cells
      /\ "FREE" \in Plain /\ "DEFAULT" \in Plain /\ "ZONE" \in ColourSet /\ Plain \subseteq ColourSet
  BY UsedCellsExist, MapAssumption, ColoursAre DEF Cells, Plain
<1>1. cells \in Arrays
  BY <1>0, BlankDepicts, ColorizedType
<1>2. ASSUME NEW cell \in Cells
      PROVE  cells[cell]["ZONE"] = 0
  <2>1. Blank[cell]["ZONE"] = 0
    BY <1>0 DEF Blank
  <2> QED
    BY <1>0, <2>1, BlankDepicts, ZoneUntouched
<1>3. CASE fs # "NTFS"
  <2>1. DrawZone(cells) = cells
    BY <1>3 DEF DrawZone
  <2> HIDE DEF cells
  <2>2. ZoneIs(cells, fs)
    BY <1>0, <1>2, <1>3 DEF ZoneIs
  <2> QED
    BY <2>1, <2>2 DEF cells
<1>4. CASE fs = "NTFS"
  <2>1. DrawZone(cells) = k
    BY <1>4 DEF DrawZone
  <2>2. ASSUME NEW cell \in 0 .. UsedCells - 1
        PROVE  IF OppositeOrder
               THEN k[cell]["ZONE"] > 0 => ClustersIn(cell) \subseteq Zone
               ELSE k[cell]["ZONE"] = Cardinality(Zone \cap ClustersIn(cell))
    <3> DEFINE n == Cardinality(Zone \cap ClustersIn(cell))
               row == cells[cell]
    <3>1. row \in [ColourSet -> Nat] /\ row["ZONE"] = 0
      BY <1>0, <1>1, <1>2 DEF Arrays
    <3>2. n \in Nat /\ IsFiniteSet(Zone \cap ClustersIn(cell))
      BY CellFinite
    <3>3. k[cell] = IF n = 0 THEN row
                    ELSE [row EXCEPT !["ZONE"] = IF OppositeOrder THEN 1 ELSE @ + n]
      BY <1>0 DEF Colorized
    <3>4. CASE ~OppositeOrder
      <4> HIDE DEF k, n, row
      <4>1. k[cell]["ZONE"] = n
        BY <1>0, <3>1, <3>2, <3>3, <3>4
      <4> QED
        BY <3>4, <4>1 DEF n
    <3>5. CASE OppositeOrder
      <4>1. ASSUME n # 0
            PROVE  ClustersIn(cell) \subseteq Zone
        <5>1. PICK c \in Zone \cap ClustersIn(cell) : TRUE
          BY <3>2, <4>1, FS_EmptySet
        <5>2. \A d \in ClustersIn(cell) : d = c
          BY <3>5, <5>1, OneCluster
        <5> QED
          BY <5>1, <5>2
      <4> HIDE DEF k, n, row
      <4>2. n = 0 => k[cell]["ZONE"] = 0
        BY <3>1, <3>3
      <4> QED
        BY <3>5, <4>1, <4>2
    <3> QED
      BY <3>4, <3>5
  <2> HIDE DEF k
  <2>3. ZoneIs(k, fs)
    BY <1>4, <2>2 DEF ZoneIs
  <2> QED
    BY <2>1, <2>3
<1> QED
  BY <1>3, <1>4

-----------------------------------------------------------------------------
(* The analysis draws the files one by one.                                *)

\* What is seen when the free regions and some of the files have been drawn.
LEMMA ColourPlain ==
  ASSUME NEW f, NEW m, NEW flagsOf
  PROVE  FileColour(f, m, flagsOf) \in Plain \ {"FREE", "DEFAULT", "UNUSED"}
BY ColoursAre DEF FileColour, Plain

Picture(s) == [c \in Clusters |->
    IF \E f \in s : c \in ClustersOf(map[f])
    THEN Colour(CHOOSE f \in s : c \in ClustersOf(map[f]))
    ELSE IF c \in free THEN "FREE" ELSE "DEFAULT"]

LEMMA AnalysisDepicts ==
  ASSUME Disjoint(map), \A f \in Files : ClustersOf(map[f]) \subseteq Clusters,
         free \subseteq Clusters, free \cap OccupiedBy(map) = {}
  PROVE  Analyzed \in Arrays /\ Depicts(Analyzed, Picture(Files)) /\ ZoneIs(Analyzed, fs)
<1> DEFINE base == DrawZone(Colorized(Blank, free, "FREE", "DEFAULT"))
           Draw(f, cells) == Colorized(cells, ClustersOf(map[f]), Colour(f), "DEFAULT")
           step == [p \in Files \X Arrays |-> Draw(p[1], p[2])]
           Iter(h) == h = [s \in SUBSET Files |->
                             IF s = {} THEN base ELSE Draw(First(s), h[s \ {First(s)}])]
           h == CHOOSE x : Iter(x)
           Bad == {s \in SUBSET Files :
                       ~(h[s] \in Arrays /\ Depicts(h[s], Picture(s)) /\ ZoneIs(h[s], fs))}
<1>0. IsFiniteSet(Files) /\ {"FREE", "DEFAULT"} \subseteq Plain /\ Plain \subseteq ColourSet
  BY ConstantsAssumption, ColoursAre DEF Plain
<1>1. base \in Arrays /\ Depicts(base, Picture({})) /\ ZoneIs(base, fs)
  <2> DEFINE blank == [c \in Clusters |-> "DEFAULT"]
             drawn == Colorized(Blank, free, "FREE", "DEFAULT")
  <2>1. drawn \in Arrays
    BY <1>0, BlankDepicts, ColorizedType
  <2>2. \A c \in free : blank[c] = "DEFAULT"
    OBVIOUS
  <2>3. Depicts(drawn, Painted(blank, free, "FREE"))
    <3> HIDE DEF blank
    <3>1. blank \in Pictures /\ Blank \in Arrays /\ Depicts(Blank, blank)
      BY BlankDepicts DEF blank
    <3> QED
      BY <1>0, <2>2, <3>1, Paint
  <2>4. Painted(blank, free, "FREE") = Picture({})
    BY DEF Painted, Picture
  <2> QED
    BY <2>1, <2>3, <2>4, ZoneDrawn, ZoneAtFirst
<1>2. Analyzed = h[Files]
  BY DEF Analyzed, FoldSet, MapThenFoldSet, First
<1>3. \E x : Iter(x)
  <2>1. step \in [Files \X Arrays -> Arrays]
    <3>1. \A f \in Files : Colour(f) \in ColourSet
      BY <1>0, ColourPlain DEF Colour
    <3>2. \A p \in Files \X Arrays : Draw(p[1], p[2]) \in Arrays
      BY <1>0, <3>1, ColorizedType
    <3> QED
      BY <3>2
  <2>2. PICK x \in [SUBSET Files -> Arrays] : Folds(x, step, base, Files)
    <3> HIDE DEF step, base
    <3> QED
      BY <1>0, <1>1, <2>1, FoldsExist
  <2>3. \A s \in SUBSET Files : s # {} =>
           step[<<First(s), x[s \ {First(s)}]>>] = Draw(First(s), x[s \ {First(s)}])
    <3>1. \A s \in SUBSET Files : s # {} =>
             First(s) \in Files /\ x[s \ {First(s)}] \in Arrays
      BY DEF First
    <3> HIDE DEF Draw
    <3> QED
      BY <3>1
  <2>4. Iter(x)
    <3> HIDE DEF step, base, Draw
    <3> QED
      BY <2>2, <2>3 DEF Folds
  <2> QED
    BY <2>4
<1>4. Iter(h)
  <2> HIDE DEF Iter
  <2> QED
    BY <1>3
<1>5. /\ h[{}] = base
      /\ \A s \in SUBSET Files : s # {} => h[s] = Draw(First(s), h[s \ {First(s)}])
  <2> HIDE DEF Draw, base, h
  <2> QED
    BY <1>4
<1>6. ASSUME Bad # {} PROVE FALSE
  <2>1. Bad \in SUBSET (SUBSET Files)
    OBVIOUS
  <2>2. PICK s \in Bad : \A t \in Bad : Cardinality(s) <= Cardinality(t)
    <3> HIDE DEF Bad
    <3> QED
      BY <1>0, <1>6, <2>1, SmallestSubset
  <2>3. s \in SUBSET Files /\ s # {}
    BY <1>1, <1>5
  <2> DEFINE f == First(s)
             t == s \ {f}
  <2>4. f \in s
    BY <2>3 DEF First
  <2>5. IsFiniteSet(s) /\ Cardinality(s) \in Nat /\ Cardinality(t) = Cardinality(s) - 1
    <3>1. IsFiniteSet(s)
      BY <1>0, <2>3, FS_Subset
    <3> QED
      BY <2>4, <3>1, FS_RemoveElement, FS_CardinalityType
  <2>6. t \in SUBSET Files /\ t \notin Bad
    <3>1. t \notin Bad
      <4> HIDE DEF Bad, t
      <4> QED
        BY <2>2, <2>5
    <3> QED
      BY <2>3, <3>1
  <2>7. h[t] \in Arrays /\ Depicts(h[t], Picture(t)) /\ ZoneIs(h[t], fs)
    BY <2>6
  <2>8. h[s] = Draw(f, h[t])
    BY <1>5, <2>3
  <2>9. f \in Files /\ ClustersOf(map[f]) \in SUBSET Clusters /\ Colour(f) \in Plain
    BY <2>3, <2>4, ColourPlain DEF Colour
  <2>10. \A c \in ClustersOf(map[f]) : Picture(t)[c] = "DEFAULT"
    <3>1. ASSUME NEW c \in ClustersOf(map[f])
          PROVE  c \in Clusters /\ c \notin free /\ ~ \E g \in t : c \in ClustersOf(map[g])
      BY <2>6, <2>9 DEF Disjoint, OccupiedBy
    <3> QED
      BY <3>1 DEF Picture
  <2>11. Picture(t) \in Pictures
    <3>1. \A g : Colour(g) \in Plain
      BY ColourPlain DEF Colour
    <3> QED
      BY <1>0, <3>1 DEF Picture, Pictures
  <2>12. Painted(Picture(t), ClustersOf(map[f]), Colour(f)) = Picture(s)
    <3>1. ASSUME NEW c \in Clusters
          PROVE  Picture(s)[c] = IF c \in ClustersOf(map[f]) THEN Colour(f) ELSE Picture(t)[c]
      <4>1. CASE c \in ClustersOf(map[f])
        <5>1. \A g \in s : c \in ClustersOf(map[g]) => g = f
          BY <2>3, <2>9, <4>1 DEF Disjoint
        <5>2. (CHOOSE g \in s : c \in ClustersOf(map[g])) = f
          BY <2>4, <4>1, <5>1
        <5> HIDE DEF f
        <5> QED
          BY <2>4, <4>1, <5>2 DEF Picture
      <4>2. CASE c \notin ClustersOf(map[f])
        <5>1. \A g : g \in s /\ c \in ClustersOf(map[g]) <=> g \in t /\ c \in ClustersOf(map[g])
          BY <4>2
        <5>2. (CHOOSE g \in s : c \in ClustersOf(map[g])) = (CHOOSE g \in t : c \in ClustersOf(map[g]))
          BY <5>1
        <5> HIDE DEF f, t
        <5> QED
          BY <4>2, <5>1, <5>2 DEF Picture
      <4> QED
        BY <4>1, <4>2
    <3> HIDE DEF f, t
    <3> QED
      BY <3>1 DEF Painted, Picture
  <2>13. h[s] \in Arrays /\ Depicts(h[s], Picture(s)) /\ ZoneIs(h[s], fs)
    <3> HIDE DEF h, f, t
    <3>1. "DEFAULT" \in Plain /\ Colour(f) \in ColourSet /\ "DEFAULT" \in ColourSet
      BY <1>0, <2>9
    <3>2. h[s] \in Arrays
      BY <2>7, <2>8, <3>1, ColorizedType
    <3>3. Depicts(h[s], Painted(Picture(t), ClustersOf(map[f]), Colour(f)))
      BY <2>7, <2>8, <2>9, <2>10, <2>11, <3>1, Paint
    <3>4. ZoneIs(h[s], fs)
      BY <2>7, <2>8, <2>9, <3>1, ZoneStays
    <3> QED
      BY <2>12, <3>2, <3>3, <3>4
  <2> QED
    BY <2>13
<1> HIDE DEF h
<1> QED
  BY <1>2, <1>6

-----------------------------------------------------------------------------
(* The moves keep the array what a new analysis would draw.                *)

\* The clusters as they are seen now, and what the array always is.
View == [c \in Clusters |-> Seen(c)]
ArraySound == array \in Arrays /\ (Exact => Depicts(array, View))

\* A cluster is seen in the colour of its file, if maps do not overlap.
LEMMA SeenIs ==
  ASSUME Disjoint(map), NEW c
  PROVE  /\ \A f \in Files : c \in ClustersOf(map[f]) => Seen(c) = Colour(f)
         /\ (\A f \in Files : c \notin ClustersOf(map[f])) => Seen(c) = "FREE"
<1>1. ASSUME NEW f \in Files, c \in ClustersOf(map[f])
      PROVE  Seen(c) = Colour(f)
  <2>1. \A g \in Files : c \in ClustersOf(map[g]) <=> g = f
    BY <1>1 DEF Disjoint
  <2>2. Owners(c) = {f}
    BY <1>1, <2>1 DEF Owners
  <2>3. (CHOOSE g \in Owners(c) : TRUE) = f
    BY <2>2
  <2> QED
    BY <2>2, <2>3 DEF Seen
<1> QED
  BY <1>1 DEF Seen, Owners

\* The same for all clusters, of this state and of the next one.
ColouredByFiles ==
    \A c \in Clusters :
        /\ \A f \in Files : c \in ClustersOf(map[f]) => View[c] = Colour(f)
        /\ (\A f \in Files : c \notin ClustersOf(map[f])) => View[c] = "FREE"

LEMMA ViewColoured == Disjoint(map) => ColouredByFiles
BY SeenIs DEF ColouredByFiles, View

LEMMA ViewPicture == View \in Pictures
<1>1. \A f : Colour(f) \in Plain
  BY ColourPlain DEF Colour
<1>2. "FREE" \in Plain
  BY ColoursAre DEF Plain
<1> QED
  BY <1>1, <1>2 DEF View, Seen, Pictures

\* The colour of a file depends on two of its flags only.
LEMMA SameColour ==
  ASSUME NEW f, NEW m, NEW a, NEW b,
         "LOCKED" \in a <=> "LOCKED" \in b, "EXCLUDED" \in a <=> "EXCLUDED" \in b
  PROVE  FileColour(f, m, a) = FileColour(f, m, b)
BY DEF FileColour

\* The clusters of a chain without a hole fill the target.
LEMMA ChainFills ==
  ASSUME NEW m, IsFiniteSet(DOMAIN m), DOMAIN m \subseteq Nat, NEW v \in Int, NEW n \in Nat,
         NEW t \in Nat, Cardinality(Chain(m, v, n)) = n
  PROVE  {t + Rank(m, v, u) : u \in Chain(m, v, n)} = t .. t + n - 1
<1> DEFINE C == Chain(m, v, n)
           to == [u \in C |-> t + Rank(m, v, u)]
           D == {t + Rank(m, v, u) : u \in C}
<1>1. \A u \in C : u \in DOMAIN m /\ v <= u /\ to[u] \in t .. t + n - 1
  BY ChainFits
<1>2. ASSUME NEW u \in C, NEW w \in C, to[u] = to[w]
      PROVE  u = w
  <2>1. Rank(m, v, u) = Rank(m, v, w)
    BY <1>2, RankType
  <2> QED
    BY <1>1, <2>1, RankInjective
<1>3. to \in Bijection(C, D)
  BY <1>2 DEF Bijection, Injection, Surjection, IsInjective
<1>4. IsFiniteSet(C)
  BY ChainBounded
<1>5. Cardinality(D) = n
  <2> HIDE DEF C, D, to
  <2>1. ExistsBijection(C, D)
    BY <1>3 DEF ExistsBijection
  <2> QED
    BY <1>4, <2>1, FS_Bijection DEF C
<1>6. IsFiniteSet(t .. t + n - 1) /\ Cardinality(t .. t + n - 1) = n
  <2>1. t + n - 1 \in Int /\ t \in Int
    OBVIOUS
  <2>2. CASE n = 0
    <3>1. t .. t + n - 1 = {}
      BY <2>2
    <3> QED
      BY <2>2, <3>1, FS_EmptySet
  <2>3. CASE n # 0
    BY <2>1, <2>3, FS_Interval
  <2> QED
    BY <2>2, <2>3
<1>7. D \in SUBSET (t .. t + n - 1)
  BY <1>1
<1> HIDE DEF D
<1>8. D = t .. t + n - 1
  BY <1>5, <1>6, <1>7, FS_Subset
<1> QED
  BY <1>8 DEF D

\* A complete move of such a chain exchanges what it leaves for the target.
LEMMA WantedIs ==
  ASSUME Structure, pc = "redump", ~(Short > 0)
  PROVE  ClustersOf(map[Moving]) \cap Target = {} /\ IsFileMap(map[Moving]) =>
           ClustersOf(Wanted) = (ClustersOf(map[Moving]) \ Released) \cup Target
<1> DEFINE m == map[Moving]
           C == Chain(m, req.vcn, req.length)
<1>1. /\ Moving \in Files /\ req.vcn \in Int /\ req.length \in Nat /\ req.target \in Nat
      /\ IsFiniteSet(DOMAIN m) /\ DOMAIN m \subseteq Nat
  BY ViewTyped DEF Structure, TypeOK, Moving
<1>2. Cardinality(C) = req.length
  BY <1>1, ChainBounded DEF Short
<1>3. {req.target + Rank(m, req.vcn, u) : u \in C} = Target
  BY <1>1, <1>2, ChainFills DEF Target
<1>4. C \subseteq DOMAIN m
  BY DEF Chain
<1>5. Wanted = [u \in DOMAIN m |-> IF u \in C THEN req.target + Rank(m, req.vcn, u) ELSE m[u]]
  BY DEF Wanted, Desired
<1>6. Released = {m[u] : u \in C}
  BY DEF Released
<1> HIDE DEF m, C
<1>7. ASSUME ClustersOf(m) \cap Target = {}, IsFileMap(m)
      PROVE  ClustersOf(Wanted) = (ClustersOf(m) \ Released) \cup Target
  <2>1. ASSUME NEW c \in ClustersOf(Wanted)
        PROVE  c \in (ClustersOf(m) \ Released) \cup Target
    <3>1. PICK w \in DOMAIN m : c = Wanted[w]
      BY <1>5 DEF ClustersOf
    <3>2. CASE w \in C
      BY <1>3, <1>5, <3>1, <3>2
    <3>3. CASE w \notin C
      <4>1. c = m[w] /\ \A u \in C : m[u] # c
        BY <1>4, <1>5, <1>7, <3>1, <3>3 DEF IsFileMap
      <4> QED
        BY <1>6, <4>1 DEF ClustersOf
    <3> QED
      BY <3>2, <3>3
  <2>2. ASSUME NEW c \in Target
        PROVE  c \in ClustersOf(Wanted)
    <3>1. PICK u \in C : c = req.target + Rank(m, req.vcn, u)
      BY <1>3
    <3>2. u \in DOMAIN m /\ Wanted[u] = c
      BY <1>4, <1>5, <3>1
    <3> QED
      BY <1>5, <3>2 DEF ClustersOf
  <2>3. ASSUME NEW c \in ClustersOf(m), c \notin Released
        PROVE  c \in ClustersOf(Wanted)
    <3>1. PICK u \in DOMAIN m : c = m[u]
      BY DEF ClustersOf
    <3>2. u \notin C
      BY <1>6, <2>3, <3>1
    <3> QED
      BY <1>5, <3>1, <3>2 DEF ClustersOf
  <2> QED
    BY <2>1, <2>2, <2>3
<1> QED
  BY <1>7 DEF m

\* Three areas are painted by a complete move: the target, the file where it
\* was, and what it has left.
LEMMA Repainted ==
  ASSUME NEW cells \in Arrays, NEW pic \in Pictures, Depicts(cells, pic),
         NEW T \in SUBSET Clusters, NEW F \in SUBSET Clusters, NEW R \in SUBSET F,
         NEW new \in Plain, NEW old \in Plain, T \cap F = {},
         \A c \in T : pic[c] = "FREE", \A c \in F : pic[c] = old,
         NEW q \in Pictures,
         \A c \in Clusters : q[c] = IF c \in T \cup (F \ R) THEN new
                                    ELSE IF c \in R THEN "FREE" ELSE pic[c]
  PROVE  Depicts(Colorized(Colorized(Colorized(cells, T, new, "FREE"), F, new, old),
                           R, "FREE", new), q)
<1> DEFINE k1 == Colorized(cells, T, new, "FREE")
           k2 == Colorized(k1, F, new, old)
           k3 == Colorized(k2, R, "FREE", new)
           p1 == Painted(pic, T, new)
           p2 == Painted(p1, F, new)
           p3 == Painted(p2, R, "FREE")
<1>0. "FREE" \in Plain /\ Plain \subseteq ColourSet
  BY ColoursAre DEF Plain
<1>1. k1 \in Arrays /\ p1 \in Pictures /\ Depicts(k1, p1)
  BY <1>0, Paint, ColorizedType
<1>2. \A c \in F : p1[c] = old
  BY DEF Painted
<1>3. k2 \in Arrays /\ p2 \in Pictures /\ Depicts(k2, p2)
  <2> HIDE DEF k1, p1
  <2> QED
    BY <1>0, <1>1, <1>2, Paint, ColorizedType
<1>4. \A c \in R : p2[c] = new
  BY DEF Painted
<1>5. R \in SUBSET Clusters
  OBVIOUS
<1>6. Depicts(k3, p3)
  <2> HIDE DEF k2, p2
  <2> QED
    BY <1>0, <1>3, <1>4, <1>5, Paint
<1>7. \A c \in Clusters : p3[c] = q[c]
  <2> TAKE c \in Clusters
  <2>1. p3[c] = IF c \in R THEN "FREE" ELSE IF c \in F THEN new
                ELSE IF c \in T THEN new ELSE pic[c]
    BY DEF Painted
  <2> HIDE DEF p3
  <2> QED
    BY <2>1
<1>8. p3 = q
  BY <1>7 DEF Painted, Pictures
<1> HIDE DEF k3, p3
<1> QED
  BY <1>6, <1>8 DEF k3

\* A move of the whole chain of a trusted file, dumped or assumed.
LEMMA ArrayMoved ==
  ASSUME ViewInvariant, Trusted, ArraySound, pc = "redump", Structure', Disjoint(map'),
         map' = [map EXCEPT ![Moving] = Wanted],
         \A f \in Files : f # Moving => flags'[f] = flags[f],
         Redraw(FALSE), Blur(FALSE), doubt => doubt'
  PROVE  ArraySound'
<1> DEFINE old == Colour(Moving)
           new == FileColour(Moving, map'[Moving], flags'[Moving])
           F == ClustersOf(map[Moving])
<1>1. /\ Moving \in Files /\ req.target \in Nat /\ req.length \in Nat /\ DOMAIN map = Files
      /\ req.target + req.length <= NClusters /\ NClusters \in Nat
  BY ConstantsAssumption DEF ViewInvariant, Structure, TypeOK, RequestSound, Moving
<1>2. /\ \A f \in Files : IsFileMap(map[f])
      /\ Disjoint(map) /\ Target \cap OccupiedBy(map) = {}
  BY DEF ViewInvariant, MapsSound
<1>3. \A f \in Files : ClustersOf(map[f]) \subseteq OccupiedBy(map) /\ ClustersOf(map[f]) \subseteq Clusters
  BY <1>2 DEF OccupiedBy, ClustersOf, IsFileMap
<1>4. Target \in SUBSET Clusters
  BY <1>1 DEF Target, Clusters
<1>5. F \in SUBSET Clusters /\ Released \in SUBSET F /\ Target \cap F = {}
  BY <1>1, <1>2, <1>3 DEF Released, ClustersOf, Chain
<1>6. old \in Plain /\ new \in Plain /\ "FREE" \in Plain /\ Plain \subseteq ColourSet
  BY ColourPlain, ColoursAre DEF Colour, Plain
<1>7. array' = Colorized(Colorized(Colorized(array, Target, new, "FREE"), F, new, old),
                         Released, "FREE", new)
  BY DEF Redraw
<1>8. array' \in Arrays
  <2> HIDE DEF old, new, F
  <2> QED
    BY <1>6, <1>7, ColorizedType DEF ArraySound
<1>9. ASSUME Exact'
      PROVE  Depicts(array', View')
  <2>1. Exact /\ ~(Short > 0)
    BY <1>9 DEF Exact, Blur
  <2>2. ClustersOf(Wanted) = (F \ Released) \cup Target
    BY <1>1, <1>2, <1>5, <2>1, WantedIs DEF ViewInvariant
  <2>3. /\ DOMAIN map' = Files /\ map'[Moving] = Wanted
        /\ \A f \in Files : f # Moving => map'[f] = map[f]
    BY <1>1
  <2>4. /\ \A f \in Files : f # Moving => Colour(f)' = Colour(f)
        /\ Colour(Moving) = old /\ FileColour(Moving, map'[Moving], flags'[Moving]) = new
    BY <2>3 DEF Colour
  <2>5. /\ \A c \in Target : View[c] = "FREE"
        /\ \A c \in F : View[c] = old
    <3>1. \A c \in Target : \A f \in Files : c \notin ClustersOf(map[f])
      BY <1>2, <1>3
    <3> QED
      BY <1>1, <1>2, <1>4, <1>5, <3>1, ViewColoured DEF ColouredByFiles
  <2>6. View \in Pictures /\ View' \in Pictures
    <3>1. (View \in Pictures)'
      BY ViewPicture, PTL
    <3> QED
      BY <3>1, ViewPicture
  <2>7. ColouredByFiles'
    <3>1. (Disjoint(map) => ColouredByFiles)'
      BY ViewColoured, PTL
    <3> QED
      BY <3>1
  <2>8. /\ \A c \in Clusters : \A f \in Files : c \in ClustersOf(map'[f]) => View'[c] = Colour(f)'
        /\ \A c \in Clusters : (\A f \in Files : c \notin ClustersOf(map'[f])) => View'[c] = "FREE"
    BY <2>7 DEF ColouredByFiles
  <2>9. /\ \A c \in Clusters : \A f \in Files : c \in ClustersOf(map[f]) => View[c] = Colour(f)
        /\ \A c \in Clusters : (\A f \in Files : c \notin ClustersOf(map[f])) => View[c] = "FREE"
    BY <1>2, ViewColoured DEF ColouredByFiles
  <2>11. \A f \in Files : f # Moving => Colour(f)' = Colour(f)
    BY <2>4
  <2>12. \A f \in Files : f = Moving => Colour(f)' = new
    BY DEF Colour
  <2>13. ASSUME NEW c \in Clusters
         PROVE  View'[c] = IF c \in Target \cup (F \ Released) THEN new
                           ELSE IF c \in Released THEN "FREE" ELSE View[c]
    <3> HIDE DEF View, Colour, new, old
    <3>1. CASE c \in Target \cup (F \ Released)
      <4>1. c \in ClustersOf(map'[Moving])
        BY <2>2, <2>3, <3>1
      <4> QED
        BY <1>1, <2>8, <2>12, <3>1, <4>1
    <3>2. CASE c \in Released
      <4>1. \A f \in Files : c \notin ClustersOf(map'[f])
        BY <1>1, <1>2, <1>5, <2>2, <2>3, <3>2 DEF Disjoint
      <4> QED
        BY <1>5, <2>8, <3>2, <4>1
    <3>3. CASE c \notin Target \cup F
      <4>1. c \notin ClustersOf(map'[Moving])
        BY <1>5, <2>2, <2>3, <3>3
      <4>2. CASE \A f \in Files : c \notin ClustersOf(map[f])
        <5>1. \A f \in Files : c \notin ClustersOf(map'[f])
          BY <2>3, <4>1, <4>2
        <5> QED
          BY <1>5, <2>8, <2>9, <3>3, <4>2, <5>1
      <4>3. ASSUME NEW f \in Files, c \in ClustersOf(map[f])
            PROVE  View'[c] = View[c]
        <5>1. f # Moving /\ c \in ClustersOf(map'[f])
          BY <2>3, <3>3, <4>3
        <5> QED
          BY <2>8, <2>9, <2>11, <4>3, <5>1
      <4> QED
        BY <1>5, <3>3, <4>2, <4>3
    <3> QED
      BY <1>5, <3>1, <3>2, <3>3
  <2> DEFINE q == View'
  <2>14. Depicts(array', q)
    <3>1. array \in Arrays /\ View \in Pictures /\ Depicts(array, View) /\ q \in Pictures
      BY <2>1, <2>6 DEF ArraySound
    <3>2. /\ \A c \in Clusters : q[c] = IF c \in Target \cup (F \ Released) THEN new
                           ELSE IF c \in Released THEN "FREE" ELSE View[c]
          /\ \A c \in Target : View[c] = "FREE"
          /\ \A c \in F : View[c] = old
      BY <2>5, <2>13
    <3> HIDE DEF q, F, new, old
    <3> QED
      BY <1>4, <1>5, <1>6, <1>7, <3>1, <3>2, Repainted
  <2> QED
    BY <2>14
<1> QED
  BY <1>8, <1>9 DEF ArraySound

\* Nothing the array depends on changes.
LEMMA ArrayStutter ==
  ASSUME ArraySound, UNCHANGED <<array, blurred, map, doubt>>,
         \A f \in Files : /\ "LOCKED" \in flags[f] <=> "LOCKED" \in flags'[f]
                          /\ "EXCLUDED" \in flags[f] <=> "EXCLUDED" \in flags'[f]
  PROVE  ArraySound'
<1>1. \A f \in Files : Colour(f)' = Colour(f)
  BY SameColour DEF Colour
<1>2. \A c : Owners(c)' = Owners(c) /\ Owners(c) \subseteq Files
  BY DEF Owners
<1>3. ASSUME NEW c
      PROVE  Seen(c)' = Seen(c)
  <2>1. CASE Owners(c) = {}
    BY <1>2, <2>1 DEF Seen
  <2>2. CASE Owners(c) # {}
    <3> DEFINE f == CHOOSE g \in Owners(c) : TRUE
    <3>1. f \in Files /\ (CHOOSE g \in Owners(c)' : TRUE) = f
      BY <1>2, <2>2
    <3>2. Seen(c) = Colour(f)
      BY <2>2 DEF Seen
    <3>3. Seen(c)' = Colour(f)'
      BY <1>2, <2>2, <3>1 DEF Seen
    <3> QED
      BY <1>1, <3>1, <3>2, <3>3
  <2> QED
    BY <2>1, <2>2
<1>4. View' = View
  BY <1>3 DEF View
<1>5. Depicts(array', View') <=> Depicts(array, View)
  BY <1>4
<1> QED
  BY <1>5 DEF ArraySound, Exact

\* A file which turns out to be locked is drawn in its new colour.
LEMMA ArrayLocked ==
  ASSUME ViewInvariant, ArraySound, NEW f \in Files, OpenFails(f), DrawLocked(f), UNCHANGED blurred
  PROVE  ArraySound'
<1> DEFINE old == Colour(f)
           new == FileColour(f, map[f], flags'[f])
           F == ClustersOf(map[f])
<1>1. /\ flags' = [flags EXCEPT ![f] = @ \cup {"LOCKED"}] /\ UNCHANGED <<map, doubt, dry_run>>
      /\ flags \in [Files -> SUBSET Flags]
  BY DEF OpenFails, AddFlag, ViewInvariant, Structure, TypeOK
<1>2. old \in Plain /\ new \in Plain /\ Plain \subseteq ColourSet
  BY ColourPlain DEF Colour, Plain
<1>3. array' = Colorized(array, F, new, old)
  BY DEF DrawLocked
<1>4. array' \in Arrays
  BY <1>2, <1>3, ColorizedType DEF ArraySound
<1>5. ASSUME Exact'
      PROVE  Depicts(array', View')
  <2>1. Exact
    BY <1>1, <1>5 DEF Exact
  <2>2. Disjoint(map) /\ \A g \in Files : IsFileMap(map[g])
    BY <2>1 DEF Exact, ViewInvariant, MapsSound, Trusted
  <2>3. F \in SUBSET Clusters
    BY <2>2 DEF ClustersOf, IsFileMap
  <2>4. /\ \A c \in Clusters : \A g \in Files : c \in ClustersOf(map[g]) => View[c] = Colour(g)
        /\ \A c \in Clusters : (\A g \in Files : c \notin ClustersOf(map[g])) => View[c] = "FREE"
    BY <2>2, ViewColoured DEF ColouredByFiles
  <2>5. ColouredByFiles'
    <3>1. (Disjoint(map) => ColouredByFiles)'
      BY ViewColoured, PTL
    <3> QED
      BY <1>1, <2>2, <3>1
  <2>6. /\ \A c \in Clusters : \A g \in Files : c \in ClustersOf(map[g]) => View'[c] = Colour(g)'
        /\ \A c \in Clusters : (\A g \in Files : c \notin ClustersOf(map[g])) => View'[c] = "FREE"
    BY <1>1, <2>5 DEF ColouredByFiles
  <2>7. Colour(f)' = new /\ \A g \in Files : g # f => Colour(g)' = Colour(g)
    BY <1>1 DEF Colour
  <2>8. View \in Pictures /\ View' \in Pictures
    <3>1. (View \in Pictures)'
      BY ViewPicture, PTL
    <3> QED
      BY <3>1, ViewPicture
  <2> DEFINE q == View'
  <2>9. ASSUME NEW c \in Clusters
        PROVE  q[c] = Painted(View, F, new)[c]
    <3> HIDE DEF View, Colour, new, old
    <3>1. Painted(View, F, new)[c] = IF c \in F THEN new ELSE View[c]
      BY DEF Painted
    <3>2. CASE c \in F
      BY <2>6, <2>7, <3>1, <3>2
    <3>3. CASE c \notin F
      <4>1. ASSUME NEW g \in Files, c \in ClustersOf(map[g])
            PROVE  q[c] = View[c]
        <5>1. g # f
          BY <3>3, <4>1
        <5> QED
          BY <2>4, <2>6, <2>7, <4>1, <5>1
      <4>2. CASE \A g \in Files : c \notin ClustersOf(map[g])
        BY <2>4, <2>6, <3>1, <3>3, <4>2
      <4> QED
        BY <3>1, <3>3, <4>1, <4>2
    <3> QED
      BY <3>2, <3>3
  <2>10. q = Painted(View, F, new)
    BY <2>8, <2>9 DEF Pictures, Painted
  <2>11. Depicts(array', Painted(View, F, new))
    <3>1. array \in Arrays /\ Depicts(array, View) /\ \A c \in F : View[c] = old
      BY <2>1, <2>3, <2>4 DEF ArraySound
    <3> HIDE DEF F, new, old
    <3> QED
      BY <1>2, <1>3, <2>3, <2>8, <3>1, Paint
  <2> HIDE DEF q
  <2> QED
    BY <2>10, <2>11 DEF q
<1> QED
  BY <1>4, <1>5 DEF ArraySound

\* After a partial success the array is an array of counters still.
LEMMA ArrayBlurred ==
  ASSUME ArraySound, SucceedPartially, Redraw(TRUE), Blur(TRUE)
  PROVE  ArraySound'
<1> DEFINE old == Colour(Moving)
           new == FileColour(Moving, map'[Moving], flags'[Moving])
<1>1. old \in ColourSet /\ new \in ColourSet /\ "FREE" \in ColourSet
  BY ColourPlain, ColoursAre DEF Colour, Plain
<1>2. array' = Colorized(Colorized(array, Target, new, "FREE"), ClustersOf(map[Moving]), new, old)
  BY DEF Redraw
<1>3. array' \in Arrays
  <2> HIDE DEF old, new
  <2> QED
    BY <1>1, <1>2, ColorizedType DEF ArraySound
<1> QED
  BY <1>3 DEF ArraySound, Exact, Blur

LEMMA MapStep ==
  MapNext => Next
BY DEF MapNext, Next

LEMMA NextArray ==
  ASSUME ViewInvariant, ViewInvariant', ArraySound, [MapNext]_<<vars, mapVars>>
  PROVE  ArraySound'
<1>0. flags \in [Files -> SUBSET Flags] /\ DOMAIN map = Files /\ Moving \in Files
  BY DEF ViewInvariant, Structure, TypeOK, Moving
<1>1. ASSUME NEW f \in Files, OpenFails(f) /\ DrawLocked(f) /\ UNCHANGED blurred
      PROVE  ArraySound'
  BY <1>1, ArrayLocked
<1>2. CASE (AssumeSuccess \/ Succeed) /\ Redraw(FALSE) /\ Blur(FALSE)
  <2>1. /\ pc = "redump" /\ map' = [map EXCEPT ![Moving] = Wanted]
        /\ flags' = NewFlags(Filtered(Wanted), FALSE)
    BY <1>2 DEF AssumeSuccess, Succeed, Update
  <2>2. \A f \in Files : f # Moving => flags'[f] = flags[f]
    BY <1>0, <2>1 DEF NewFlags
  <2>3. doubt => doubt'
    BY <1>2 DEF AssumeSuccess, Succeed
  <2>4. CASE ~Exact'
    <3> DEFINE old == Colour(Moving)
               new == FileColour(Moving, map'[Moving], flags'[Moving])
    <3>1. old \in ColourSet /\ new \in ColourSet /\ "FREE" \in ColourSet
      BY ColourPlain, ColoursAre DEF Colour, Plain
    <3>2. array' = Colorized(Colorized(Colorized(array, Target, new, "FREE"),
                                       ClustersOf(map[Moving]), new, old), Released, "FREE", new)
      BY <1>2 DEF Redraw
    <3>3. array' \in Arrays
      <4> HIDE DEF old, new
      <4> QED
        BY <3>1, <3>2, ColorizedType DEF ArraySound
    <3> QED
      BY <2>4, <3>3 DEF ArraySound
  <2>5. CASE Exact'
    <3>1. Trusted /\ Trusted' /\ Structure' /\ Disjoint(map')
      BY <2>3, <2>5 DEF Exact, Trusted, ViewInvariant, MapsSound
    <3> QED
      BY <1>2, <2>1, <2>2, <2>3, <3>1, ArrayMoved
  <2> QED
    BY <2>4, <2>5
<1>3. CASE SucceedPartially /\ Redraw(TRUE) /\ Blur(TRUE)
  BY <1>3, ArrayBlurred
<1>4. CASE UNCHANGED mapVars /\ UNCHANGED <<map, doubt, flags>>
  BY <1>4, ArrayStutter DEF mapVars
<1>5. ASSUME NEW f \in Files, Reject(f), UNCHANGED mapVars
      PROVE  ArraySound'
  <2>1. flags' = [flags EXCEPT ![f] = @ \cup {"IMPROPER_STATE"}] /\ UNCHANGED <<map, doubt>>
    BY <1>5 DEF Reject, AddFlag
  <2> QED
    BY <1>0, <1>5, <2>1, ArrayStutter DEF mapVars
<1>6. CASE Fail /\ UNCHANGED mapVars
  <2>1. flags' = [flags EXCEPT ![Moving] = @ \cup {"MOVING_FAILED"}] /\ UNCHANGED <<map, doubt>>
    BY <1>6 DEF Fail, AddFlag
  <2> QED
    BY <1>0, <1>6, <2>1, ArrayStutter DEF mapVars
<1>7. CASE /\ \/ \E f \in Files : Open(f)
              \/ MoveDryRun \/ MovePortion \/ PortionFails \/ AbortMove
              \/ ReleaseTempSpace \/ OtherAllocates \/ OtherReleases \/ Stop
           /\ UNCHANGED mapVars
  BY <1>4, <1>7 DEF Open, MoveDryRun, MovePortion, PortionFails, AbortMove, ReleaseTempSpace,
     OtherAllocates, OtherReleases, Stop, view
<1>8. CASE UNCHANGED <<vars, mapVars>>
  BY <1>4, <1>8 DEF vars, view
<1> QED
  BY <1>1, <1>2, <1>3, <1>5, <1>6, <1>7, <1>8 DEF MapNext

LEMMA InitArray ==
  ASSUME MapInit
  PROVE  ArraySound
<1>1. Init /\ array = Analyzed
  BY DEF MapInit
<1>2. /\ \A f \in Files : IsFileMap(map[f])
      /\ Disjoint(map) /\ free = Clusters \ OccupiedBy(map)
  BY <1>1, LayoutsAssumption DEF Init, ReallyFree
<1>3. \A f \in Files : ClustersOf(map[f]) \subseteq Clusters
  BY <1>2 DEF ClustersOf, IsFileMap
<1>4. array \in Arrays /\ Depicts(array, Picture(Files))
  BY <1>1, <1>2, <1>3, AnalysisDepicts
<1>5. ASSUME NEW c \in Clusters
      PROVE  Picture(Files)[c] = View[c]
  <2>1. CASE \E f \in Files : c \in ClustersOf(map[f])
    <3> DEFINE f == CHOOSE g \in Files : c \in ClustersOf(map[g])
    <3>1. f \in Files /\ c \in ClustersOf(map[f])
      BY <2>1
    <3>2. Picture(Files)[c] = Colour(f)
      BY <2>1 DEF Picture
    <3> HIDE DEF f
    <3> QED
      BY <1>2, <3>1, <3>2, ViewColoured DEF ColouredByFiles
  <2>2. CASE \A f \in Files : c \notin ClustersOf(map[f])
    <3>1. c \in free
      BY <1>2, <2>2 DEF OccupiedBy
    <3>2. Picture(Files)[c] = "FREE"
      BY <2>2, <3>1 DEF Picture
    <3> QED
      BY <1>2, <2>2, <3>2, ViewColoured DEF ColouredByFiles
  <2> QED
    BY <2>1, <2>2
<1>6. Picture(Files) = View
  BY <1>5 DEF Picture, View
<1> QED
  BY <1>4, <1>6 DEF ArraySound

\* What the map says of a cell is what is drawn from the picture.
LEMMA DrawnCounts ==
  ASSUME NEW cell, NEW colour \in ColourSet
  PROVE  Drawn(cell)[colour] = CountOf(View, cell, colour)
<1> DEFINE C == {c \in ClustersIn(cell) : View[c] = colour}
           P == {p \in {<<c, Seen(c)>> : c \in ClustersIn(cell)} : p[2] = colour}
           pair == [c \in C |-> <<c, Seen(c)>>]
<1>1. \A c \in ClustersIn(cell) : View[c] = Seen(c)
  BY CellFinite DEF View
<1>2. pair \in Bijection(C, P)
  <2>1. ASSUME NEW p \in P
        PROVE  \E c \in C : pair[c] = p
    <3>1. PICK c \in ClustersIn(cell) : p = <<c, Seen(c)>>
      OBVIOUS
    <3>2. c \in C
      BY <1>1, <3>1
    <3> QED
      BY <3>1, <3>2
  <2>2. ASSUME NEW c \in C
        PROVE  pair[c] \in P
    BY <1>1
  <2>3. \A c, d \in C : pair[c] = pair[d] => c = d
    OBVIOUS
  <2> HIDE DEF P, C
  <2> QED
    BY <2>1, <2>2, <2>3 DEF Bijection, Injection, Surjection, IsInjective
<1>3. IsFiniteSet(C)
  BY CellFinite
<1>4. Cardinality(P) = Cardinality(C)
  <2> HIDE DEF P, C, pair
  <2>1. ExistsBijection(C, P)
    BY <1>2 DEF ExistsBijection
  <2> QED
    BY <1>3, <2>1, FS_Bijection
<1>5. Drawn(cell)[colour] = Cardinality(P)
  BY DEF Drawn
<1> HIDE DEF P
<1> QED
  BY <1>4, <1>5 DEF CountOf

\* The safety of MoveFile holds below the map.
LEMMA MapImplementsMove == MapSpec => Spec
<1>1. MapInit => Init
  BY DEF MapInit
<1>2. [MapNext]_<<vars, mapVars>> => [Next]_vars
  BY MapStep
<1> QED
  BY <1>1, <1>2, PTL DEF MapSpec, Spec

\* In every state the array of the cluster map is of its type and, while no move
\* is half drawn, shows every cluster in the colour its file and region have:
\* colorize_map_region, called with an old and a new colour, loses no cluster.
THEOREM ArrayInvariance == MapSpec => []ArraySound
<1>1. MapInit => ArraySound
  BY InitArray
<1>2. ArraySound /\ ViewInvariant /\ ViewInvariant' /\ [MapNext]_<<vars, mapVars>> => ArraySound'
  BY NextArray
<1> QED
  BY <1>1, <1>2, MapImplementsMove, ViewInvariance, PTL DEF MapSpec

\* The array move_file keeps by differences (colorize_map_region) is the one
\* a new analysis would draw, however the files move, are locked or become
\* excluded, as long as no map was assumed and no target was left unfilled.
THEOREM MapStaysExact == MapSpec => []MapExact
<1>1. ASSUME ArraySound, Exact, NEW cell \in 0 .. UsedCells - 1
      PROVE  array[cell] = [Drawn(cell) EXCEPT !["ZONE"] = array[cell]["ZONE"]]
  <2>1. cell \in Cells
    BY UsedCellsExist, MapAssumption DEF Cells
  <2>2. array[cell] \in [ColourSet -> Nat]
    BY <1>1, <2>1 DEF ArraySound, Arrays
  <2>3. \A colour \in Plain : array[cell][colour] = Drawn(cell)[colour]
    BY <1>1, DrawnCounts DEF ArraySound, Depicts, Plain
  <2>4. Drawn(cell) = [colour \in ColourSet |-> Drawn(cell)[colour]]
    BY DEF Drawn
  <2> DEFINE d == Drawn(cell)
  <2> HIDE DEF d
  <2> QED
    BY <2>2, <2>3, <2>4 DEF Plain, d
<1>2. ArraySound => MapExact
  BY <1>1 DEF MapExact
<1> QED
  BY <1>2, ArrayInvariance, PTL

-----------------------------------------------------------------------------
(* What the user is shown.                                                 *)

ZoneSound == ZoneIs(array, fs)

\* Redrawing files leaves the zone what it is.
LEMMA ZoneRedrawn ==
  ASSUME ArraySound, ZoneSound, UNCHANGED fs,
         \/ Redraw(TRUE) \/ Redraw(FALSE) \/ \E f \in Files : DrawLocked(f)
  PROVE  ZoneSound'
<1> DEFINE old == Colour(Moving)
           new == FileColour(Moving, map'[Moving], flags'[Moving])
           k1 == Colorized(array, Target, new, "FREE")
           k2 == Colorized(k1, ClustersOf(map[Moving]), new, old)
<1>0. /\ old \in Plain /\ new \in Plain /\ "FREE" \in Plain /\ Plain \subseteq ColourSet
      /\ array \in Arrays /\ ZoneIs(array, fs)
  BY ColourPlain, ColoursAre DEF Colour, Plain, ArraySound, ZoneSound
<1>1. ZoneIs(k1, fs) /\ k1 \in Arrays
  <2> HIDE DEF old, new
  <2> QED
    BY <1>0, ZoneStays, ColorizedType
<1>2. ZoneIs(k2, fs) /\ k2 \in Arrays
  <2> HIDE DEF old, new, k1
  <2> QED
    BY <1>0, <1>1, ZoneStays, ColorizedType
<1>3. CASE Redraw(TRUE)
  <2>1. array' = k2
    BY <1>3 DEF Redraw
  <2> HIDE DEF k2
  <2> QED
    BY <1>2, <2>1 DEF ZoneSound
<1>4. CASE Redraw(FALSE)
  <2>1. array' = Colorized(k2, Released, "FREE", new)
    BY <1>4 DEF Redraw
  <2>2. ZoneIs(array', fs)
    <3> HIDE DEF old, new, k2
    <3> QED
      BY <1>0, <1>2, <2>1, ZoneStays
  <2> QED
    BY <2>2 DEF ZoneSound
<1>5. ASSUME NEW f \in Files, DrawLocked(f)
      PROVE  ZoneSound'
  <2> DEFINE was == Colour(f)
             is == FileColour(f, map[f], flags'[f])
  <2>1. was \in Plain /\ is \in Plain /\ array' = Colorized(array, ClustersOf(map[f]), is, was)
    BY <1>5, ColourPlain DEF Colour, DrawLocked
  <2> HIDE DEF was, is
  <2>2. ZoneIs(array', fs)
    BY <1>0, <2>1, ZoneStays
  <2> QED
    BY <2>2 DEF ZoneSound
<1> QED
  BY <1>3, <1>4, <1>5

\* In every state the array counts the clusters of the MFT zone in the one way
\* the file system calls for: drawing a move never touches that count.
THEOREM ZoneInvariance == MapSpec => []ZoneSound
<1>1. MapInit => ZoneSound
  <2> SUFFICES ASSUME MapInit PROVE ZoneSound
    OBVIOUS
  <2>1. Init /\ array = Analyzed
    BY DEF MapInit
  <2>2. /\ \A f \in Files : IsFileMap(map[f])
        /\ Disjoint(map) /\ free = Clusters \ OccupiedBy(map)
    BY <2>1, LayoutsAssumption DEF Init, ReallyFree
  <2>3. \A f \in Files : ClustersOf(map[f]) \subseteq Clusters
    BY <2>2 DEF ClustersOf, IsFileMap
  <2> QED
    BY <2>1, <2>2, <2>3, AnalysisDepicts DEF ZoneSound
<1>2. ASSUME ArraySound, ZoneSound, [MapNext]_<<vars, mapVars>>
      PROVE  ZoneSound'
  <2>1. UNCHANGED fs
    BY <1>2 DEF MapNext, OpenFails, AssumeSuccess, Succeed, SucceedPartially, Reject, Open,
       MoveDryRun, MovePortion, PortionFails, AbortMove, Fail, ReleaseTempSpace, OtherAllocates,
       OtherReleases, Stop, Return, vars
  <2>2. \/ UNCHANGED array
        \/ Redraw(TRUE) \/ Redraw(FALSE) \/ \E f \in Files : DrawLocked(f)
    BY <1>2 DEF MapNext, mapVars
  <2> QED
    BY <1>2, <2>1, <2>2, ZoneRedrawn DEF ZoneSound
<1> QED
  BY <1>1, <1>2, ArrayInvariance, PTL DEF MapSpec

\* A finite set of the first eight numbers has a greatest element, and eight
\* counters have one too.
LEMMA GreatestOf ==
  ASSUME NEW S \in SUBSET (1 .. 8), S # {}
  PROVE  Max(S) \in S /\ \A k \in S : k <= Max(S)
<1> DEFINE T == {8 - k : k \in S}
<1>0. \A k \in S : k \in Int /\ 8 - k \in Nat
  OBVIOUS
<1>1. T \subseteq Nat /\ T # {}
  BY <1>0
<1>2. PICK n \in T : \A m \in T : n <= m
  <2> HIDE DEF T
  <2> QED
    BY <1>1, LeastNatural
<1>3. PICK k \in S : n = 8 - k
  BY <1>2
<1>4. ASSUME NEW j \in S
      PROVE  k >= j
  <2>1. 8 - j \in T
    OBVIOUS
  <2>2. 8 - k <= 8 - j
    BY <1>2, <1>3, <2>1
  <2> QED
    BY <1>0, <2>2
<1>5. Max(S) = CHOOSE x \in S : \A y \in S : x >= y
  BY DEF Max
<1>6. Max(S) \in S /\ \A y \in S : Max(S) >= y
  BY <1>3, <1>4, <1>5
<1> QED
  BY <1>6

LEMMA MostOf ==
  ASSUME NEW S \in SUBSET (1 .. 8), S # {}, NEW g \in [1 .. 8 -> Nat]
  PROVE  \E k \in S : \A j \in S : g[j] <= g[k]
<1> DEFINE T == {n \in Nat : \A j \in S : g[j] <= n}
<1>1. T # {}
  <2> DEFINE n == g[1] + g[2] + g[3] + g[4] + g[5] + g[6] + g[7] + g[8]
  <2>1. \A k \in 1 .. 8 : k = 1 \/ k = 2 \/ k = 3 \/ k = 4 \/ k = 5 \/ k = 6 \/ k = 7 \/ k = 8
    OBVIOUS
  <2>2. /\ g[1] \in Nat /\ g[2] \in Nat /\ g[3] \in Nat /\ g[4] \in Nat
        /\ g[5] \in Nat /\ g[6] \in Nat /\ g[7] \in Nat /\ g[8] \in Nat
    OBVIOUS
  <2>3. n \in Nat /\ \A k \in 1 .. 8 : g[k] <= n
    BY <2>1, <2>2
  <2> HIDE DEF n
  <2> QED
    BY <2>3
<1>2. PICK n \in T : \A m \in T : n <= m
  <2>1. T \subseteq Nat
    OBVIOUS
  <2> HIDE DEF T
  <2> QED
    BY <1>1, <2>1, LeastNatural
<1>3. CASE n = 0
  <2>1. PICK k \in S : TRUE
    OBVIOUS
  <2>2. \A j \in S : g[j] <= 0 /\ 0 <= g[k]
    BY <1>2, <1>3
  <2>3. \A j \in S : g[j] \in Nat /\ g[k] \in Nat
    OBVIOUS
  <2> QED
    BY <2>2, <2>3
<1>4. CASE n # 0
  <2>1. n - 1 \in Nat /\ n - 1 \notin T
    BY <1>2, <1>4
  <2>2. PICK k \in S : ~(g[k] <= n - 1)
    BY <2>1
  <2> QED
    BY <2>2
<1> QED
  BY <1>3, <1>4

\* A cell lies in the zone as far as it is drawn when it lies there, unless
\* files have taken the zone away.
Within(cell) == fs = "NTFS" /\ ClustersIn(cell) \subseteq Zone

LEMMA ZoneIsShown ==
  ASSUME ArraySound, ZoneSound, NEW cell \in 0 .. UsedCells - 1
  PROVE  /\ InZone(cell) => Within(cell)
         /\ ~OppositeOrder /\ Within(cell) => InZone(cell)
<1>1. Full(cell) = Cardinality(ClustersIn(cell)) /\ Full(cell) \in Nat \ {0}
  BY FullIs
<1>2. CASE OppositeOrder
  <2>1. InZone(cell) => array[cell]["ZONE"] >= Full(cell)
    BY DEF InZone
  <2>2. array[cell]["ZONE"] > 0 => Within(cell)
    BY <1>2 DEF ZoneSound, ZoneIs, Within
  <2>3. array[cell]["ZONE"] \in Nat
    BY UsedCellsExist, MapAssumption, ColoursAre DEF ArraySound, Arrays, Cells
  <2> QED
    BY <1>1, <1>2, <2>1, <2>2, <2>3
<1>3. CASE ~OppositeOrder
  <2> DEFINE B == ClustersIn(cell)
             n == Cardinality(Zone \cap B)
  <2>1. array[cell]["ZONE"] = IF fs = "NTFS" THEN n ELSE 0
    BY <1>3 DEF ZoneSound, ZoneIs
  <2>2. IsFiniteSet(B) /\ Zone \cap B \in SUBSET B
    BY CellFinite
  <2>3. n \in Nat /\ n <= Cardinality(B) /\ (n = Cardinality(B) => Zone \cap B = B)
    <3> HIDE DEF B
    <3> QED
      BY <2>2, FS_Subset, FS_CardinalityType
  <2>4. B \subseteq Zone => Zone \cap B = B
    OBVIOUS
  <2>5. InZone(cell) <=> (fs = "NTFS" /\ n = Cardinality(B))
    <3>1. InZone(cell) <=> array[cell]["ZONE"] >= Cardinality(B)
      BY <1>1 DEF InZone
    <3>2. Cardinality(B) \in Nat \ {0}
      BY <1>1
    <3> HIDE DEF n, B
    <3> QED
      BY <2>1, <2>3, <3>1, <3>2
  <2>6. n = Cardinality(B) <=> B \subseteq Zone
    BY <2>3, <2>4
  <2> QED
    BY <1>3, <2>5, <2>6 DEF Within
<1> QED
  BY <1>2, <1>3

\* What a cell counts belongs to its clusters.
LEMMA SomethingDrawn ==
  ASSUME NEW cell \in 0 .. UsedCells - 1
  PROVE  /\ \E colour \in Plain : Drawn(cell)[colour] > 0
         /\ \/ Drawn(cell)["FREE"] = Full(cell)
            \/ \E colour \in Plain \ {"FREE"} : Drawn(cell)[colour] > 0
<1> DEFINE B == ClustersIn(cell)
           Of(colour) == {c \in B : View[c] = colour}
<1>1. Full(cell) = Cardinality(B) /\ Full(cell) # 0
  BY FullIs
<1>2. IsFiniteSet(B) /\ B \subseteq Clusters
  BY CellFinite
<1>3. \A c \in B : View[c] \in Plain
  BY <1>2, ViewPicture DEF Pictures
<1>4. \A colour \in Plain : Drawn(cell)[colour] = Cardinality(Of(colour))
  BY DrawnCounts DEF CountOf, Plain
<1>5. ASSUME NEW c \in B
      PROVE  Drawn(cell)[View[c]] > 0
  <2>1. c \in Of(View[c]) /\ IsFiniteSet(Of(View[c]))
    BY CellFinite
  <2>2. Cardinality(Of(View[c])) \in Nat /\ Cardinality(Of(View[c])) # 0
    <3> HIDE DEF Of
    <3> QED
      BY <2>1, FS_EmptySet, FS_CardinalityType
  <2> QED
    BY <1>3, <1>4, <2>2
<1>6. B # {}
  BY <1>1, FS_EmptySet
<1>7. CASE \A c \in B : View[c] = "FREE"
  <2>1. Of("FREE") = B /\ "FREE" \in Plain
    BY <1>7, ColoursAre DEF Plain
  <2> QED
    BY <1>1, <1>3, <1>4, <1>5, <1>6, <2>1
<1>8. CASE \E c \in B : View[c] # "FREE"
  BY <1>3, <1>5, <1>8
<1> QED
  BY <1>7, <1>8

\* The colour of a cell is the one it really has most of; free space and the
\* zone are distinguished as the comment of deliver_progress_info says.
LEMMA CellShown ==
  ASSUME ArraySound, ZoneSound, Exact, NEW cell \in 0 .. UsedCells - 1
  PROVE  LET d == Drawn(cell)
             shown == Shown(cell)
             most == \A colour \in ColourSet \ (IF Within(cell) THEN {"FREE"} ELSE {}) :
                         d[colour] <= d[shown]
         IN /\ shown = "ZONE" => (Within(cell) => d["FREE"] = Cardinality(ClustersIn(cell)))
            /\ shown = "FREE" => most /\ (Within(cell) => OppositeOrder)
            /\ shown \notin {"ZONE", "FREE"} => most /\ d[shown] > 0
<1> DEFINE d == Drawn(cell)
           shown == Shown(cell)
           row == array[cell]
           cand == Candidates(cell)
           g == [k \in 1 .. 8 |-> row[Colours[k]]]
           best == {k \in cand : \A j \in cand : g[j] <= g[k]}
           most == \A colour \in ColourSet \ (IF Within(cell) THEN {"FREE"} ELSE {}) :
                       d[colour] <= d[shown]
<1>1. DOMAIN Colours = 1 .. 8 /\ Colours[8] = "ZONE"
  BY DEF Colours
<1>2. /\ \A k \in 1 .. 8 : Colours[k] \in ColourSet
      /\ \A colour \in ColourSet : \E k \in 1 .. 8 : Colours[k] = colour
  BY <1>1 DEF ColourSet
<1>3. row \in [ColourSet -> Nat] /\ \A colour \in Plain : row[colour] = d[colour]
  <2>1. cell \in Cells
    BY UsedCellsExist, MapAssumption DEF Cells
  <2> QED
    BY <2>1, DrawnCounts DEF ArraySound, Arrays, Depicts, Plain
<1>4. d["ZONE"] = 0 /\ \A colour \in ColourSet : colour = "ZONE" \/ colour \in Plain
  <2>1. {c \in ClustersIn(cell) : View[c] = "ZONE"} = {}
    BY CellFinite, ViewPicture DEF Pictures, Plain
  <2>2. CountOf(View, cell, "ZONE") = 0
    BY <2>1, FS_EmptySet DEF CountOf
  <2> QED
    BY <2>2, DrawnCounts, ColoursAre DEF Plain
<1>5. g \in [1 .. 8 -> Nat]
  BY <1>2, <1>3
<1>6. cand = {k \in 1 .. 8 : InZone(cell) => Colours[k] \notin {"FREE", "ZONE"}}
  BY <1>1 DEF Candidates
<1>7. shown = IF InZone(cell) /\ AllFree(cell) THEN "ZONE"
              ELSE IF \A k \in best : g[k] = 0 THEN "DEFAULT" ELSE Colours[Max(best)]
  <2>1. \A k \in cand : g[k] = row[Colours[k]]
    BY <1>6
  <2>2. best = {k \in cand : \A j \in cand : row[Colours[j]] <= row[Colours[k]]}
    BY <2>1
  <2>3. \A k \in best : g[k] = row[Colours[k]]
    BY <2>1
  <2> HIDE DEF g, best, row, cand
  <2> QED
    BY <2>2, <2>3 DEF Shown, row, cand
<1>8. /\ InZone(cell) => Within(cell)
      /\ ~OppositeOrder /\ Within(cell) => InZone(cell)
  BY ZoneIsShown
<1>9. Full(cell) = Cardinality(ClustersIn(cell)) /\ "FREE" \in Plain
  BY FullIs, ColoursAre DEF Plain
<1>10. /\ \E colour \in Plain : d[colour] > 0
       /\ d["FREE"] = Full(cell) \/ \E colour \in Plain \ {"FREE"} : d[colour] > 0
  BY SomethingDrawn
<1>11. AllFree(cell) <=> d["FREE"] >= Full(cell)
  BY <1>3, <1>9 DEF AllFree
<1>12. d["FREE"] <= Full(cell) /\ d["FREE"] \in Nat /\ Full(cell) \in Nat
  <2>1. d["FREE"] = Cardinality({c \in ClustersIn(cell) : View[c] = "FREE"})
    BY <1>9, DrawnCounts DEF CountOf, Plain
  <2>2. IsFiniteSet(ClustersIn(cell))
    BY CellFinite
  <2>3. {c \in ClustersIn(cell) : View[c] = "FREE"} \in SUBSET ClustersIn(cell)
    OBVIOUS
  <2> QED
    BY <1>9, <2>1, <2>2, <2>3, FS_Subset, FS_CardinalityType
<1> HIDE DEF d, shown, row, cand, g
<1>13. CASE InZone(cell) /\ AllFree(cell)
  <2>1. shown = "ZONE" /\ d["FREE"] = Cardinality(ClustersIn(cell))
    BY <1>7, <1>9, <1>11, <1>12, <1>13
  <2> QED
    BY <2>1 DEF d, shown
<1>14. CASE ~(InZone(cell) /\ AllFree(cell))
  <2>1. PICK i \in cand : g[i] > 0 /\ Colours[i] \in Plain
    <3>1. CASE InZone(cell)
      <4>1. PICK colour \in Plain \ {"FREE"} : d[colour] > 0
        BY <1>10, <1>11, <1>12, <1>14, <3>1
      <4>2. PICK i \in 1 .. 8 : Colours[i] = colour
        BY <1>2, <4>1 DEF Plain
      <4> QED
        BY <1>3, <1>6, <4>1, <4>2 DEF g, Plain
    <3>2. CASE ~InZone(cell)
      <4>1. PICK colour \in Plain : d[colour] > 0
        BY <1>10
      <4>2. PICK i \in 1 .. 8 : Colours[i] = colour
        BY <1>2, <4>1 DEF Plain
      <4> QED
        BY <1>3, <1>6, <3>2, <4>1, <4>2 DEF g
    <3> QED
      BY <3>1, <3>2
  <2>2. cand \in SUBSET (1 .. 8) /\ cand # {}
    BY <1>6, <2>1
  <2>3. best \in SUBSET (1 .. 8) /\ best # {}
    BY <1>5, <2>2, MostOf
  <2> DEFINE m == Max(best)
  <2>4. m \in best
    <3> HIDE DEF best
    <3> QED
      BY <2>3, GreatestOf
  <2>5. m \in cand /\ \A j \in cand : g[j] <= g[m]
    BY <2>4
  <2>6. m \in 1 .. 8 /\ g[m] \in Nat /\ g[m] > 0
    <3>1. m \in 1 .. 8 /\ i \in 1 .. 8
      BY <2>1, <2>2, <2>5
    <3>2. g[m] \in Nat /\ g[i] \in Nat
      BY <1>5, <3>1
    <3>3. g[i] <= g[m]
      BY <2>1, <2>5
    <3> HIDE DEF m
    <3> QED
      BY <2>1, <3>1, <3>2, <3>3
  <2>7. shown = Colours[m]
    <3> HIDE DEF best
    <3>1. ~ \A k \in best : g[k] = 0
      <4> HIDE DEF m
      <4>1. g[m] # 0
        BY <2>6
      <4> QED
        BY <2>4, <4>1
    <3> QED
      BY <1>7, <1>14, <3>1
  <2> HIDE DEF m
  <2>8. g[m] = row[shown] /\ shown \in ColourSet
    BY <1>2, <2>6, <2>7 DEF g
  <2>9. shown # "ZONE" => d[shown] = g[m]
    BY <1>3, <1>4, <2>8
  <2>10. ASSUME NEW colour \in ColourSet, colour # "ZONE",
                InZone(cell) => colour # "FREE"
         PROVE  d[colour] <= g[m]
    <3>1. PICK j \in 1 .. 8 : Colours[j] = colour
      BY <1>2
    <3>2. j \in cand /\ g[j] = row[colour] /\ row[colour] = d[colour]
      BY <1>3, <1>4, <1>6, <2>10, <3>1 DEF g
    <3> QED
      BY <2>5, <3>2
  <2>11. shown # "ZONE" /\ (InZone(cell) => Within(cell)) => most
    BY <1>4, <2>6, <2>9, <2>10
  <2>12. shown = "ZONE" => ~Within(cell)
    <3>1. ASSUME shown = "ZONE"
          PROVE  ~InZone(cell) /\ ~OppositeOrder
      <4>1. ~InZone(cell)
        BY <1>6, <2>5, <2>7, <3>1
      <4>2. OppositeOrder => Full(cell) = 1
        BY DEF Full
      <4>3. InZone(cell) <=> row["ZONE"] >= Full(cell)
        BY DEF InZone, row
      <4> QED
        BY <2>6, <2>8, <3>1, <4>1, <4>2, <4>3
    <3> QED
      BY <1>8, <3>1
  <2>13. shown = "FREE" => ~InZone(cell)
    BY <1>6, <2>5, <2>7
  <2> HIDE DEF most, best
  <2>14. /\ shown = "ZONE" => ~Within(cell)
         /\ shown = "FREE" => most /\ (Within(cell) => OppositeOrder)
         /\ shown \notin {"ZONE", "FREE"} => most /\ d[shown] > 0
    BY <1>8, <2>6, <2>9, <2>11, <2>12, <2>13
  <2> QED
    BY <2>14 DEF most, d, shown
<1> QED
  BY <1>13, <1>14

\* A cell is shown as zone or as free only when its clusters are, and else in
\* a colour its clusters have most of (deliver_progress_info), whatever has
\* been moved since the analysis.
THEOREM CellsAreShownTruly == MapSpec => []ShownTruly
<1>1. ASSUME ArraySound, ZoneSound
      PROVE  ShownTruly
  <2> SUFFICES ASSUME Exact, NEW cell \in 0 .. UsedCells - 1
               PROVE  \A drawn \in {Drawn(cell)}, shown \in {Shown(cell)} :
            LET within == fs = "NTFS" /\ ClustersIn(cell) \subseteq Zone
                most == \A colour \in ColourSet \ (IF within THEN {"FREE"} ELSE {}) :
                            drawn[colour] <= drawn[shown]
            IN CASE shown = "ZONE" -> within => drawn["FREE"] = Cardinality(ClustersIn(cell))
                 [] shown = "FREE" -> most /\ (within => OppositeOrder)
                 [] OTHER -> most /\ drawn[shown] > 0
    BY DEF ShownTruly
  <2> QED
    BY <1>1, CellShown DEF Within
<1> QED
  BY <1>1, ArrayInvariance, ZoneInvariance, PTL

=============================================================================
