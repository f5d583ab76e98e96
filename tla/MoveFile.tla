------------------------------- MODULE MoveFile -------------------------------
(***************************************************************************)
(* The heart of the engine: move_file (dll/udefrag/move.c) and the view of *)
(* the volume it keeps up to date.                                         *)
(*                                                                         *)
(* The DISK is what Windows knows: the map of every file, the clusters of  *)
(* other processes and, on NTFS, the clusters it holds back for a while    *)
(* after a move.  The VIEW is what the engine knows: the block maps it     *)
(* dumped, the list of free regions it loaded, the file flags, the tree of *)
(* fragmented files and the statistics.  A move asks Windows to relocate a *)
(* chain of clusters in little portions, dumps the file anew, classifies   *)
(* the outcome and updates the view; other processes and the user's Stop   *)
(* button interfere at any moment.                                         *)
(*                                                                         *)
(* A file map is a function from VCNs to LCNs; its domain may have holes   *)
(* (sparse and compressed files).  Blocks are the maximal runs of it.  The *)
(* list of free regions is the set of its clusters here; FreeRegions.tla   *)
(* shows that the list operations compute exactly that set.                *)
(***************************************************************************)
EXTENDS Integers, FiniteSets, FiniteSetsExt

CONSTANTS
    Files,           \* the files the analysis found
    NClusters,       \* v_info.total_clusters
    Layouts,         \* the initial dispositions: a set of [Files -> maps]
    Rivals,          \* the clusters other processes allocate and release
    PathExcluded,    \* the files rejected by exclude_by_path (UD_EX_FILTER...)
                     \* or for being temporary
    FragmentsLimit,  \* udo.fragments_limit, 0 when unset
    FragmentSize,    \* udo.fragment_size_threshold in clusters, 0 when it is
                     \* the default or set by the algorithm itself
    SizeLimit,       \* udo.size_limit, in clusters
    ClustersAtOnce,  \* jp->clusters_at_once, the size of a portion
    Scans,           \* how far a scan of the volume bitmap may get
    MaxMoves         \* bound on the number of files opened for a move

Clusters == 0 .. NClusters - 1

ClustersOf(m) == {m[v] : v \in DOMAIN m}

IsFileMap(m) ==
    /\ IsFiniteSet(DOMAIN m) /\ DOMAIN m # {} /\ DOMAIN m \subseteq Nat
    /\ m \in [DOMAIN m -> Clusters]
    /\ \A v, w \in DOMAIN m : m[v] = m[w] => v = w

\* No two files share a cluster.
Disjoint(maps) ==
    \A f, g \in Files : f # g => ClustersOf(maps[f]) \cap ClustersOf(maps[g]) = {}

ASSUME ConstantsAssumption ==
    /\ IsFiniteSet(Files) /\ Files # {}
    /\ NClusters \in Nat /\ ClustersAtOnce \in Nat \ {0}
    /\ FragmentsLimit \in Nat /\ FragmentSize \in Nat /\ SizeLimit \in Nat
    /\ PathExcluded \subseteq Files /\ Rivals \subseteq Clusters
    /\ Scans \subseteq Nat /\ MaxMoves \in Nat

ASSUME LayoutsAssumption ==
    \A maps \in Layouts :
        /\ DOMAIN maps = Files
        /\ \A f \in Files : IsFileMap(maps[f])
        /\ Disjoint(maps)

VARIABLES
    fs,        \* jp->fs_type: "NTFS" or "FAT"
    dry_run,   \* udo.dry_run
    real,      \* DISK: where the clusters of every file really are
    used,      \* DISK: clusters of files the engine does not know
    temp,      \* DISK: clusters NTFS holds back after a move
    map,       \* VIEW: f->disp.blockmap
    free,      \* VIEW: jp->free_regions
    flags,     \* VIEW: f->user_defined_flags
    listed,    \* VIEW: jp->fragmented_files, nodes <<key, file>>
    pi,        \* VIEW: the statistics shown to the user
    pc,        \* where move_file is
    req,       \* the parameters of the call
    todo,      \* VCNs of the chain not handed to Windows yet
    left,      \* move_file_helper's length
    processed, \* what this call added to pi.processed_clusters
    ret,       \* the file and the value the last call returned
    stopped,   \* termination_router returns nonzero
    doubt,     \* history: a map was assumed instead of dumped
    moved,     \* history: the files move_file has given a new map
    moves      \* history: files opened for a move so far

disk == <<real, used, temp>>
view == <<map, free, flags, listed, pi>>
call == <<pc, req, todo, left, processed, ret>>
vars == <<fs, dry_run, disk, view, call, stopped, doubt, moved, moves>>

-----------------------------------------------------------------------------
(* The block map.                                                          *)

\* How many clusters of the file lie between VCN v and VCN u.
Rank(m, v, u) == Cardinality({w \in DOMAIN m : v <= w /\ w < u})

\* The VCNs a chain of n clusters starting at VCN v consists of.
Chain(m, v, n) == {u \in DOMAIN m : v <= u /\ Rank(m, v, u) < n}

\* The VCN in front of u in the list of blocks.
Follows(m, w, u) == w < u /\ \A x \in DOMAIN m : ~(w < x /\ x < u)

\* f->disp.fragments: a fragment starts where the LCNs are not contiguous.
Starts(m) ==
    {u \in DOMAIN m : ~ \E w \in DOMAIN m : Follows(m, w, u) /\ m[u] = m[w] + 1}
Fragments(m) == Cardinality(Starts(m))
FragmentLength(m, s) ==
    Cardinality({u \in DOMAIN m : s <= u /\ ~ \E x \in Starts(m) : s < x /\ x <= u})

Size(m) == Cardinality(DOMAIN m)
Fragmented(m) == Fragments(m) > 1

EndVcn(m) == 1 + CHOOSE v \in DOMAIN m : \A w \in DOMAIN m : w <= v

\* A middle part of a single block: what no caller asks for.
IsMiddle(m, v, n) ==
    /\ v - 1 .. v + n \subseteq DOMAIN m
    /\ \A u \in v .. v + n : m[u] = m[u - 1] + 1

\* The filters move_file applies again to a moved file.
FilteredBySize(m) == Size(m) > SizeLimit
FilteredByFragments(m) == FragmentsLimit # 0 /\ Fragments(m) < FragmentsLimit
FilteredByFragmentSize(m) ==
    FragmentSize # 0 /\ \A s \in Starts(m) : FragmentLength(m, s) >= FragmentSize
Filtered(m) ==
    FilteredBySize(m) \/ FilteredByFragments(m) \/ FilteredByFragmentSize(m)

\* calculate_file_disposition: the map after a complete move.
Desired(m, v, n, t) ==
    [u \in DOMAIN m |-> IF u \in Chain(m, v, n) THEN t + Rank(m, v, u) ELSE m[u]]

-----------------------------------------------------------------------------
(* The statistics and the initial state.                                   *)

OccupiedBy(maps) == UNION {ClustersOf(maps[f]) : f \in Files}
ReallyFree == Clusters \ (used \cup temp \cup OccupiedBy(real))

Excluded(f) == "EXCLUDED" \in flags[f]
StatusFlags == {"LOCKED", "MOVING_FAILED", "IMPROPER_STATE"}
Flags == StatusFlags \cup {"EXCLUDED"}

\* What one file contributes to the counters.
Share(m, excluded) ==
    IF Fragmented(m) /\ ~excluded
    THEN [fragmented |-> 1, fragments |-> Fragments(m),
          bad_fragments |-> Fragments(m), bad_clusters |-> Size(m)]
    ELSE [fragmented |-> 0, fragments |-> 1, bad_fragments |-> 0, bad_clusters |-> 0]

Counters == {"fragmented", "fragments", "bad_fragments", "bad_clusters"}

Total(field, maps, excluded) ==
    MapThenSumSet(LAMBDA f : Share(maps[f], f \in excluded)[field], Files)

NoReq == [file |-> CHOOSE f \in Files : TRUE, vcn |-> 0, length |-> 0, target |-> 0]

\* The state the analysis leaves: find_files, get_free_space_layout and
\* produce_list_of_fragmented_files have run and the lists are exact.
Init ==
    /\ fs \in {"NTFS", "FAT"}
    /\ dry_run \in BOOLEAN
    /\ real \in Layouts
    /\ used = {} /\ temp = {}
    /\ map = real
    /\ free = ReallyFree
    /\ flags = [f \in Files |->
                  IF f \in PathExcluded \/ Filtered(real[f]) THEN {"EXCLUDED"} ELSE {}]
    /\ listed = {<<Fragments(real[f]), f>> : f \in
                   {g \in Files : Fragmented(real[g]) /\ ~Excluded(g)}}
    /\ pi = [c \in Counters |-> Total(c, real, {f \in Files : Excluded(f)})]
    /\ pc = "idle" /\ req = NoReq /\ todo = {} /\ left = 0 /\ processed = 0
    /\ ret = [file |-> NoReq.file, value |-> 0]
    /\ stopped = FALSE /\ doubt = FALSE /\ moved = {} /\ moves = 0

-----------------------------------------------------------------------------
(* Entering move_file.                                                     *)

\* can_move: files in a bad state and files that failed are skipped.
CanMove(f) == flags[f] \cap StatusFlags = {}

\* The target an algorithm asks for was found in the list of free regions.
Requests(f) ==
    {r \in [file : {f}, vcn : 0 .. EndVcn(map[f]), length : 0 .. Size(map[f]),
            target : Clusters \cup {NClusters}] :
        /\ ~IsMiddle(map[f], r.vcn, r.length)
        /\ r.target + r.length <= NClusters => r.target .. r.target + r.length - 1 \subseteq free}

BeyondEnd(r) == r.vcn + r.length > EndVcn(map[r.file])
OutOfBounds(r) == r.vcn \notin DOMAIN map[r.file]
OutOfVolume(r) == r.target >= NClusters \/ r.target + r.length > NClusters

Enter(f) == pc = "idle" /\ ~stopped /\ CanMove(f)

Returned(f, value) == ret' = [file |-> f, value |-> value]
AddFlag(f, flag) == flags' = [flags EXCEPT ![f] = @ \cup {flag}]

\* The parameters are checked; a zero length is "nothing to move".
Reject(f) ==
    /\ Enter(f)
    /\ \E r \in Requests(f) :
        \/ r.length = 0 /\ Returned(f, 0)
        \/ r.length > 0 /\ (BeyondEnd(r) \/ OutOfBounds(r) \/ OutOfVolume(r)) /\ Returned(f, -1)
    /\ AddFlag(f, "IMPROPER_STATE")
    /\ UNCHANGED <<fs, dry_run, disk, map, free, listed, pi, pc, req, todo, left,
                   processed, stopped, doubt, moved, moves>>

Accepted(f) ==
    {r \in Requests(f) : r.length > 0 /\ ~BeyondEnd(r) /\ ~OutOfBounds(r) /\ ~OutOfVolume(r)}

\* Another process holds the file: it cannot be opened.
OpenFails(f) ==
    /\ Enter(f) /\ Accepted(f) # {}
    /\ AddFlag(f, "LOCKED")
    /\ Returned(f, -1)
    /\ UNCHANGED <<fs, dry_run, disk, map, free, listed, pi, pc, req, todo, left,
                   processed, stopped, doubt, moved, moves>>

Open(f) ==
    /\ Enter(f)
    /\ \E r \in Accepted(f) :
        /\ req' = r
        /\ todo' = Chain(map[f], r.vcn, r.length)
        /\ left' = r.length
    /\ pc' = "moving" /\ processed' = 0
    /\ moves < MaxMoves /\ moves' = moves + 1
    /\ UNCHANGED <<fs, dry_run, disk, view, ret, stopped, doubt, moved>>

-----------------------------------------------------------------------------
(* move_file_helper and move_file_clusters.                                *)

Moving == req.file
Dest(u) == req.target + Rank(map[Moving], req.vcn, u)

\* The VCNs of todo a single call of move_file_clusters still has to move:
\* blocks are joined as long as the VCNs are contiguous.
Group ==
    {u \in todo : \E first \in todo :
        /\ \A w \in todo : first <= w
        /\ first <= u
        /\ first .. u \subseteq todo}

Portion == {u \in Group : Cardinality({w \in Group : w < u}) < ClustersAtOnce}

Prefixes(S) == {S} \cup {{u \in S : u < b} : b \in S}

\* Windows relocates the clusters M of the file; NTFS keeps the old ones
\* allocated until release_temp_space_regions.
Relocate(M) ==
    /\ {Dest(u) : u \in M} \subseteq ReallyFree
    /\ real' = [real EXCEPT ![Moving] =
                  [u \in DOMAIN @ |-> IF u \in M THEN Dest(u) ELSE @[u]]]
    /\ temp' = IF fs = "NTFS" THEN temp \cup {real[Moving][u] : u \in M} ELSE temp
    /\ UNCHANGED used

\* The clusters of the request the file does not have: holes of a sparse file.
Short == req.length - Cardinality(Chain(map[Moving], req.vcn, req.length))

\* The helper stops when nothing is left to hand over or a call has failed;
\* it counts all unprocessed clusters then.
Continue(rest, unprocessed, counted) ==
    /\ todo' = rest
    /\ left' = unprocessed
    /\ pc' = IF rest = {} THEN "redump" ELSE "moving"
    /\ processed' = processed + counted + IF rest = {} THEN unprocessed ELSE 0

MoveDryRun ==
    /\ pc = "moving" /\ ~stopped /\ dry_run
    /\ Continue(todo \ Group, Short + Cardinality(todo \ Group), Cardinality(Group))
    /\ UNCHANGED <<fs, dry_run, disk, view, req, ret, stopped, doubt, moved, moves>>

\* FSCTL_MOVE_FILE reports success, possibly with part of the data moved;
\* left is reduced only when the whole group has been handed over.
MovePortion ==
    /\ pc = "moving" /\ ~stopped /\ ~dry_run
    /\ \E M \in Prefixes(Portion) : Relocate(M)
    /\ Continue(todo \ Portion,
                IF Portion = Group THEN Short + Cardinality(todo \ Group) ELSE left,
                Cardinality(Portion))
    /\ UNCHANGED <<fs, dry_run, view, req, ret, stopped, doubt, moved, moves>>

\* FSCTL_MOVE_FILE reports an error: the rest of the group counts as
\* processed and the helper gives up.
PortionFails ==
    /\ pc = "moving" /\ ~stopped /\ ~dry_run
    /\ \E M \in Prefixes(Portion) \ {Portion} : Relocate(M)
    /\ Continue({}, left, Cardinality(Group))
    /\ UNCHANGED <<fs, dry_run, view, req, ret, stopped, doubt, moved, moves>>

MutAbortMove ==
    /\ pc = "moving" /\ stopped
    /\ Continue({}, 0, 0)
    /\ UNCHANGED <<fs, dry_run, disk, view, req, ret, stopped, doubt, moved, moves>>

\* The termination check in front of every portion.
AbortMove ==
    /\ pc = "moving" /\ stopped
    /\ Continue({}, left, 0)
    /\ UNCHANGED <<fs, dry_run, disk, view, req, ret, stopped, doubt, moved, moves>>

-----------------------------------------------------------------------------
(* After the move: the outcome is determined and the view updated.         *)

Target == req.target .. req.target + req.length - 1

\* The clusters the chain occupied according to the view.
Released == {map[Moving][u] : u \in Chain(map[Moving], req.vcn, req.length)}

MutAdjustStatistics(m, was, became) ==
    LET old == map[Moving]
    IN IF became /\ ~was
       THEN pi' = [fragmented |-> pi.fragmented + 1, fragments |-> pi.fragments + Fragments(m),
                   bad_fragments |-> pi.bad_fragments + Fragments(m),
                   bad_clusters |-> pi.bad_clusters + Size(m)]
       ELSE UNCHANGED pi

\* The counters lose the file's old share and gain the new one, in the
\* cases the code distinguishes.
AdjustStatistics(m, was, became) ==
    LET old == map[Moving]
        Delta(fr, frs, bad, cl) ==
            pi' = [fragmented |-> pi.fragmented + fr, fragments |-> pi.fragments + frs,
                   bad_fragments |-> pi.bad_fragments + bad,
                   bad_clusters |-> pi.bad_clusters + cl]
    IN CASE became /\ ~was -> Delta(1, Fragments(m) - 1, Fragments(m), Size(m))
         [] became /\ was  -> Delta(0, Fragments(m) - Fragments(old),
                                    Fragments(m) - Fragments(old), Size(m) - Size(old))
         [] ~became /\ was -> Delta(-1, 1 - Fragments(old), -Fragments(old), -Size(old))
         [] OTHER          -> UNCHANGED pi

MutNewFree(partial) ==
    (free \ Target) \cup (IF ~partial THEN Released ELSE {})

\* The target leaves the pool; the released range enters it at once unless
\* NTFS still holds it back.
NewFree(partial) ==
    (free \ Target) \cup
        (IF ~partial /\ (fs # "NTFS" \/ dry_run) THEN Released ELSE {})

NewFlags(excluded, partial) ==
    [flags EXCEPT ![Moving] = (@ \ {"EXCLUDED"})
                                \cup (IF excluded THEN {"EXCLUDED"} ELSE {})
                                \cup (IF partial THEN {"MOVING_FAILED"} ELSE {})]

MutNewListed(m, was, became) ==
    listed \cup (IF became THEN {<<Fragments(m), Moving>>} ELSE {})

\* truncate_fragmented_files_list and expand_fragmented_files_list.
NewListed(m, was, became) ==
    (listed \ (IF was THEN {<<Fragments(map[Moving]), Moving>>} ELSE {}))
        \cup (IF became THEN {<<Fragments(m), Moving>>} ELSE {})

\* The common tail of move_file: the file has the map m from now on.
Update(m, partial) ==
    LET excluded == Filtered(m)
        was == Fragmented(map[Moving]) /\ ~Excluded(Moving)
        became == Fragmented(m) /\ ~excluded
    IN /\ map' = [map EXCEPT ![Moving] = m]
       /\ flags' = NewFlags(excluded, partial)
       /\ free' = NewFree(partial)
       /\ AdjustStatistics(m, was, became)
       /\ listed' = NewListed(m, was, became)
       /\ moved' = moved \cup {Moving}
       /\ Returned(Moving, IF partial THEN -1 ELSE 0)

Return ==
    /\ pc' = "idle" /\ req' = NoReq /\ left' = 0 /\ processed' = 0
    /\ UNCHANGED <<fs, dry_run, disk, todo, stopped, moves>>

Wanted == Desired(map[Moving], req.vcn, req.length, req.target)

\* There is no new map: in a dry run, or the dump failed or was terminated.
AssumeSuccess ==
    /\ pc = "redump"
    /\ Update(Wanted, FALSE)
    /\ doubt' = (doubt \/ ~dry_run)
    /\ Return

\* The dumped map is the desired one.
Succeed ==
    /\ pc = "redump" /\ ~dry_run
    /\ real[Moving] = Wanted
    /\ Update(real[Moving], FALSE)
    /\ UNCHANGED doubt
    /\ Return

\* Nothing has been moved: the target must be in use.
Fail ==
    /\ pc = "redump" /\ ~dry_run
    /\ real[Moving] # Wanted /\ real[Moving] = map[Moving]
    /\ AddFlag(Moving, "MOVING_FAILED")
    /\ free' = free \ Target
    /\ Returned(Moving, -1)
    /\ UNCHANGED <<map, listed, pi, doubt, moved>>
    /\ Return

MutSucceedPartially ==
    /\ pc = "redump" /\ ~dry_run
    /\ real[Moving] # Wanted /\ real[Moving] # map[Moving]
    /\ Update(Wanted, TRUE)
    /\ UNCHANGED doubt
    /\ Return

\* Part of the chain has been moved: the dumped map is taken as it is.
SucceedPartially ==
    /\ pc = "redump" /\ ~dry_run
    /\ real[Moving] # Wanted /\ real[Moving] # map[Moving]
    /\ Update(real[Moving], TRUE)
    /\ UNCHANGED doubt
    /\ Return

-----------------------------------------------------------------------------
(* Between the moves, and around them.                                     *)

\* release_temp_space_regions: Windows lets the clusters it held back go and
\* the list is loaded again; a scan that fails keeps the regions found so far.
ReleaseTempSpace ==
    /\ pc = "idle" /\ ~dry_run
    /\ temp' = {}
    /\ \E scanned \in Scans :
         free' = {c \in Clusters \ (used \cup OccupiedBy(real)) : c < scanned}
    /\ UNCHANGED <<fs, dry_run, real, used, map, flags, listed, pi, call, stopped, doubt, moved, moves>>

OtherAllocates ==
    /\ ~dry_run
    /\ \E c \in Rivals \cap ReallyFree : used' = used \cup {c}
    /\ UNCHANGED <<fs, dry_run, real, temp, view, call, stopped, doubt, moved, moves>>

OtherReleases ==
    /\ \E c \in used : used' = used \ {c}
    /\ UNCHANGED <<fs, dry_run, real, temp, view, call, stopped, doubt, moved, moves>>

Stop ==
    /\ ~stopped
    /\ stopped' = TRUE
    /\ UNCHANGED <<fs, dry_run, disk, view, call, doubt, moved, moves>>

Next ==
    \/ \E f \in Files : Reject(f) \/ OpenFails(f) \/ Open(f)
    \/ MoveDryRun \/ MovePortion \/ PortionFails \/ AbortMove
    \/ AssumeSuccess \/ Succeed \/ Fail \/ SucceedPartially
    \/ ReleaseTempSpace \/ OtherAllocates \/ OtherReleases \/ Stop

Spec == Init /\ [][Next]_vars

-----------------------------------------------------------------------------
(* Properties.                                                             *)

TypeOK ==
    /\ fs \in {"NTFS", "FAT"} /\ dry_run \in BOOLEAN
    /\ DOMAIN real = Files /\ DOMAIN map = Files
    /\ \A f \in Files : IsFileMap(real[f]) /\ map[f] \in [DOMAIN real[f] -> Clusters]
    /\ used \subseteq Clusters /\ temp \subseteq Clusters /\ free \subseteq Clusters
    /\ flags \in [Files -> SUBSET Flags]
    /\ listed \subseteq Nat \X Files
    /\ DOMAIN pi = Counters
    /\ pc \in {"idle", "moving", "redump"}
    /\ req \in [file : Files, vcn : Nat, length : Nat, target : Nat]
    /\ todo \subseteq DOMAIN map[req.file]
    /\ left \in Nat /\ processed \in Nat
    /\ ret \in [file : Files, value : {0, -1}]
    /\ stopped \in BOOLEAN /\ doubt \in BOOLEAN /\ moved \subseteq Files /\ moves \in Nat

\* What the engine knows to be taken: in a dry run the simulated maps, else
\* the files it tracks and the clusters NTFS holds back.
Owned == IF dry_run THEN OccupiedBy(map) ELSE OccupiedBy(real) \cup temp
InFlight == IF pc = "idle" THEN {} ELSE Target

\* The list of free regions never offers a cluster of a known file, nor one
\* that NTFS holds back after a move, except the target of the running move.
\* Only on FAT, after a map had to be assumed, is there no such guarantee.
FreeViewSound ==
    (fs = "NTFS" \/ dry_run \/ ~doubt) => free \cap Owned \subseteq InFlight

\* As long as every move could be verified, the block maps the algorithms
\* work on are the maps on the disk, whatever failed in the meantime.
ViewExact ==
    ~dry_run /\ ~doubt => \A f \in Files : (pc = "idle" \/ f # Moving) => map[f] = real[f]

\* The files rejected by their paths, or as temporary, which move_file has let
\* in again: it asks the filters by size and fragments anew for a moved file,
\* but not these two (move.c 697-706), although "the program never treats
\* those files as fragmented" (handbook, 01_intro.dox 90).
Readmitted == PathExcluded \cap moved

\* The filters of the analysis, asked anew of the map as it is now, whatever
\* the flag of the file says: excluded files count as one fragment.
Rejected(f) == f \in PathExcluded \ Readmitted \/ Filtered(map[f])

\* The incremental updates of move_file keep the statistics what an analysis
\* of the maps would count, the readmitted files excepted (move.c 694-768).
StatisticsExact ==
    \A c \in Counters : pi[c] = Total(c, map, {f \in Files : Rejected(f)})

\* The tree the defragmentation walks holds exactly the fragmented files
\* which no filter rejects, each under its current key; a file rejected by
\* its path alone is not in it before its first move, but is afterwards.
FragmentedListExact ==
    listed = {<<Fragments(map[f]), f>> :
                f \in {g \in Files : Fragmented(map[g]) /\ ~Rejected(g)}}

\* "If this function returns a negative value, it sets also one of the file
\* status flags", which is what keeps the passes from trying again forever.
FailureIsFlagged == ret.value = -1 => ~CanMove(ret.file)

\* Every cluster of the request is counted as processed when the helper
\* returns, so the progress indicator arrives at the end.
CountedEntirely == pc = "redump" => processed >= req.length

\* What the caller and the user learn of a move, whatever part of it has been
\* done and whatever has gone wrong.
Reported == FailureIsFlagged /\ CountedEntirely

=============================================================================
