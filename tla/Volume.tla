-------------------------------- MODULE Volume --------------------------------
(***************************************************************************)
(* What the algorithms of a job share: how files are mapped to clusters,   *)
(* which regions of the disk the job believes to be free, and move_file by *)
(* its outcomes (dll/udefrag/move.c, search.c).  MoveFile.tla has the      *)
(* steps of a move.                                                        *)
(***************************************************************************)
EXTENDS Integers, Sequences, FiniteSets, FiniteSetsExt

CONSTANTS
    Files,       \* the files of the job
    NClusters    \* the size of the volume

ASSUME VolumeAssumption == Files \subseteq Nat /\ NClusters \in Nat \ {0}

Clusters == 0 .. NClusters - 1
None == -1    \* no file

VARIABLES
    fs,        \* jp->fs_type; NTFS4 stands for NTFS before Windows XP
    map,       \* f->disp.blockmap
    others,    \* clusters in use by files of other processes
    free,      \* jp->free_regions
    failed,    \* UD_FILE_MOVING_FAILED
    stuck,     \* UD_FILE_LOCKED, UD_FILE_IMPROPER_STATE, or a file that is
               \* never moved: the MFT, boot files, directories on FAT
    moved,     \* pi.moved_clusters # 0
    stopped    \* termination_router returns nonzero

disk == <<fs, map, others, free>>
moves == <<disk, failed, stuck, moved>>

-----------------------------------------------------------------------------
(* Files and free regions.                                                 *)

ClustersOf(m) == {m[v] : v \in DOMAIN m}
Size(m) == Cardinality(DOMAIN m)
FirstVcn(m) == Min(DOMAIN m)
EndVcn(m) == Max(DOMAIN m) + 1

\* build_fragments_list: blocks that follow each other on the disk are one
\* fragment, even if VCNs in between are missing.
Begins(m, v) ==
    ~\E u \in DOMAIN m : u < v /\ m[v] = m[u] + 1 /\ DOMAIN m \cap (u + 1 .. v - 1) = {}
Length(m, v) ==
    Cardinality({u \in DOMAIN m : u >= v /\ \A w \in DOMAIN m \cap (v + 1 .. u) : ~Begins(m, w)})
\* The list of the fragments which begin at one of the given VCNs.
Fragments(m, begins) ==
    LET upto[v \in -1 .. Max(DOMAIN m)] ==
            IF v = -1 THEN <<>>
            ELSE IF v \in begins THEN Append(upto[v - 1], [vcn |-> v, length |-> Length(m, v)])
            ELSE upto[v - 1]
    IN upto[Max(DOMAIN m)]

Count(m) == Cardinality({v \in DOMAIN m : Begins(m, v)})
Fragmented(m) == Count(m) > 1

\* The regions of the list of free space.
Regions ==
    {[lcn |-> c, length |-> Min({n \in 1 .. NClusters : c + n \notin free})] :
        c \in {d \in free : d - 1 \notin free}}
Largest == Max({0} \cup {r.length : r \in Regions})

\* find_first_free_region; a search that is stopped finds nothing.
FirstRegion(min_lcn, length) ==
    LET fits == {r.lcn : r \in {q \in Regions : q.lcn >= min_lcn /\ q.length >= length}}
    IN IF stopped \/ fits = {} THEN {} ELSE {Min(fits)}

\* release_temp_space_regions: the list becomes what is really free.
Released == Clusters \ (others \cup UNION {ClustersOf(map[f]) : f \in Files})

-----------------------------------------------------------------------------
(* move_file.                                                              *)

\* The VCNs a move of `length' clusters from vcn on is about.
Chain(m, vcn, length) ==
    {v \in DOMAIN m : v >= vcn /\ Cardinality({u \in DOMAIN m : u \in vcn .. v - 1}) < length}

Relocated(m, chain, lcn) ==
    [v \in DOMAIN m |->
        IF v \in chain THEN lcn + Cardinality({u \in chain : u < v}) ELSE m[v]]

\* A call with parameters move_file does not accept.
Improper(f, vcn, length, lcn) ==
    \/ vcn \notin DOMAIN map[f] \/ vcn + length > EndVcn(map[f])
    \/ lcn + length > NClusters

Reject(f, vcn, length, lcn) ==
    /\ Improper(f, vcn, length, lcn)
    /\ stuck' = stuck \cup {f}
    /\ UNCHANGED <<disk, failed, moved>>

\* The file cannot be opened.
Locked(f, vcn, length, lcn) ==
    /\ ~Improper(f, vcn, length, lcn)
    /\ stuck' = stuck \cup {f}
    /\ UNCHANGED <<disk, failed, moved>>

\* The released clusters are free at once unless NTFS holds them back.  A file
\* that cannot be dumped after its move counts as moved as well
\* (CALCULATED_MOVING_SUCCESS): that is this step if the move has succeeded.  If
\* not, the engine's map differs from the disk from then on, which is followed
\* in MoveFile (doubt) and not here, where map stands for both.
Success(f, vcn, length, lcn) ==
    /\ ~Improper(f, vcn, length, lcn)
    /\ LET chain == Chain(map[f], vcn, length)
       IN /\ map' = [map EXCEPT ![f] = Relocated(@, chain, lcn)]
          /\ free' = (free \ (lcn .. lcn + length - 1))
                       \cup IF fs # "FAT" THEN {} ELSE {map[f][v] : v \in chain}
    /\ moved' = TRUE
    /\ UNCHANGED <<fs, others, failed, stuck>>

\* Only the beginning of the chain gets to its place, or nothing: somebody
\* may have taken the next cluster.  The target leaves the free space pool.
Partly(f, vcn, length, lcn) ==
    /\ ~Improper(f, vcn, length, lcn)
    /\ \E n \in 0 .. Cardinality(Chain(map[f], vcn, length)) - 1 :
        /\ map' = [map EXCEPT ![f] = Relocated(@, Chain(@, vcn, n), lcn)]
        /\ others' \in {others, others \cup {lcn + n}}
    /\ free' = free \ (lcn .. lcn + length - 1)
    /\ moved' \in {moved, TRUE}
    /\ UNCHANGED <<fs, stuck>>

MutFailure(f, vcn, length, lcn) == Partly(f, vcn, length, lcn) /\ UNCHANGED failed

Failure(f, vcn, length, lcn) ==
    Partly(f, vcn, length, lcn) /\ failed' = failed \cup {f}

MoveFails(f, vcn, length, lcn) ==
    \/ Reject(f, vcn, length, lcn) \/ Locked(f, vcn, length, lcn)
    \/ Failure(f, vcn, length, lcn)

MoveFile(f, vcn, length, lcn) ==
    Success(f, vcn, length, lcn) \/ MoveFails(f, vcn, length, lcn)

-----------------------------------------------------------------------------
Stop(running) == ~stopped /\ running /\ stopped' = TRUE

\* The files keep their clusters apart from each other, and the free regions
\* never overlap a file.
FilesApart ==
    /\ \A f \in Files : ClustersOf(map[f]) \subseteq Clusters \ free
    /\ \A f \in Files : Cardinality(ClustersOf(map[f])) = Size(map[f])
    /\ \A f, g \in Files : f # g => ClustersOf(map[f]) \cap ClustersOf(map[g]) = {}
=============================================================================
