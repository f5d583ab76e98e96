---------------------------- MODULE OptimizeVolume ----------------------------
(***************************************************************************)
(* The moves of an optimization (optimize of dll/udefrag/optimize.c):      *)
(* first the MFT on NTFS (optimize_mft_routine) or each fragmented         *)
(* directory on FAT (optimize_directories) by OptimizeFile, then the small *)
(* files by Optimize.  What is in the way of the one is what the other is  *)
(* going to sort.  Tasks.tla has the frame of the job.                     *)
(***************************************************************************)
EXTENDS Cleanup

CONSTANTS
    Limit, Magic, MagicN, Default,    \* of Optimize
    Scenarios    \* how files are mapped, which are fixed and which are stuck,
                 \* the types of the job and the fragment size threshold

ASSUME LimitAssumption ==
    /\ {Limit, Magic, MagicN} \subseteq Nat \ {0}
    /\ Default \in Nat /\ Default > NClusters

\* Files without clusters are not moved and left out.  Nothing shares clusters
\* with another file, and a volume has one MFT.
ASSUME ScenariosAssumption ==
    \A s \in Scenarios :
        /\ DOMAIN s.map = Files
        /\ \A f \in Files :
            LET m == s.map[f]
            IN /\ DOMAIN m \subseteq Nat /\ IsFiniteSet(DOMAIN m) /\ DOMAIN m # {}
               /\ \A v \in DOMAIN m : m[v] \in Clusters
        /\ \A f, g \in Files : \A v \in DOMAIN s.map[f], w \in DOMAIN s.map[g] :
            s.map[f][v] = s.map[g][w] => f = g /\ v = w
        /\ s.stuck \cup s.mft \cup s.directories \subseteq Files
        /\ \A f, g \in s.mft : f = g

VARIABLES
    phase,       \* which routine runs
    file, file_start_lcn, start_vcn, file_end_lcn, to_process, to_cleanup,
    target, region, result, file_pc,
    quick, threshold, tree, front, notfound, cur, start_lcn, end_lcn, min_lcn,
    skipped, placed, pc

File == INSTANCE OptimizeFile
        WITH start_lcn <- file_start_lcn, end_lcn <- file_end_lcn, pc <- file_pc
Sorting == INSTANCE Optimize

file_locals == <<file, file_start_lcn, start_vcn, file_end_lcn, to_process, to_cleanup,
                 target, region, result, file_pc>>
sort_locals == <<quick, threshold, tree, front, notfound, cur, start_lcn, end_lcn,
                 min_lcn, skipped, placed, pc>>
volume == <<moves, stopped, cleaning, fixed>>
vars == <<volume, excluded, phase, file_locals, sort_locals>>

Init ==
    /\ fs \in {"NTFS", "FAT"}
    /\ \E s \in Scenarios :
        /\ map = s.map /\ others = {} /\ quick \in s.quick /\ threshold = s.threshold /\ stuck = s.stuck
        /\ fixed = IF fs = "FAT" THEN s.directories ELSE s.mft
    /\ free = Released
    /\ failed = {} /\ moved = FALSE /\ stopped = FALSE
    /\ cleaning = Idle
    /\ excluded = IF fs = "FAT" THEN {f \in fixed : ~Fragmented(map[f])} ELSE {}
    /\ phase = "files" /\ File!AtRest /\ Sorting!AtRest

\* The MFT, or the next directory of the tree of fragmented files.
TakeFile ==
    /\ phase = "files"
    /\ fs = "FAT" => ~stopped
    /\ \E f \in fixed \ excluded :
        /\ fs = "FAT" => Fragmented(map[f]) /\ CanMove(f)
        /\ File!Call(f)
    /\ phase' = "file"
    /\ UNCHANGED <<volume, excluded, sort_locals>>

\* Every other fragmented file is passed over, and excluded like a directory
\* which has been processed: it is not moved out of the way any more.
PassFile ==
    /\ phase = "files" /\ fs = "FAT" /\ ~stopped
    /\ \E f \in Files \ excluded :
        Fragmented(map[f]) /\ ~(f \in fixed /\ CanMove(f)) /\ excluded' = excluded \cup {f}
    /\ UNCHANGED <<volume, phase, file_locals, sort_locals>>

ProcessFile == phase = "file" /\ File!Step /\ UNCHANGED <<phase, sort_locals>>

\* The result tells nobody but the log.
FileDone ==
    /\ phase = "file" /\ File!Return
    /\ excluded' = excluded \cup {file} /\ phase' = "files"
    /\ UNCHANGED <<volume, sort_locals>>

\* Nothing is left, the job is stopped, or the volume cannot be opened.  The
\* traversal of the tree of fragmented files, which the moves rearrange, may
\* also miss a directory.
LeaveFiles ==
    /\ phase = "files" /\ phase' = "sort" /\ excluded' = {}
    /\ UNCHANGED <<volume, file_locals, sort_locals>>

Sort == phase = "sort" /\ Sorting!Step /\ UNCHANGED <<phase, file_locals>>

StopJob ==
    /\ Stop(pc # "done")
    /\ UNCHANGED <<moves, cleaning, fixed, excluded, phase, file_locals, sort_locals>>

Job == TakeFile \/ PassFile \/ ProcessFile \/ FileDone \/ LeaveFiles \/ Sort

Done == pc = "done" /\ UNCHANGED vars

Next == Job \/ StopJob \/ Done

\* The worker thread goes on as long as it can; nobody has to stop it.
Spec == Init /\ [][Next]_vars /\ WF_vars(Job)

-----------------------------------------------------------------------------
(* Properties.                                                             *)

TypeOK == File!TypeOK /\ Sorting!TypeOK

\* "Optimizes a file by placing its fragments close to each other behind the
\* first one" (optimize.c 129): no file is placed upon another one on the way,
\* wherever the targets come from, and when optimize_file reports success, the
\* clusters follow each other in the order of the file, behind the first
\* fragment.
InOrder == TypeOK /\ File!InOrder

\* What must stay stays.  "cannot move the first fragment of MFT on NTFS as
\* well as first clusters of FAT directories" (move.c 517): neither the first
\* clusters of the file nor those of a directory in its way are moved; what
\* has been processed is not touched any more, whatever is cleaned up, moved or
\* tried again later; and nothing of what has been placed is moved by the
\* optimization of other directories and by the sorting.
RestStays ==
    [][/\ File!Kept
       /\ \A f \in fixed :
            phase = "sort" \/ f \in excluded => map'[f] = map[f]]_vars

\* "Moves small files to the beginning of the disk, sorted" (optimize.c
\* 535): over all passes, whatever is skipped, fails or is moved back in
\* between, a file lies behind the small files which come before it.
SortedPlacement == Sorting!Sorted

\* What is moved to the front gets nearer to the beginning of the disk than
\* any of its clusters has been; so no pass undoes the cleaning of another.
FrontMovesDown == [][Sorting!MovesDown]_vars

\* The searches move on and the passes end, whether moves
\* succeed, are refused, fail or stop half way.
Terminates == <>(pc = "done")
=============================================================================
