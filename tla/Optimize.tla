------------------------------- MODULE Optimize -------------------------------
(***************************************************************************)
(* The sorting of small files (optimize_routine of dll/udefrag/optimize.c).*)
(* Passes alternate between move_files_to_back, which clears the disk from *)
(* its beginning on, and move_files_to_front, which fills the cleared part *)
(* with the files in their order.  One traversal of the sorted tree lasts  *)
(* for all passes.  Sizes are in clusters.                                 *)
(***************************************************************************)
EXTENDS Cleanup

CONSTANTS
    Limit,       \* udo.optimizer_size_limit
    Magic,       \* OPTIMIZER_MAGIC_CONSTANT
    MagicN,      \* OPTIMIZER_MAGIC_CONSTANT_N
    Default      \* DEFAULT_FRAGMENT_SIZE_THRESHOLD

VARIABLES
    quick,      \* jp->job_type is the quick optimization
    threshold,  \* udo.fragment_size_threshold
    tree,       \* the files to be sorted
    front,      \* UD_FILE_MOVED_TO_FRONT
    notfound,   \* UD_FILE_REGION_NOT_FOUND
    cur,        \* prb_t_cur(&t)
    start_lcn, end_lcn,
    min_lcn,    \* of move_files_to_back
    skipped,    \* of move_files_to_front: skipped_files # 0
    placed,     \* the files which have been moved to the front (history)
    pc          \* where optimize_routine is

nature == <<quick, threshold, tree>>
front_flags == <<front, notfound, placed>>
bounds == <<start_lcn, end_lcn, min_lcn>>

-----------------------------------------------------------------------------
CanMoveEntirely(f) == CanMove(f) /\ f \notin front \cup fixed

\* prb_t_first, prb_t_next: the numbers of the files are their order.
FirstOf(S) == IF S = {} THEN None ELSE Min(S)
NextOf(f) == FirstOf({g \in tree : g > f})

\* is_block_quite_small, for a block of the file
QuiteSmall(b) ==
    LET m == map[b.file]
        fragment == CHOOSE v \in DOMAIN m :
            v <= b.vcn /\ Begins(m, v) /\ \A u \in v + 1 .. b.vcn : u \in DOMAIN m => ~Begins(m, u)
    IN \/ Size(m) < Limit
       \/ /\ Fragmented(m)
          /\ \/ threshold = Default
             \/ Size(m) < 2 * threshold
             \/ b.length < 2 * threshold /\ Length(m, fragment) < 2 * threshold

-----------------------------------------------------------------------------
(* Groups of files which are sorted already: cut_off_sorted_out_files.     *)

Lcn(f) == map[f][FirstVcn(map[f])]
PriorOf(f) == Max({g \in tree : g < f})

\* Close to the preceding file.
Close(f, g) ==
    IF Lcn(f) < Lcn(g)
    THEN Lcn(g) - Lcn(f) <= Max({Min({Magic, Limit}), Size(map[f])})
    ELSE Lcn(f) - Lcn(g) <= Max({Min({Magic, Limit}), Size(map[g])})

\* The first file of the group each file belongs to.
GroupOf ==
    LET group[f \in tree] ==
            IF Fragmented(map[f]) THEN None
            ELSE IF f = Min(tree) THEN f
            ELSE LET g == PriorOf(f)
                     belongs ==
                        /\ group[g] # None /\ Close(f, g)
                        /\ group[g] # g => Lcn(f) >= Lcn(PriorOf(g)) \/ Lcn(f) >= Lcn(g)
                 IN IF belongs THEN group[g] ELSE f
    IN group

\* The groups with enough files or clusters count as optimized.
CutOff ==
    LET Group(f) == {g \in tree : GroupOf[g] = GroupOf[f]}
    IN {f \in tree :
          /\ GroupOf[f] # None /\ Cardinality(Group(f)) > 1
          /\ \/ MapThenSumSet(LAMBDA g : Size(map[g]), Group(f)) >= Min({Magic, Limit})
             \/ Cardinality(Group(f)) >= MagicN}

-----------------------------------------------------------------------------
AtRest ==
    /\ front = {} /\ notfound = {} /\ placed = {} /\ tree = {}
    /\ cur = None /\ start_lcn = 0 /\ end_lcn = 0 /\ min_lcn = 0 /\ skipped = FALSE
    /\ pc = "idle"

\* The tree is built.
BuildTree ==
    /\ pc = "idle" /\ pc' = "start"
    /\ tree' = {f \in Files : Size(map[f]) < Limit /\ CanMoveEntirely(f)}
    /\ UNCHANGED <<moves, stopped, cleaning, quick, threshold, front_flags, cur, bounds, skipped>>

\* There may be nothing in it.
Start ==
    /\ pc = "start"
    /\ front' = IF quick THEN CutOff ELSE {}
    /\ cur' = FirstOf(tree)
    /\ pc' = IF tree = {} THEN "done" ELSE "pass"
    /\ UNCHANGED <<moves, stopped, cleaning, nature, notfound, placed, bounds, skipped>>

LeaveStopped ==
    /\ pc \in {"pass", "turn"} /\ stopped /\ pc' = "done"
    /\ UNCHANGED <<moves, stopped, cleaning, nature, front_flags, cur, bounds, skipped>>

-----------------------------------------------------------------------------
(* move_files_to_back                                                      *)

BeginBack ==
    /\ pc = "pass" /\ ~stopped /\ pc' = "back"
    /\ free' = Released /\ moved' = FALSE /\ min_lcn' = end_lcn
    /\ UNCHANGED <<fs, map, others, failed, stuck, stopped, cleaning, nature,
                   front_flags, cur, start_lcn, end_lcn, skipped>>

Movable == UNION {BlocksOf(f) : f \in {g \in Files : CanMoveEntirely(g)}}

SkipBlock ==
    /\ pc = "back"
    /\ \E b \in FirstBlock(Movable, min_lcn) : ~QuiteSmall(b) /\ min_lcn' = b.lcn + 1
    /\ UNCHANGED <<moves, stopped, cleaning, nature, front_flags, cur, start_lcn,
                   end_lcn, skipped, pc>>

CleanBlock ==
    /\ pc = "back" /\ pc' = "cleanup"
    /\ \E b \in FirstBlock(Movable, min_lcn) :
        QuiteSmall(b) /\ Begin(b, b.length) /\ min_lcn' = b.lcn + 1
    /\ UNCHANGED <<moves, stopped, nature, front_flags, cur, start_lcn, end_lcn, skipped>>

MeetLocked ==
    /\ pc = "back" /\ FindLocked(Movable, min_lcn)
    /\ UNCHANGED <<stopped, cleaning, nature, front_flags, cur, bounds, skipped, pc>>

\* No block is left, or the search has been stopped.
EndBack ==
    /\ pc = "back" /\ FirstBlock(Movable, min_lcn) = {}
    /\ end_lcn' = NClusters /\ pc' = "turn"
    /\ UNCHANGED <<moves, stopped, cleaning, nature, front_flags, cur, start_lcn,
                   min_lcn, skipped>>

MoveBlock ==
    /\ pc = "cleanup"
    /\ \/ PieceMoved(0) /\ pc' = IF cleaning'.left = 0 THEN "back" ELSE pc
       \/ PieceFails(0) /\ pc' = "back"
    /\ UNCHANGED <<stopped, nature, front_flags, cur, bounds, skipped>>

\* No free space behind the block: the disk is cleared as far as it can be.
NoSpaceBehind ==
    /\ pc = "cleanup" /\ NoSpace(0)
    /\ end_lcn' = cleaning.lcn /\ cleaning' = Idle /\ pc' = "turn"
    /\ UNCHANGED <<moves, stopped, nature, front_flags, cur, start_lcn, min_lcn, skipped>>

-----------------------------------------------------------------------------
(* move_files_to_front                                                     *)

BeginFront ==
    /\ pc = "turn" /\ ~stopped /\ pc' = "front"
    /\ free' = Released /\ moved' = FALSE /\ skipped' = FALSE
    /\ UNCHANGED <<fs, map, others, failed, stuck, stopped, cleaning, nature,
                   front_flags, cur, bounds>>

MutTargets(f) == FirstRegion(start_lcn, Size(map[f]))

\* A region is suitable if it begins in the cleared part of the disk.
Targets(f) == {lcn \in FirstRegion(start_lcn, Size(map[f])) : lcn < end_lcn}

PassOver ==
    /\ pc = "front" /\ cur # None /\ ~CanMoveEntirely(cur)
    /\ cur' = NextOf(cur)
    /\ UNCHANGED <<moves, stopped, cleaning, nature, front_flags, bounds, skipped, pc>>

NoRegion == pc = "front" /\ cur # None /\ CanMoveEntirely(cur) /\ Targets(cur) = {}

\* It is impossible to find a region twice, or nothing has been moved since a
\* file has been skipped.
SkipFile ==
    /\ NoRegion /\ (cur \in notfound \/ (skipped /\ ~moved))
    /\ cur' = NextOf(cur) /\ skipped' = TRUE
    /\ UNCHANGED <<moves, stopped, cleaning, nature, front_flags, bounds, pc>>

MutWait ==
    /\ NoRegion /\ cur \notin notfound /\ ~(skipped /\ ~moved)
    /\ pc' = "pass"
    /\ UNCHANGED <<moves, stopped, cleaning, nature, front_flags, cur, bounds, skipped>>

\* The pass is over; more space has to be cleared.
Wait ==
    /\ NoRegion /\ cur \notin notfound /\ ~(skipped /\ ~moved)
    /\ notfound' = notfound \cup {cur} /\ pc' = "pass"
    /\ UNCHANGED <<moves, stopped, cleaning, nature, front, placed, cur, bounds, skipped>>

MutAdvance(f, lcn) == UNCHANGED start_lcn

\* Behind a big file there may be gaps to be filled.
Advance(f, lcn) == start_lcn' = IF Size(map[f]) < Magic THEN lcn + 1 ELSE start_lcn

MoveToFront ==
    /\ pc = "front" /\ cur # None /\ CanMoveEntirely(cur)
    /\ \E lcn \in Targets(cur) :
        \/ /\ Success(cur, FirstVcn(map[cur]), Size(map[cur]), lcn)
           /\ placed' = placed \cup {cur} /\ Advance(cur, lcn)
        \/ /\ MoveFails(cur, FirstVcn(map[cur]), Size(map[cur]), lcn)
           /\ UNCHANGED <<placed, start_lcn>>
    /\ front' = front \cup {cur} /\ cur' = NextOf(cur)
    /\ UNCHANGED <<stopped, cleaning, nature, notfound, end_lcn, min_lcn, skipped, pc>>

EndFront ==
    /\ pc = "front" /\ cur = None /\ pc' = "done"
    /\ UNCHANGED <<moves, stopped, cleaning, nature, front_flags, cur, bounds, skipped>>

-----------------------------------------------------------------------------
Job == \/ BuildTree \/ Start \/ LeaveStopped
       \/ BeginBack \/ MeetLocked \/ SkipBlock \/ CleanBlock \/ EndBack \/ MoveBlock \/ NoSpaceBehind
       \/ BeginFront \/ PassOver \/ SkipFile \/ Wait \/ MoveToFront \/ EndFront

Step == Job /\ UNCHANGED <<fixed, excluded>>

-----------------------------------------------------------------------------
(* Properties.                                                             *)

\* The bounds stay on the disk.
TypeOK ==
    /\ FilesApart
    /\ failed \cup stuck \cup front \cup notfound \cup placed \subseteq Files
    /\ placed \subseteq front /\ notfound \subseteq tree /\ tree \subseteq Files \ fixed
    /\ cur \in tree \cup {None} /\ cleaning.file \in Files \cup {None}
    /\ {start_lcn, end_lcn, min_lcn} \subseteq 0 .. NClusters

\* A file which has been placed lies behind the small ones which come before
\* it.
Sorted == \A f, g \in placed : f < g /\ Size(map[f]) < Magic => Lcn(f) < Lcn(g)

\* What is placed has got nearer to the beginning of the disk than any of its
\* clusters has been.
MovesDown == \A f \in placed' \ placed : \A v \in DOMAIN map[f] : Lcn(f)' < map[f][v]
=============================================================================
