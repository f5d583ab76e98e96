----------------------------- MODULE OptimizeFile -----------------------------
(***************************************************************************)
(* The optimization of the MFT on NTFS and of directories on FAT           *)
(* (optimize_file of dll/udefrag/optimize.c): the first clusters of such   *)
(* files cannot be moved, so the other ones are placed behind them.  What  *)
(* is in the way is moved to other places first.                           *)
(***************************************************************************)
EXTENDS Cleanup

NoTarget == [lcn |-> 0, length |-> 0]    \* a NULL target_rgn, an empty region

VARIABLES
    file,         \* the file to be optimized
    start_lcn, start_vcn, end_lcn,
    to_process,   \* clusters_to_process
    to_cleanup,   \* clusters_to_cleanup
    target,       \* target_rgn
    region,       \* what has been cleaned up in this round
    result,       \* what optimize_file returns
    pc            \* where it is

place == <<start_lcn, start_vcn>>
round == <<end_lcn, to_cleanup, target, region>>

\* The blocks find_first_block may return: the first ones of directories on
\* FAT are skipped.
MutMovable == UNION {BlocksOf(f) : f \in {g \in Files : CanMove(g)}}
Movable ==
    {b \in UNION {BlocksOf(f) : f \in {g \in Files : CanMove(g)}} :
        ~(fs = "FAT" /\ b.file \in fixed /\ b.vcn = FirstVcn(map[b.file]))}

Block(f, vcn) == CHOOSE b \in BlocksOf(f) : b.vcn = vcn
FirstBlockOf(f) == Block(f, FirstVcn(map[f]))

\* advance_vcn: the VCN n clusters further on.
AdvanceVcn(vcn, n) ==
    LET m == map[file]
        chain == Chain(m, vcn, n)
        rest == {v \in DOMAIN m : v > Max(chain)}
    IN IF rest = {} THEN Max(chain) + 1 ELSE Min(rest)

AtRest ==
    /\ file = None /\ start_lcn = 0 /\ start_vcn = 0 /\ end_lcn = 0
    /\ to_process = 0 /\ to_cleanup = 0 /\ target = NoTarget /\ region = NoTarget
    /\ result = 0 /\ pc = "idle"

Call(f) ==
    /\ pc = "idle" /\ pc' = "enter" /\ file' = f
    /\ UNCHANGED <<place, to_process, round, result>>

Return ==
    /\ pc = "done" /\ pc' = "idle"
    /\ file' = None /\ start_lcn' = 0 /\ start_vcn' = 0 /\ end_lcn' = 0
    /\ to_process' = 0 /\ to_cleanup' = 0 /\ target' = NoTarget /\ region' = NoTarget
    /\ result' = 0

\* The file needs no optimization, or it is locked.
Refuse ==
    /\ pc = "enter" /\ pc' = "done"
    /\ \/ ~(CanMove(file) /\ Fragmented(map[file])) /\ result' = 0
       \/ CanMove(file) /\ Fragmented(map[file]) /\ result' = -1
    /\ UNCHANGED <<moves, stopped, cleaning, place, to_process, round>>

Enter ==
    /\ pc = "enter" /\ CanMove(file) /\ Fragmented(map[file])
    /\ LET first == FirstBlockOf(file)
       IN /\ to_process' = Size(map[file]) - first.length
          /\ start_lcn' = first.lcn + first.length
          /\ start_vcn' = AdvanceVcn(first.vcn, first.length)
    /\ pc' = "search"
    /\ UNCHANGED <<moves, stopped, cleaning, round, result>>

Leave(rest) ==
    /\ pc' = "done"
    /\ result' = IF stopped \/ rest = 0 THEN 1 ELSE -1

\* The outer loop is over.
Finish ==
    /\ pc = "search" /\ (to_process = 0 \/ stopped \/ Released = {})
    /\ Leave(to_process)
    /\ free' = IF to_process = 0 \/ stopped THEN free ELSE Released
    /\ UNCHANGED <<fs, map, others, failed, stuck, moved, stopped, cleaning, place,
                   to_process, round>>

MutBehind(r) == r.length > 0

\* Targets lie behind the part which has been processed.
Behind(r) == r.lcn >= start_lcn

\* The first free region there, or none.
SearchTarget ==
    /\ pc = "search" /\ to_process > 0 /\ ~stopped /\ Released # {}
    /\ free' = Released
    /\ target' =
        LET beyond == {r \in Regions' : Behind(r)}
        IN IF beyond = {} THEN NoTarget
           ELSE CHOOSE r \in beyond : \A q \in beyond : r.lcn <= q.lcn
    /\ end_lcn' = IF target' = NoTarget THEN NClusters ELSE target'.lcn
    /\ to_cleanup' = to_process /\ region' = NoTarget /\ pc' = "clean"
    /\ UNCHANGED <<fs, map, others, failed, stuck, moved, stopped, cleaning, place,
                   to_process, result>>

-----------------------------------------------------------------------------
(* The inner loop: the blocks between start_lcn and the free region.       *)

CleanedUp == region.length > 0

\* A block which is in the way and follows what has been cleaned up already.
ToClean ==
    {b \in FirstBlock(Movable, start_lcn) :
        /\ to_cleanup > 0 /\ b.lcn < end_lcn
        /\ CleanedUp => b.lcn = region.lcn + region.length /\ b.file # file}

AtItsPlace(b) == b.file = file /\ b.vcn = start_vcn

StopCleaning ==
    /\ pc = "clean" /\ to_cleanup > 0 /\ stopped
    /\ Leave(to_process)
    /\ UNCHANGED <<moves, stopped, cleaning, place, to_process, round>>

NothingToClean ==
    /\ pc = "clean" /\ ToClean = {} /\ (to_cleanup > 0 => ~stopped) /\ pc' = "move"
    /\ UNCHANGED <<moves, stopped, cleaning, place, to_process, round, result>>

MeetLocked ==
    /\ pc = "clean" /\ to_cleanup > 0 /\ FindLocked(Movable, start_lcn)
    /\ UNCHANGED <<stopped, cleaning, place, to_process, round, result, pc>>

\* Parts of the file which are at their place already stay there.
KeepPart ==
    /\ pc = "clean"
    /\ \E b \in ToClean :
        /\ AtItsPlace(b)
        /\ IF to_process <= b.length \/ b.vcn + b.length = EndVcn(map[file])
           THEN to_process' = 0 /\ Leave(0) /\ UNCHANGED <<place, to_cleanup>>
           ELSE /\ to_process' = to_process - b.length
                /\ to_cleanup' = to_cleanup - b.length
                /\ start_vcn' = AdvanceVcn(b.vcn, b.length)
                /\ start_lcn' = b.lcn + b.length
                /\ UNCHANGED <<pc, result>>
    /\ UNCHANGED <<moves, stopped, cleaning, end_lcn, target, region>>

CleanBlock ==
    /\ pc = "clean" /\ pc' = "cleanup"
    /\ \E b \in ToClean : ~AtItsPlace(b) /\ Begin(b, Min({to_cleanup, b.length}))
    /\ UNCHANGED <<moves, stopped, place, to_process, round, result>>

\* cleanup_space keeps away from everything behind the beginning of the file.
ReservedStart == FirstBlockOf(file).lcn

\* The number of clusters the cleanup has begun with.
Asked == Min({to_cleanup, cleaning.last - cleaning.lcn + 1})

\* The space which is cleaned up is the new target.
Extend(n) ==
    region' = IF CleanedUp THEN [region EXCEPT !.length = @ + n]
              ELSE [lcn |-> cleaning.lcn, length |-> n]

MoveBlock ==
    /\ pc = "cleanup" /\ PieceMoved(ReservedStart)
    /\ IF cleaning'.left > 0
       THEN UNCHANGED <<place, round, pc>>
       ELSE /\ Extend(Asked) /\ target' = region'
            /\ start_lcn' = region'.lcn + region'.length
            /\ to_cleanup' = to_cleanup - Asked
            /\ pc' = "clean" /\ UNCHANGED <<start_vcn, end_lcn>>
    /\ UNCHANGED <<stopped, to_process, result>>

\* The block stays in the way: what has been cleaned up before it is used;
\* when that is nothing, the search goes on behind it.
BlockFails ==
    /\ pc = "cleanup" /\ PieceFails(ReservedStart)
    /\ IF CleanedUp THEN pc' = "move" /\ UNCHANGED start_lcn
       ELSE pc' = "search" /\ start_lcn' = cleaning.lcn + Asked
    /\ UNCHANGED <<stopped, start_vcn, to_process, round, result>>

NoSpaceLeft ==
    /\ pc = "cleanup" /\ NoSpace(ReservedStart)
    /\ Leave(to_process) /\ cleaning' = Idle
    /\ UNCHANGED <<moves, stopped, place, to_process, round>>

-----------------------------------------------------------------------------
(* The next portion of the file.                                           *)

Portion == Min({to_process, target.length})

NoPlace ==
    /\ pc = "move" /\ target = NoTarget /\ Leave(to_process)
    /\ UNCHANGED <<moves, stopped, cleaning, place, to_process, round>>

MovePortion ==
    /\ pc = "move" /\ target # NoTarget
    /\ Success(file, start_vcn, Portion, target.lcn)
    /\ to_process' = to_process - Portion
    /\ start_lcn' = target.lcn + Portion
    /\ start_vcn' = AdvanceVcn(start_vcn, Portion)
    /\ pc' = "search"
    /\ UNCHANGED <<stopped, cleaning, round, result>>

\* The move fails for good.
PortionFails ==
    /\ pc = "move" /\ target # NoTarget
    /\ MoveFails(file, start_vcn, Portion, target.lcn) /\ Leave(to_process)
    /\ UNCHANGED <<stopped, cleaning, place, to_process, round>>

MutTryFurtherOn ==
    /\ pc = "move" /\ target # NoTarget
    /\ Partly(file, start_vcn, Portion, target.lcn)
    /\ failed' = failed \ {file} /\ pc' = "search"
    /\ UNCHANGED <<stopped, cleaning, place, to_process, round, result>>

\* The place is in use, maybe since the system holds it back: the status of
\* the move is STATUS_ALREADY_COMMITTED.
TryFurtherOn ==
    /\ pc = "move" /\ target # NoTarget
    /\ Partly(file, start_vcn, Portion, target.lcn)
    /\ failed' = failed \ {file}
    /\ start_lcn' = target.lcn + Portion /\ pc' = "search"
    /\ UNCHANGED <<stopped, cleaning, start_vcn, to_process, round, result>>

-----------------------------------------------------------------------------
Job == \/ Refuse \/ Enter \/ Finish \/ SearchTarget
       \/ StopCleaning \/ NothingToClean \/ MeetLocked \/ KeepPart \/ CleanBlock
       \/ MoveBlock \/ BlockFails \/ NoSpaceLeft
       \/ NoPlace \/ MovePortion \/ PortionFails \/ TryFurtherOn

Step == Job /\ UNCHANGED <<file, fixed, excluded>>

-----------------------------------------------------------------------------
(* Properties.                                                             *)

\* No part of the file is ever placed upon another file, wherever the targets
\* come from.
TypeOK ==
    /\ FilesApart
    /\ failed \cup stuck \subseteq Files /\ result \in {-1, 0, 1}
    /\ {start_lcn, end_lcn} \subseteq 0 .. NClusters /\ start_vcn \in Nat
    /\ to_cleanup \in 0 .. NClusters /\ to_process \in 0 .. NClusters
    /\ pc # "idle" => file \in fixed
    /\ to_process # 0 => start_vcn \in DOMAIN map[file]
    /\ \A r \in {target, region} : r.lcn + r.length <= NClusters

\* A success means that the clusters follow each other in the order of the
\* file.
InOrder ==
    pc = "done" /\ result = 1 /\ ~stopped =>
        \A v, w \in DOMAIN map[file] : v < w => map[file][v] < map[file][w]

\* The first clusters stay, and so does what has been processed.
Kept ==
    /\ \A f \in fixed : map'[f][FirstVcn(map[f])] = map[f][FirstVcn(map[f])]
    /\ pc \notin {"idle", "enter"} =>
         \A v \in DOMAIN map[file] : v < start_vcn => map'[file][v] = map[file][v]
=============================================================================
