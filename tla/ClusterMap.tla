------------------------------ MODULE ClusterMap ------------------------------
(***************************************************************************)
(* The cluster map (map.c) which the user looks at, on top of MoveFile: an *)
(* array which counts for each cell of the map the clusters of each colour.*)
(* The analysis fills it, every move corrects it by differences, like the  *)
(* statistics, and deliver_progress_info (udefrag.c) picks a colour for    *)
(* each cell.                                                              *)
(***************************************************************************)
EXTENDS MoveFile

CONSTANTS
    MapSize,      \* the number of cells the client wants
    Zone,         \* the clusters of the MFT zone of an NTFS volume
    Directories   \* the files which are directories

ASSUME MapAssumption ==
    /\ MapSize \in Nat \ {0} /\ NClusters > 0
    /\ Zone \subseteq Clusters /\ Directories \subseteq Files

VARIABLES
    array,    \* jp->cluster_map.array
    blurred   \* history: a target has been drawn which was not filled

mapVars == <<array, blurred>>

\* The colours in the order of their precedence (g_enum_SPACE_STATES, without
\* those of files over the size limit, of compressed files and of $Mft).
Colours == <<"DEFAULT", "UNUSED", "FREE", "SYSTEM", "FRAGM", "UNFRAGM", "DIR", "ZONE">>
ColourSet == {Colours[k] : k \in DOMAIN Colours}

Cells == 0 .. MapSize - 1

\* allocate_map: each cell stands for some clusters, or each cluster for some
\* cells if there are more cells than clusters.
OppositeOrder == NClusters \div MapSize = 0
Ceiling(m, n) == (m + n - 1) \div n
ClustersPerCell == Ceiling(NClusters, MapSize)
CellsPerCluster == MapSize \div NClusters
UsedCells ==
    IF OppositeOrder THEN CellsPerCluster * NClusters ELSE Ceiling(NClusters, ClustersPerCell)

\* The clusters a cell stands for; the last used one has what is left.
ClustersIn(cell) ==
    IF OppositeOrder
    THEN {c \in Clusters : cell \div CellsPerCluster = c}
    ELSE {c \in Clusters : c \div ClustersPerCell = cell}

\* What a full cell counts.
Full(cell) ==
    IF OppositeOrder THEN 1
    ELSE IF cell = UsedCells - 1 THEN NClusters - ClustersPerCell * (UsedCells - 1)
    ELSE ClustersPerCell

\* reset_cluster_map
Blank ==
    [cell \in Cells |-> [colour \in ColourSet |->
        IF colour = IF cell < UsedCells THEN "DEFAULT" ELSE "UNUSED" THEN Full(cell) ELSE 0]]

Less(m, n) == IF m >= n THEN m - n ELSE 0

\* colorize_map_region, for all the regions the set S consists of: the zone
\* is drawn over what is there, every other colour replaces an old one.
Colorized(cells, S, new, old) ==
    [cell \in Cells |->
        LET n == Cardinality(S \cap ClustersIn(cell))
        IN IF n = 0 \/ new = old THEN cells[cell]
           ELSE IF new = "ZONE"
           THEN [cells[cell] EXCEPT ![new] = IF OppositeOrder THEN 1 ELSE @ + n]
           ELSE IF OppositeOrder
           THEN [colour \in ColourSet |-> IF colour = new THEN 1 ELSE 0]
           ELSE [cells[cell] EXCEPT ![new] = @ + n, ![old] = Less(@, n)]]

\* get_file_color: excluded files are shown as not fragmented.
FileColour(f, m, flagsOf) ==
    CASE "LOCKED" \in flagsOf -> "SYSTEM"
      [] "LOCKED" \notin flagsOf /\ Fragmented(m) /\ "EXCLUDED" \notin flagsOf -> "FRAGM"
      [] OTHER -> IF f \in Directories THEN "DIR" ELSE "UNFRAGM"
Colour(f) == FileColour(f, map[f], flags[f])

\* The analysis: free regions, the zone, then the files.
DrawZone(cells) == IF fs = "NTFS" THEN Colorized(cells, Zone, "ZONE", "DEFAULT") ELSE cells
Analyzed ==
    FoldSet(LAMBDA f, cells : Colorized(cells, ClustersOf(map[f]), Colour(f), "DEFAULT"),
            DrawZone(Colorized(Blank, free, "FREE", "DEFAULT")), Files)

MapInit == Init /\ array = Analyzed /\ blurred = FALSE

-----------------------------------------------------------------------------
(* The calls of move_file, with the map.                                   *)

\* colorize_file, after a file turned out to be locked.
DrawLocked(f) ==
    array' = Colorized(array, ClustersOf(map[f]), FileColour(f, map[f], flags'[f]), Colour(f))

\* Mutant: the range left is taken from the old colour.
MutRedraw(partial) ==
    LET old == Colour(Moving)
        new == FileColour(Moving, map'[Moving], flags'[Moving])
        filled == Colorized(array, Target, new, "FREE")
        redrawn == Colorized(filled, ClustersOf(map[Moving]), new, old)
    IN array' = IF partial THEN redrawn ELSE Colorized(redrawn, Released, "FREE", old)

\* The target gets the new colour, the file where it was gets it too, and the
\* range it has left becomes free.
Redraw(partial) ==
    LET old == Colour(Moving)
        new == FileColour(Moving, map'[Moving], flags'[Moving])
        filled == Colorized(array, Target, new, "FREE")
        redrawn == Colorized(filled, ClustersOf(map[Moving]), new, old)
    IN array' = IF partial THEN redrawn ELSE Colorized(redrawn, Released, "FREE", new)

Blur(partial) == blurred' = (blurred \/ partial \/ Short > 0)

MapNext ==
    \/ \E f \in Files : OpenFails(f) /\ DrawLocked(f) /\ UNCHANGED blurred
    \/ (AssumeSuccess \/ Succeed) /\ Redraw(FALSE) /\ Blur(FALSE)
    \/ SucceedPartially /\ Redraw(TRUE) /\ Blur(TRUE)
    \/ /\ \/ \E f \in Files : Reject(f) \/ Open(f)
          \/ MoveDryRun \/ MovePortion \/ PortionFails \/ AbortMove \/ Fail
          \/ ReleaseTempSpace \/ OtherAllocates \/ OtherReleases \/ Stop
       /\ UNCHANGED mapVars

MapSpec == MapInit /\ [][MapNext]_<<vars, mapVars>>

-----------------------------------------------------------------------------
(* What the user sees.                                                     *)

InZone(cell) == array[cell]["ZONE"] >= Full(cell)
AllFree(cell) == array[cell]["FREE"] >= Full(cell)

\* Mutant: no special rules in the zone.
MutCandidates(cell) == DOMAIN Colours

\* The zone itself and free space do not compete for a cell within the zone.
Candidates(cell) ==
    {k \in DOMAIN Colours : InZone(cell) => Colours[k] \notin {"FREE", "ZONE"}}

\* deliver_progress_info: the most frequent colour, the last one among equals.
Shown(cell) ==
    LET Count(k) == array[cell][Colours[k]]
        best == {k \in Candidates(cell) : \A j \in Candidates(cell) : Count(j) <= Count(k)}
    IN IF InZone(cell) /\ AllFree(cell) THEN "ZONE"
       ELSE IF \A k \in best : Count(k) = 0 THEN "DEFAULT"
       ELSE Colours[Max(best)]

-----------------------------------------------------------------------------
(* Properties.                                                             *)

\* What a cell counts when it is drawn from the maps as they are now.
Owners(c) == {f \in Files : c \in ClustersOf(map[f])}
Seen(c) == IF Owners(c) = {} THEN "FREE" ELSE Colour(CHOOSE f \in Owners(c) : TRUE)
Drawn(cell) ==
    LET seen == {<<c, Seen(c)>> : c \in ClustersIn(cell)}
    IN [colour \in ColourSet |-> Cardinality({p \in seen : p[2] = colour})]

Exact == ~doubt /\ ~blurred

\* The array move_file keeps by differences is the one a new analysis would
\* draw from the block maps and the flags (map.c, colorize_map_region, which
\* takes as much from the old colour as there is): colours are given back
\* where they were taken, also when a file becomes excluded, or locked, or
\* moves across the boundary of two cells.  A partial success, which draws
\* the whole target as filled, puts an end to it.
MapExact ==
    Exact =>
        \A cell \in 0 .. UsedCells - 1 :
            array[cell] = [Drawn(cell) EXCEPT !["ZONE"] = array[cell]["ZONE"]]

\* A cell which lies in the zone is shown as zone only when all of it is free
\* (the comment of deliver_progress_info: "completely free") and as a file
\* otherwise, however much of it is free; elsewhere the cell has the colour of
\* which it really has most, or that of the zone it partly lies in.
ShownTruly ==
    Exact =>
        \A cell \in 0 .. UsedCells - 1 : \A drawn \in {Drawn(cell)}, shown \in {Shown(cell)} :
            LET within == fs = "NTFS" /\ ClustersIn(cell) \subseteq Zone
                most == \A colour \in ColourSet \ (IF within THEN {"FREE"} ELSE {}) :
                            drawn[colour] <= drawn[shown]
            IN CASE shown = "ZONE" -> within => drawn["FREE"] = Cardinality(ClustersIn(cell))
                 [] shown = "FREE" -> most /\ (within => OppositeOrder)
                 [] OTHER -> most /\ drawn[shown] > 0
=============================================================================
