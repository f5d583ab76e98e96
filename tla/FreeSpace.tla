------------------------------ MODULE FreeSpace ------------------------------
(***************************************************************************)
(* What the list of free regions promises to the engine: a set of clusters *)
(* which a scan of the volume bitmap establishes, to which released        *)
(* clusters are added and from which taken ranges are subtracted.          *)
(* FreeRegions.tla implements it with a ring of regions.                   *)
(***************************************************************************)
EXTENDS Integers

CONSTANT NClusters    \* the size of the volume

Clusters == 0 .. NClusters - 1
Span(lcn, length) == lcn .. lcn + length - 1

VARIABLES
    space,    \* the clusters the engine takes for free
    told,     \* the clusters the running scan was told to be free
    scan      \* "running", or how the last scan ended: "complete", "partial"

Init == space = {} /\ told = {} /\ scan = "partial"

Begin == scan # "running" /\ scan' = "running" /\ space' = {} /\ told' = {}

Tell == scan = "running" /\ told' \in {told \cup {c} : c \in Clusters \ told}
        /\ UNCHANGED <<space, scan>>

\* A scan that reaches the end of the volume keeps all it was told; one that
\* is interrupted keeps only clusters it was told to be free.
EndScan ==
    /\ scan = "running"
    /\ \/ scan' = "complete" /\ space' = told
       \/ scan' = "partial" /\ space' \in SUBSET told
    /\ told' = {}

\* Only clusters that are not free yet are released.
Add ==
    /\ scan # "running"
    /\ \E lcn \in Clusters, length \in 0 .. NClusters :
        /\ Span(lcn, length) \subseteq Clusters \ space
        /\ space' = space \cup Span(lcn, length)
    /\ UNCHANGED <<told, scan>>

Sub ==
    /\ scan # "running"
    /\ \E lcn \in Clusters, length \in 0 .. NClusters :
        space' = space \ Span(lcn, length)
    /\ UNCHANGED <<told, scan>>

Next == Begin \/ Tell \/ EndScan \/ Add \/ Sub

Spec == Init /\ [][Next]_<<space, told, scan>>
=============================================================================
