------------------------------ MODULE MCMoveFile ------------------------------
(***************************************************************************)
(* A small volume for MoveFile: two files on eight clusters, one of them   *)
(* with a hole in its VCNs (a sparse file), both of them fragmented.       *)
(***************************************************************************)
EXTENDS ClusterMap, TLC

CONSTANTS a, b

MCFiles == {a, b}

\* A sparse file in fragments of two, one and one cluster and a file in two
\* pieces.  The next but one cluster of each is free, so that one move may
\* take the first file through the filter, and two of them join the second.
Holed  == (0 :> 0) @@ (1 :> 1) @@ (3 :> 3) @@ (4 :> 5)
Pieces == (0 :> 2) @@ (1 :> 7)

Interleaved == {(a :> Holed) @@ (b :> Pieces)}
=============================================================================
