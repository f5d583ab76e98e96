--------------------------- MODULE MCOptimizeVolume ---------------------------
(***************************************************************************)
(* Small volumes for OptimizeVolume.                                       *)
(***************************************************************************)
EXTENDS OptimizeVolume

Injective(m) == \A v, w \in DOMAIN m : v # w => m[v] # m[w]
Apart(m) == \A f, g \in Files : f # g => ClustersOf(m[f]) \cap ClustersOf(m[g]) = {}
Layout(m) == Apart(m) /\ \A f \in Files : Injective(m[f])

\* Three small files of one, two and one clusters in any layout which is not
\* sorted.
SmallFiles ==
    {m \in [0 .. 0 -> Clusters] \X [0 .. 1 -> Clusters] \X [0 .. 0 -> Clusters] :
        m[1][0] > m[3][0] /\ Layout(m)}

\* Two small files and a file of three clusters, in two fragments, which is
\* not to be sorted.
BigFile ==
    {m \in [0 .. 0 -> Clusters] \X [0 .. 2 -> Clusters] \X [0 .. 0 -> Clusters] :
        m[2][0] + 1 < m[2][1] /\ m[2][2] = m[2][1] + 1 /\ Layout(m)}

\* A file of three clusters which begins at cluster 0, a file of one cluster
\* close behind it, and a directory of two clusters in their order.
WithFixed ==
    {m \in [0 .. 2 -> Clusters] \X [0 .. 0 -> Clusters] \X [0 .. 1 -> Clusters] :
        m[1][0] = 0 /\ m[2][0] = 1 /\ m[3][0] < m[3][1] /\ Layout(m)}

\* Only files of three clusters which lie together count as sorted already, so
\* that the quick optimization differs only for a file of two in one piece.
Whole == {m \in SmallFiles : m[2][1] = m[2][0] + 1}

Small ==
    [map : Whole, threshold : {Default}, stuck : {{}}, quick : {BOOLEAN},
     mft : {{}}, directories : {{}}]
    \cup [map : SmallFiles \ Whole, threshold : {Default}, stuck : {{}}, quick : {{FALSE}},
          mft : {{}}, directories : {{}}]
    \cup [map : BigFile, threshold : {1}, stuck : {{}}, quick : {{FALSE}},
          mft : {{}}, directories : {{}}]
    \cup [map : WithFixed, threshold : {Default}, stuck : {{}}, quick : {{FALSE}},
          mft : {{1}}, directories : {{1, 3}}]
=============================================================================
