----------------------------- MODULE MCDefragment -----------------------------
(***************************************************************************)
(* Small volumes for Defragment.                                           *)
(***************************************************************************)
EXTENDS Defragment, TLC

CONSTANTS DefaultSetting, UserSetting

\* The ways to map the given VCNs onto the given clusters in ascending order.
Ascending(vcns, clusters) ==
    {m \in [vcns -> clusters] : \A v, w \in vcns : v < w => m[v] < m[w]}

Scenario(first, second, occupied, set) ==
    [map |-> <<first, second>>, others |-> occupied, setting |-> set]

\* Two files of two and three clusters, interleaved in every way on the first
\* eight of the clusters, with the default threshold.
TwoFiles ==
    {Scenario(m, n, {8, 9, 10}, DefaultSetting) :
        m \in Ascending(0 .. 1, 0 .. 7), n \in Ascending(0 .. 2, 0 .. 7)}

\* A file of six clusters in every ascending layout next to a small file,
\* with a threshold the user has set.
OneFile ==
    {Scenario(m, 0 :> 10, {}, UserSetting) : m \in Ascending(0 .. 5, 0 .. 9)}

\* A file in two halves, neither of which is little when the threshold is the
\* small one, and a file whose first cluster lies in the middle of the space
\* that could take all of it.
Halves ==
    {Scenario(0 :> 0 @@ 1 :> 1 @@ 2 :> 3 @@ 3 :> 4, 0 :> 7 @@ 1 :> 10, {}, DefaultSetting)}

Regular ==
    {s \in TwoFiles \cup OneFile \cup Halves : ClustersOf(s.map[1]) \cap ClustersOf(s.map[2]) = {}}

\* A sparse file, the only one, of two fragments on a volume of twelve clusters
\* with free places of two and three clusters.
HoleFirst ==
    {[map |-> <<0 :> 7 @@ 2 :> 8 @@ 3 :> 9 @@ 4 :> 11>>, others |-> {2, 6, 10},
      setting |-> DefaultSetting]}
=============================================================================
