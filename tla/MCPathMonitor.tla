--------------------------- MODULE MCPathMonitor ---------------------------
(* Instances of PathMonitor *)
EXTENDS PathMonitorFeed

CONSTANTS p1, p2, d1, d2

OneDir  == <<p1>>
TwoDirs == <<p1, p2>>

Watch1 == 1..1
Watch2 == 1..2

Single   == {[p \in {p1} |-> d1]}
Distinct == {(p1 :> d1 @@ p2 :> d2)}
Anyhow   == [{p1, p2} -> {d1, d2, NoInode}]

(* Nothing tells one name from another, or one directory, but the paths     *)
(* that lead to it, which Anyhow gives in every way.                        *)
Alike == Permutations(Name) \cup Permutations(Inode)
=============================================================================
