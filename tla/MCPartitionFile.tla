--------------------------- MODULE MCPartitionFile ---------------------------
(* Instances of PartitionFile for TLC: who the writers are. *)
EXTENDS PartitionFile, TLC

CONSTANTS w1, w2, p1, p2, i1, i2, i3, i4, i5, u, v

OneProcess == [w \in Writer |-> p1]
OwnProcess == [w \in Writer |-> IF w = w1 THEN p1 ELSE p2]

Interchangeable == Permutations(Inode) \cup Permutations(Value)
==============================================================================
