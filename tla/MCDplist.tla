------------------------------ MODULE MCDplist ------------------------------
(* Dplist for TLC: callers use indexes from -1 to one past the longest     *)
(* list, and the addresses of nodes and objects are interchangeable.       *)
EXTENDS Dplist

CallerIndexes == -1..Cardinality(Nodes) + 1

AddressSymmetry == Permutations(Nodes) \cup Permutations(Objs)
=============================================================================
