------------------------------ MODULE MCSbuffer ------------------------------
(* Instances of Sbuffer for TLC.                                           *)
EXTENDS Sbuffer, TLC

(* The addresses malloc returns are interchangeable; only a run without    *)
(* liveness properties may use this.                                       *)
NodeSymmetry == Permutations(Nodes)
=============================================================================
