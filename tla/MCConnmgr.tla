------------------------------ MODULE MCConnmgr ------------------------------
(* Instances of Connmgr for TLC.                                           *)
EXTENDS Connmgr, TLC

SensorAndAddrSymmetry == Permutations(Sensors) \cup Permutations(Addrs)
=============================================================================
