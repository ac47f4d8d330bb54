----------------------------- MODULE MCDatamgr ------------------------------
(* Datamgr for TLC: temperatures around the two thresholds.                *)
EXTENDS Datamgr

FewTemps == {-1, 5, 12}
=============================================================================
