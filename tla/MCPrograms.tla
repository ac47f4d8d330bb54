----------------------------- MODULE MCPrograms -----------------------------
(* Programs for TLC: the ids and the indexes that the unit tests of the    *)
(* list use, and indexes on both sides of lists of up to four nodes.       *)
EXTENDS Programs

ElementIds    == 1..13
CallerIndexes == -2..99
ListIndexes   == -1..MaxNodes + 1
=============================================================================
