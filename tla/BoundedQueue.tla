---------------------------- MODULE BoundedQueue ----------------------------
(***************************************************************************)
(* What a bounded buffer between one producer and any number of consumers  *)
(* promises: the items 1, 2, 3, ... are taken in the order in which they   *)
(* were put, each by one consumer, and never more than Capacity of them    *)
(* are on the way.                                                         *)
(***************************************************************************)
EXTENDS Naturals, Sequences

VARIABLES put,        \* how many items were put
          taken,      \* the items that were taken
          Capacity    \* rigid: the room there is

vars == <<put, taken, Capacity>>

Init == put = 0 /\ taken = << >> /\ Capacity \in Nat

Put ==
    /\ put - Len(taken) < Capacity
    /\ put' = put + 1
    /\ UNCHANGED <<taken, Capacity>>

Take ==
    /\ Len(taken) < put
    /\ taken' = Append(taken, Len(taken) + 1)
    /\ UNCHANGED <<put, Capacity>>

Safety == Init /\ [][Put \/ Take]_vars
=============================================================================
