----------------------------- MODULE SensorFeed -----------------------------
(***************************************************************************)
(* What the shared buffer of the gateway promises to its users, without    *)
(* nodes, locks or condition variables (src/project/sbuffer.h).  Sensor    *)
(* readings join one stream.  The data manager analyses the readings in    *)
(* order, each exactly once; the storage manager stores them in the same   *)
(* order, each exactly once, and always one analysed reading at a time;    *)
(* both stop at the first end-of-stream reading (id 0), which is analysed  *)
(* but never stored.                                                       *)
(***************************************************************************)
EXTENDS Naturals, Sequences

CONSTANTS Items,        \* the readings, told apart by identity only
          EOS           \* the reading with id 0 that ends the stream

VARIABLES stream,       \* every reading accepted so far, in order
          seen,         \* how many of them the data manager has analysed
          stored,       \* how many of them the storage manager has stored
          stopped       \* the storage manager has met the end of the stream

vars == <<stream, seen, stored, stopped>>

TypeOK ==
    /\ stream \in Seq(Items \cup {EOS})
    /\ seen \in Nat
    /\ stored \in Nat
    /\ stopped \in BOOLEAN

Init ==
    /\ stream = << >>
    /\ seen = 0
    /\ stored = 0
    /\ stopped = FALSE

(* The data manager has analysed the end-of-stream reading.                *)
AnalysisEnded == seen > 0 /\ stream[seen] = EOS

Accept(d) ==
    /\ stream' = Append(stream, d)
    /\ UNCHANGED <<seen, stored, stopped>>

Analyse ==
    /\ ~AnalysisEnded
    /\ seen = stored
    /\ seen < Len(stream)
    /\ seen' = seen + 1
    /\ UNCHANGED <<stream, stored, stopped>>

Store ==
    /\ stored < seen
    /\ stream[stored + 1] # EOS
    /\ stored' = stored + 1
    /\ UNCHANGED <<stream, seen, stopped>>

Stop ==
    /\ ~stopped
    /\ stored < seen
    /\ stream[stored + 1] = EOS
    /\ stopped' = TRUE
    /\ UNCHANGED <<stream, seen, stored>>

Next ==
    \/ \E d \in Items \cup {EOS} : Accept(d)
    \/ Analyse
    \/ Store
    \/ Stop

Safety == Init /\ [][Next]_vars

Fairness == WF_vars(Analyse) /\ WF_vars(Store) /\ WF_vars(Stop)

Spec == Safety /\ Fairness
=============================================================================
