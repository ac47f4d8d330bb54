------------------------------ MODULE CondVar ------------------------------
(***************************************************************************)
(* Condition variables over program counters.  A thread that sleeps in     *)
(* pthread_cond_wait is one whose counter is at "wait"; it leaves that     *)
(* place by a signal, or spuriously, for one from which it takes the mutex *)
(* and tests its condition again.                                          *)
(***************************************************************************)

(* What the counters may be after pthread_cond_signal on the condition of  *)
(* the given threads: one that sleeps goes on, if there is one.            *)
Signalled(pc, threads, awake) ==
    LET sleepers == {t \in threads : pc[t] = "wait"}
    IN  IF sleepers = {} THEN {pc} ELSE {[pc EXCEPT ![t] = awake] : t \in sleepers}
=============================================================================
