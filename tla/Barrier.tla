------------------------------ MODULE Barrier ------------------------------
(***************************************************************************)
(* lecturecode/lecture6barriersolution: main.c starts a number of workers, *)
(* each of which works for a while and then calls wait_for_others of       *)
(* barrier.c.  The last one to arrive signals one waiter, who signals the  *)
(* next.  What happens under the mutex is one step.                        *)
(***************************************************************************)
EXTENDS Integers, FiniteSets, CondVar

CONSTANT NumWorkers      \* at least one

VARIABLES limit, arrived,
          pc,      \* main and the workers
          created  \* main: how many workers there are

vars == <<limit, arrived, pc, created>>

Worker == 1..NumWorkers

Init ==
    /\ limit = 0 /\ arrived = 0 /\ created = 0
    /\ pc = [t \in 0..NumWorkers |-> IF t = 0 THEN "init" ELSE "none"]

(* barrier_init returns no value, and main gives up when it is not 0.      *)
barrier_init ==
    /\ pc[0] = "init"
    /\ limit' = NumWorkers
    /\ arrived' = 0
    /\ \E next \in {"create", "end"} : pc' = [pc EXCEPT ![0] = next]
    /\ UNCHANGED created

Create ==
    /\ pc[0] = "create"
    /\ IF created < NumWorkers
       THEN pc' = [pc EXCEPT ![created + 1] = "work"] /\ created' = created + 1
       ELSE pc' = [pc EXCEPT ![0] = "join"] /\ UNCHANGED created
    /\ UNCHANGED <<limit, arrived>>

Join ==
    /\ pc[0] = "join"
    /\ \A w \in Worker : pc[w] = "end"
    /\ pc' = [pc EXCEPT ![0] = "end"]
    /\ UNCHANGED <<limit, arrived, created>>

(* Fault: the signal is forgotten.                                         *)
LeaveSilently(w) == pc' = [pc EXCEPT ![w] = "end"]

(* The signal that frees the next one.                                     *)
Leave(w) == pc' \in Signalled([pc EXCEPT ![w] = "end"], Worker, "woken")

wait_for_others(w) ==
    /\ pc[w] = "work"
    /\ arrived' = arrived + 1
    /\ IF arrived' # limit THEN pc' = [pc EXCEPT ![w] = "wait"]
       ELSE Leave(w)
    /\ UNCHANGED <<limit, created>>

(* The loop around pthread_cond_wait.                                      *)
TestAgain(w) ==
    /\ pc[w] = "woken"
    /\ IF arrived # limit THEN pc' = [pc EXCEPT ![w] = "wait"] ELSE Leave(w)
    /\ UNCHANGED <<limit, arrived, created>>

SpuriousWake(w) ==
    /\ pc[w] = "wait"
    /\ pc' = [pc EXCEPT ![w] = "woken"]
    /\ UNCHANGED <<limit, arrived, created>>

Step(t) ==
    \/ t = 0 /\ (barrier_init \/ Create \/ Join)
    \/ t \in Worker /\ (wait_for_others(t) \/ TestAgain(t))

Next == (\E t \in DOMAIN pc : Step(t)) \/ \E w \in Worker : SpuriousWake(w)

Safety == Init /\ [][Next]_vars
Spec == Safety /\ \A t \in 0..NumWorkers : WF_vars(Step(t))
-----------------------------------------------------------------------------
(* Types of every variable.                                                *)
TypeOK ==
    /\ limit \in {0, NumWorkers}
    /\ arrived \in 0..NumWorkers
    /\ created \in 0..NumWorkers
    /\ pc \in [0..NumWorkers -> {"init", "create", "join", "none", "work", "wait", "woken", "end"}]

(* Nobody is out of the barrier before all have arrived; and as long as    *)
(* somebody waits who may go, the chain of signals is not broken: another  *)
(* one is awake, who will signal when he leaves.                           *)
BarrierHolds ==
    /\ (\E w \in Worker : pc[w] = "end") => arrived = NumWorkers
    /\ (arrived = NumWorkers /\ \E w \in Worker : pc[w] = "wait")
           => \E w \in Worker : pc[w] = "woken"

(* Everybody gets out.                                                     *)
AllLeave == <>(pc[0] = "end")
=============================================================================
