---------------------------- MODULE Philosophers ----------------------------
(***************************************************************************)
(* lecturecode/lecture7syncexamples/dinphil.c: dining philosophers with    *)
(* one mutex and one condition variable for each of them.  What happens    *)
(* under the mutex is one step.                                            *)
(***************************************************************************)
EXTENDS Integers

CONSTANT N_PHILOSOPHERS

VARIABLES pc,       \* thinking, wait (for the condition), woken, eating
          state     \* THINKING, HUNGRY or EATING

vars == <<pc, state>>

Philosopher == 0..N_PHILOSOPHERS - 1
LEFT(p)     == (p + N_PHILOSOPHERS - 1) % N_PHILOSOPHERS
RIGHT(p)    == (p + 1) % N_PHILOSOPHERS

Init ==
    /\ pc = [p \in Philosopher |-> "thinking"]
    /\ state = [p \in Philosopher |-> "THINKING"]

(* Fault: only one neighbour is looked at.                                 *)
TestLeftOnly(s, p) ==
    IF s[p] = "HUNGRY" /\ s[LEFT(p)] # "EATING" THEN [s EXCEPT ![p] = "EATING"] ELSE s

(* The states after test(p).                                               *)
test(s, p) ==
    IF s[p] = "HUNGRY" /\ s[LEFT(p)] # "EATING" /\ s[RIGHT(p)] # "EATING"
    THEN [s EXCEPT ![p] = "EATING"]
    ELSE s

pickup_forks(p) ==
    /\ pc[p] = "thinking"
    /\ state' = test([state EXCEPT ![p] = "HUNGRY"], p)
    /\ pc' = [pc EXCEPT ![p] = IF state'[p] = "EATING" THEN "eating" ELSE "wait"]

(* The loop around pthread_cond_wait.                                      *)
TestAgain(p) ==
    /\ pc[p] = "woken"
    /\ pc' = [pc EXCEPT ![p] = IF state[p] = "EATING" THEN "eating" ELSE "wait"]
    /\ UNCHANGED state

SpuriousWake(p) ==
    /\ pc[p] = "wait"
    /\ pc' = [pc EXCEPT ![p] = "woken"]
    /\ UNCHANGED state

(* Fault: only the left neighbour is tested.                               *)
SeatedLeft(s, p) == test(s, LEFT(p))

(* test(LEFT), then test(RIGHT).                                           *)
Seated(s, p) == test(test(s, LEFT(p)), RIGHT(p))

(* Whoever begins to eat is signalled on the condition of his own.         *)
return_forks(p) ==
    /\ pc[p] = "eating"
    /\ state' = Seated([state EXCEPT ![p] = "THINKING"], p)
    /\ pc' = [q \in Philosopher |->
                 CASE q = p -> "thinking"
                   [] q # p /\ pc[q] = "wait" /\ state[q] # state'[q] -> "woken"
                   [] OTHER -> pc[q]]

Step(p) == pickup_forks(p) \/ TestAgain(p) \/ return_forks(p)

Next == \E p \in Philosopher : Step(p) \/ SpuriousWake(p)

Spec == Init /\ [][Next]_vars /\ \A p \in Philosopher : WF_vars(Step(p))
-----------------------------------------------------------------------------
(* Types of every variable.                                                *)
TypeOK ==
    /\ pc \in [Philosopher -> {"thinking", "wait", "woken", "eating"}]
    /\ state \in [Philosopher -> {"THINKING", "HUNGRY", "EATING"}]

(* Two who share a fork never eat at the same time, and nobody stays       *)
(* hungry, or asleep with both forks, between two neighbours of whom none  *)
(* eats: the one who put down the last fork has seated and woken him.      *)
ForksAreExclusive ==
    \A p \in Philosopher :
        /\ state[p] = "EATING" => state[RIGHT(p)] # "EATING" /\ pc[p] # "wait"
        /\ state[p] = "HUNGRY" => "EATING" \in {state[LEFT(p)], state[RIGHT(p)]}
        /\ pc[p] = "eating" => state[p] = "EATING"
=============================================================================
