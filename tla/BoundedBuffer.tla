--------------------------- MODULE BoundedBuffer ---------------------------
(***************************************************************************)
(* The bounded buffers of lecturecode/lecture7syncexamples: one producer   *)
(* and one consumer that leave a slot empty (prodconcondition.c), two      *)
(* consumers and a counter (prodconcounter.c), three consumers and         *)
(* semaphores (prodconsem.c).  What happens under the mutex is one step.   *)
(***************************************************************************)
EXTENDS Integers, Sequences, CondVar

CONSTANTS BUFFER_SIZE,
          MaxItems        \* bound: the items the producer makes

VARIABLES kind,           \* rigid: condition, counter or sem
          pc,             \* thread 0 is the producer
          buffer, in, out, item,
          counter,        \* of prodconcounter.c
          sem,            \* the semaphores full and empty
          consumed        \* history: the items in the order they were taken

vars == <<kind, pc, buffer, in, out, item, counter, sem, consumed>>

Threads(k) == CASE k = "condition" -> 0..1 [] k = "counter" -> 0..2 [] k = "sem" -> 0..3

Init ==
    /\ kind \in {"condition", "counter", "sem"}
    /\ pc = [t \in Threads(kind) |-> "run"]
    /\ buffer = [i \in 0..BUFFER_SIZE - 1 |-> 0]
    /\ in = 0 /\ out = 0 /\ item = 1 /\ counter = 0
    /\ sem = [full |-> 0, empty |-> BUFFER_SIZE]
    /\ consumed = << >>

(* Fault: the slot that tells full from empty is used.                     *)
NeverFull == kind = "counter" /\ counter = BUFFER_SIZE

Full ==
    \/ kind = "condition" /\ (in + 1) % BUFFER_SIZE = out
    \/ kind = "counter" /\ counter = BUFFER_SIZE

Empty ==
    \/ kind = "condition" /\ in = out
    \/ kind = "counter" /\ counter = 0

Put ==
    /\ buffer' = [buffer EXCEPT ![in] = item]
    /\ item' = item + 1
    /\ in' = (in + 1) % BUFFER_SIZE
    /\ UNCHANGED <<out, consumed>>

Take ==
    /\ consumed' = Append(consumed, buffer[out])
    /\ buffer' = IF kind = "sem" THEN [buffer EXCEPT ![out] = -1] ELSE buffer
    /\ out' = (out + 1) % BUFFER_SIZE
    /\ UNCHANGED <<in, item>>

Wait(t) ==
    /\ pc' = [pc EXCEPT ![t] = "wait"]
    /\ UNCHANGED <<buffer, in, out, item, counter, consumed>>

-----------------------------------------------------------------------------
(* prodconcondition.c and prodconcounter.c.                                *)

produce ==
    /\ kind # "sem"
    /\ pc[0] = "run"
    /\ item <= MaxItems
    /\ IF Full THEN Wait(0)
       ELSE Put /\ counter' = counter + 1 /\ pc' \in Signalled(pc, DOMAIN pc \ {0}, "run")
    /\ UNCHANGED <<kind, sem>>

consume(t) ==
    /\ kind # "sem"
    /\ pc[t] = "run"
    /\ IF Empty THEN Wait(t)
       ELSE Take /\ counter' = counter - 1 /\ pc' \in Signalled(pc, {0}, "run")
    /\ UNCHANGED <<kind, sem>>

SpuriousWake(t) ==
    /\ pc[t] = "wait"
    /\ pc' = [pc EXCEPT ![t] = "run"]
    /\ UNCHANGED <<kind, buffer, in, out, item, counter, sem, consumed>>

-----------------------------------------------------------------------------
(* prodconsem.c: P(own), the critical section, V(other).                   *)

P(t, semaphore) ==
    /\ pc[t] = "run"
    /\ sem[semaphore] > 0
    /\ sem' = [sem EXCEPT ![semaphore] = @ - 1]
    /\ pc' = [pc EXCEPT ![t] = "inside"]
    /\ UNCHANGED <<kind, buffer, in, out, item, counter, consumed>>

V(t, semaphore) ==
    /\ pc[t] = "outside"
    /\ sem' = [sem EXCEPT ![semaphore] = @ + 1]
    /\ pc' = [pc EXCEPT ![t] = "run"]
    /\ UNCHANGED <<kind, buffer, in, out, item, counter, consumed>>

Inside(t) ==
    /\ pc[t] = "inside"
    /\ pc' = [pc EXCEPT ![t] = "outside"]
    /\ UNCHANGED <<kind, counter, sem>>

produceSem ==
    \/ kind = "sem" /\ item <= MaxItems /\ P(0, "empty")
    \/ Inside(0) /\ Put
    \/ V(0, "full")

consumeSem(t) ==
    \/ kind = "sem" /\ P(t, "full")
    \/ Inside(t) /\ Take
    \/ V(t, "empty")

Step(t) ==
    /\ t \in DOMAIN pc
    /\ IF t = 0 THEN produce \/ produceSem ELSE consume(t) \/ consumeSem(t)

Next == \E t \in DOMAIN pc : Step(t) \/ SpuriousWake(t)

Spec == Init /\ [][Next]_vars /\ \A t \in 0..3 : WF_vars(Step(t))
-----------------------------------------------------------------------------
(* Types of every variable.                                                *)
TypeOK ==
    /\ kind \in {"condition", "counter", "sem"}
    /\ pc \in [Threads(kind) -> {"run", "wait", "inside", "outside"}]
    /\ buffer \in [0..BUFFER_SIZE - 1 -> Int]
    /\ in \in 0..BUFFER_SIZE - 1 /\ out \in 0..BUFFER_SIZE - 1
    /\ item \in Nat \ {0} /\ counter \in Int
    /\ sem \in [{"full", "empty"} -> Nat]
    /\ consumed \in Seq(Int)

(* All three are a queue with room for BUFFER_SIZE items, or one less when *)
(* in = out must mean empty: no item is lost, doubled, overwritten or      *)
(* taken out of turn, whoever of the consumers takes it.                   *)
Queue == INSTANCE BoundedQueue WITH
    put <- item - 1, taken <- consumed,
    Capacity <- IF kind = "condition" THEN BUFFER_SIZE - 1 ELSE BUFFER_SIZE
=============================================================================
