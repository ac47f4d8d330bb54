-------------------------- MODULE ThreadExercises --------------------------
(***************************************************************************)
(* lecturecode/lecture5threads: threads that share a counter with a mutex  *)
(* (ex4counter.c, ex4multicountsafe.c), without one (ex4multicount.c),     *)
(* with a semaphore (ex5sem.c) and with a condition variable               *)
(* (ex6condvar.c).  What happens under the mutex is one step.              *)
(***************************************************************************)
EXTENDS Integers, FiniteSets, CondVar

CONSTANTS NUM_THREADS,
          Rounds,        \* the 10 of ex4multicount.c
          CounterLimit,  \* the 1000 of ex4counter.c and the 10 of ex6condvar.c
          Places         \* the 3 of ex5sem.c and ex6condvar.c

VARIABLES exercise,  \* rigid: which program runs
          pc,
          shared,    \* counter or sum
          mysum,     \* the copy of sum each thread has
          rounds,    \* the counter each thread has
          places     \* places left: sem, or Places - condition

vars == <<exercise, pc, shared, mysum, rounds, places>>

Thread == 1..NUM_THREADS

Init ==
    /\ exercise \in {"counter", "multicount", "multicountsafe", "sem", "condvar"}
    /\ pc = [t \in Thread |-> "run"]
    /\ shared = 0
    /\ mysum = [t \in Thread |-> 0]
    /\ rounds = [t \in Thread |-> 0]
    /\ places = Places

Go(t, from, to) == pc[t] = from /\ pc' = [pc EXCEPT ![t] = to]

Finished == \A t \in Thread : pc[t] = "end"

(* ex4counter.c *)
CountToLimit(t) ==
    /\ exercise = "counter"
    /\ IF shared > CounterLimit
       THEN Go(t, "run", "end") /\ UNCHANGED shared
       ELSE Go(t, "run", "run") /\ shared' = shared + 1
    /\ UNCHANGED <<exercise, mysum, rounds, places>>

(* ex4multicount.c reads sum, sleeps and writes it.                        *)
ReadSum(t) ==
    /\ exercise = "multicount" /\ rounds[t] < Rounds
    /\ Go(t, "run", "write")
    /\ rounds' = [rounds EXCEPT ![t] = @ + 1]
    /\ mysum' = [mysum EXCEPT ![t] = shared]
    /\ UNCHANGED <<exercise, shared, places>>

WriteSum(t) ==
    /\ Go(t, "write", "run")
    /\ shared' = mysum[t] + 1
    /\ UNCHANGED <<exercise, mysum, rounds, places>>

(* ex4multicountsafe.c does both under a mutex.                            *)
AddToSum(t) ==
    /\ exercise = "multicountsafe" /\ rounds[t] < Rounds
    /\ Go(t, "run", "run")
    /\ rounds' = [rounds EXCEPT ![t] = @ + 1]
    /\ shared' = shared + 1
    /\ UNCHANGED <<exercise, mysum, places>>

EndOfRounds(t) ==
    /\ exercise \in {"multicount", "multicountsafe"} /\ rounds[t] = Rounds
    /\ Go(t, "run", "end")
    /\ UNCHANGED <<exercise, shared, mysum, rounds, places>>

(* Fault: the place is taken although there is none.                       *)
EnterAnyway(t) == Go(t, "run", "inside") /\ places' = places - 1

(* sem_wait of ex5sem.c, and the wait for condition < 3 of ex6condvar.c.   *)
Enter(t) ==
    IF places > 0 THEN Go(t, "run", "inside") /\ places' = places - 1
    ELSE exercise = "condvar" /\ Go(t, "run", "wait") /\ UNCHANGED places

TakePlace(t) ==
    /\ exercise \in {"sem", "condvar"}
    /\ Enter(t)
    /\ UNCHANGED <<exercise, shared, mysum, rounds>>

(* sem_post *)
PostSem(t) ==
    /\ exercise = "sem"
    /\ Go(t, "inside", "run")
    /\ places' = places + 1
    /\ UNCHANGED <<exercise, shared, mysum, rounds>>

(* The second critical section of ex6condvar.c.                            *)
LeaveAndCount(t) ==
    /\ exercise = "condvar"
    /\ pc[t] = "inside"
    /\ places' = places + 1
    /\ \E woken \in Signalled(pc, Thread, "run") :
          pc' = [woken EXCEPT ![t] = IF shared > CounterLimit THEN "end" ELSE "run"]
    /\ shared' = IF shared > CounterLimit THEN shared ELSE shared + 1
    /\ UNCHANGED <<exercise, mysum, rounds>>

SpuriousWake(t) ==
    /\ Go(t, "wait", "run")
    /\ UNCHANGED <<exercise, shared, mysum, rounds, places>>

Step(t) ==
    /\ t \in Thread
    /\ \/ CountToLimit(t)
       \/ ReadSum(t) \/ WriteSum(t) \/ AddToSum(t) \/ EndOfRounds(t)
       \/ TakePlace(t) \/ PostSem(t) \/ LeaveAndCount(t)

Next == \E t \in Thread : Step(t) \/ SpuriousWake(t)

Spec == Init /\ [][Next]_vars /\ \A t \in Thread : WF_vars(Step(t))
-----------------------------------------------------------------------------
(* The places taken are the threads inside, so there are never more of     *)
(* them than places; nobody waits while there is a place and nobody is     *)
(* about to take it or to leave.  In the end the counters stopped just     *)
(* behind their limit, no round of the safe program is lost, and of the    *)
(* other one all but two may be.                                           *)
CountsAreRight ==
    /\ Places - places = Cardinality({t \in Thread : pc[t] = "inside"}) /\ places >= 0
    /\ (places > 0 /\ \E t \in Thread : pc[t] = "wait")
           => \E t \in Thread : pc[t] \in {"run", "inside"}
    /\ (Finished /\ exercise \in {"counter", "condvar"}) => shared = CounterLimit + 1
    /\ (Finished /\ exercise = "multicountsafe") => shared = NUM_THREADS * Rounds
    /\ (Finished /\ exercise = "multicount") => shared \in 2..NUM_THREADS * Rounds
=============================================================================
