---------------------------- MODULE ProgramsProofs ----------------------------
(***************************************************************************)
(* Proofs about the programs that are not part of the gateway and have     *)
(* more than one thread or process: the bounded buffers of                 *)
(* lecture7syncexamples, the barrier of lecture6barriersolution, the table *)
(* of dinphil.c and the counters of lecture5threads, the first log, the    *)
(* first buffer and the test servers.  Each has an inductive invariant of  *)
(* its own over the variables v1 to v11, by the names under which its      *)
(* module's instance in Programs knows them; that only one of them runs    *)
(* joins the invariants.                                                   *)
(***************************************************************************)
EXTENDS Programs, FiniteSetTheorems, SequenceTheorems, TLAPS
-----------------------------------------------------------------------------
(* The bounded buffer: v1 is kind, v2 pc, v3 buffer, v4 in, v5 out, v6     *)
(* item, v7 counter, v8 sem and v9 consumed.                               *)

LEMMA SlotOf ==
    ASSUME NEW B \in Nat \ {0}, NEW q \in Nat, NEW r \in 0..B - 1
    PROVE  (q * B + r) % B = r
OBVIOUS

LEMMA Division ==
    ASSUME NEW B \in Nat \ {0}, NEW a \in Nat
    PROVE  \E q \in Nat : a = q * B + (a % B) /\ a % B \in 0..B - 1
<1>1. a \div B \in Nat /\ a % B \in 0..B - 1
    OBVIOUS
<1>2. a = B * (a \div B) + (a % B)
    OBVIOUS
<1>3. \A q \in Nat : B * q = q * B
    OBVIOUS
<1> QED
    BY <1>1, <1>2, <1>3

(* The next slot, and two slots less than a whole buffer apart.            *)
LEMMA NextSlot ==
    ASSUME NEW B \in Nat \ {0}, NEW a \in Nat
    PROVE  /\ a % B \in 0..B - 1
           /\ ((a % B) + 1) % B = (a + 1) % B
           /\ (a + B) % B = a % B
<1>1. PICK q \in Nat, r \in 0..B - 1 : a = q * B + r /\ a % B = r
    BY Division
<1>2. (q + 1) * B = q * B + B /\ q + 1 \in Nat
    OBVIOUS
<1>3. (a + B) % B = r
    <2>1. a + B = (q + 1) * B + r
        BY <1>1, <1>2
    <2> QED
        BY <1>2, <2>1, SlotOf
<1>4. CASE r + 1 < B
    <2>1. a + 1 = q * B + (r + 1) /\ r + 1 \in 0..B - 1
        BY <1>1, <1>4
    <2>2. (a + 1) % B = r + 1
        BY <2>1, SlotOf
    <2>3. (r + 1) % B = r + 1
        BY <2>1
    <2> QED
        BY <1>1, <1>3, <2>2, <2>3
<1>5. CASE r + 1 = B
    <2>1. a + 1 = (q + 1) * B + 0 /\ 0 \in 0..B - 1
        BY <1>1, <1>2, <1>5
    <2>2. (a + 1) % B = 0
        BY <1>2, <2>1, SlotOf
    <2>3. B % B = 0
        OBVIOUS
    <2> QED
        BY <1>1, <1>3, <1>5, <2>2, <2>3
<1> QED
    BY <1>1, <1>4, <1>5

LEMMA SlotsDiffer ==
    ASSUME NEW B \in Nat \ {0}, NEW a \in Nat, NEW b \in Nat, a < b, b < a + B
    PROVE  a % B # b % B
<1> SUFFICES ASSUME a % B = b % B PROVE FALSE
    OBVIOUS
<1>1. PICK p \in Nat : a = p * B + (a % B) /\ a % B \in 0..B - 1
    BY Division
<1>2. PICK q \in Nat : b = q * B + (b % B)
    BY Division
<1>3. CASE q <= p
    <2>1. q * B <= p * B
        BY <1>3
    <2> QED
        BY <1>1, <1>2, <2>1
<1>4. CASE p + 1 <= q
    <2>1. (p + 1) * B <= q * B /\ (p + 1) * B = p * B + B
        BY <1>4
    <2> QED
        BY <1>1, <1>2, <2>1
<1> QED
    BY <1>3, <1>4
(* The room of the buffer, and the number of items put.                    *)
Room == IF v1 = "condition" THEN BUFFER_SIZE - 1 ELSE BUFFER_SIZE
Made == v6 - 1

(* 1 if thread t is at the place.                                          *)
IsAt(t, place) == IF v2[t] = place THEN 1 ELSE 0

(* Of the items on the way each is in its slot.                            *)
SlotsKept ==
    /\ v4 = Made % BUFFER_SIZE
    /\ v5 = Len(v9) % BUFFER_SIZE
    /\ Len(v9) <= Made /\ Made - Len(v9) <= Room
    /\ \A i \in Len(v9)..Made - 1 : v3[i % BUFFER_SIZE] = i + 1

(* Without semaphores the counter counts the items on the way.             *)
CounterKept ==
    v1 # "sem" => /\ v7 = Made - Len(v9)
                  /\ \A t \in DOMAIN v2 : v2[t] \in {"run", "wait"}

(* With them, empty counts the free slots nobody is allowed to use yet and *)
(* full the items nobody is allowed to take yet.                           *)
SlotsClaimed ==
    IsAt(0, "inside") + IsAt(1, "outside") + IsAt(2, "outside") + IsAt(3, "outside")
ItemsClaimed ==
    IsAt(0, "outside") + IsAt(1, "inside") + IsAt(2, "inside") + IsAt(3, "inside")

SemaphoresKept ==
    v1 = "sem" =>
        /\ \A t \in 0..3 : v2[t] \in {"run", "inside", "outside"}
        /\ v8.empty = BUFFER_SIZE - (Made - Len(v9)) - SlotsClaimed
        /\ v8.full = Made - Len(v9) - ItemsClaimed

BufferInv == Buffer!TypeOK /\ SlotsKept /\ CounterKept /\ SemaphoresKept

(* What a step is to the queue.                                            *)
QueueStep == Buffer!Queue!Put \/ Buffer!Queue!Take \/ UNCHANGED Buffer!Queue!vars

LEMMA BufferThreads ==
    ASSUME BufferInv
    PROVE  /\ v1 = "condition" => DOMAIN v2 = 0..1
           /\ v1 = "counter" => DOMAIN v2 = 0..2
           /\ v1 = "sem" => DOMAIN v2 = 0..3
           /\ v2 \in [DOMAIN v2 -> {"run", "wait", "inside", "outside"}]
           /\ 0 \in DOMAIN v2
    BY DEF BufferInv, Buffer!TypeOK, Buffer!Threads

LEMMA BufferNumbers ==
    ASSUME Buffer!TypeOK, SlotsKept
    PROVE  Made \in Nat /\ Len(v9) \in Nat /\ Len(v9) <= Made /\ Made - Len(v9) <= Room
<1>1. v6 \in Nat \ {0} /\ v9 \in Seq(Int)
    BY DEF Buffer!TypeOK
<1>2. Made \in Nat /\ Len(v9) \in Nat
    BY <1>1 DEF Made
<1> QED
    BY <1>2 DEF SlotsKept

LEMMA BufferInit ==
    ASSUME BUFFER_SIZE \in Nat \ {0}, Buffer!Init
    PROVE  BufferInv /\ Buffer!Queue!Init
<1>1. /\ v1 \in {"condition", "counter", "sem"} /\ v2 = [t \in Buffer!Threads(v1) |-> "run"]
      /\ v3 = [i \in 0..BUFFER_SIZE - 1 |-> 0]
      /\ v4 = 0 /\ v5 = 0 /\ v6 = 1 /\ v7 = 0 /\ v9 = << >>
      /\ v8 = [full |-> 0, empty |-> BUFFER_SIZE]
    BY DEF Buffer!Init
<1>2. v1 = "sem" => DOMAIN v2 = 0..3 /\ \A t \in 0..3 : v2[t] = "run"
    BY <1>1 DEF Buffer!Threads
<1>3. Made = 0 /\ Len(v9) = 0 /\ 0 % BUFFER_SIZE = 0
    BY <1>1 DEF Made
<1>4. Buffer!TypeOK
    BY <1>1 DEF Buffer!TypeOK
<1>5. SlotsKept
    BY <1>1, <1>3 DEF SlotsKept, Room
<1>6. CounterKept
    <2>1. \A t \in DOMAIN v2 : v2[t] = "run"
        BY <1>1
    <2>2. v7 = 0 /\ Made = 0 /\ Len(v9) = 0
        BY <1>1, <1>3
    <2>3. v7 = Made - Len(v9)
        BY <2>2
    <2> QED
        BY <2>1, <2>3 DEF CounterKept
<1>7. SemaphoresKept
    BY <1>1, <1>2, <1>3 DEF SemaphoresKept, SlotsClaimed, ItemsClaimed, IsAt
<1>8. Buffer!Queue!Init
    BY <1>1 DEF Buffer!Queue!Init
<1> QED
    BY <1>4, <1>5, <1>6, <1>7, <1>8 DEF BufferInv

(* Put, where there is room.                                               *)
LEMMA BufferPut ==
    ASSUME BUFFER_SIZE \in Nat \ {0}, Buffer!TypeOK, SlotsKept, Buffer!Put, v1' = v1,
           Made - Len(v9) < Room
    PROVE  /\ SlotsKept' /\ Buffer!Queue!Put
           /\ v3' \in [0..BUFFER_SIZE - 1 -> Int] /\ v4' \in 0..BUFFER_SIZE - 1
           /\ v5' = v5 /\ v6' \in Nat \ {0} /\ v9' = v9
           /\ Made' - Len(v9') = Made - Len(v9) + 1
<1> DEFINE B == BUFFER_SIZE
<1>1. /\ v3' = [v3 EXCEPT ![v4] = v6] /\ v6' = v6 + 1 /\ v4' = (v4 + 1) % B
      /\ v5' = v5 /\ v9' = v9
    BY DEF Buffer!Put
<1>2. /\ v6 \in Nat \ {0} /\ Len(v9) \in Nat /\ Made \in Nat /\ Made + 1 = v6
      /\ v3 \in [0..B - 1 -> Int] /\ v4 \in 0..B - 1 /\ v4 = Made % B
      /\ Len(v9) <= Made
    BY DEF Buffer!TypeOK, Made, SlotsKept
<1>3. Made' = Made + 1 /\ Len(v9') = Len(v9) /\ Room' = Room /\ Room \in Int /\ Room <= B
    BY <1>1, <1>2 DEF Made, Room
<1>4. v4' = (Made + 1) % B /\ v4' \in 0..B - 1
    BY <1>1, <1>2, NextSlot
<1>5. ASSUME NEW i \in Len(v9)..Made PROVE v3'[i % B] = i + 1
    <2>1. i \in Nat /\ i % B \in 0..B - 1
        BY <1>2, NextSlot
    <2>2. CASE i = Made
        BY <1>1, <1>2, <2>2
    <2>3. CASE i # Made
        <3>1. i \in Len(v9)..Made - 1 /\ v3[i % B] = i + 1
            BY <1>2, <2>3 DEF SlotsKept
        <3>2. i < Made /\ Made < i + B
            BY <1>2, <1>3, <3>1
        <3>3. i % B # Made % B
            BY <1>2, <2>1, <3>2, SlotsDiffer
        <3> QED
            BY <1>1, <1>2, <2>1, <3>1, <3>3
    <2> QED
        BY <2>2, <2>3
<1>6. SlotsKept'
    <2>1. Made' - 1 = Made
        BY <1>2, <1>3
    <2>2. v5' = Len(v9') % B
        BY <1>1 DEF SlotsKept
    <2>3. Len(v9') <= Made' /\ Made' - Len(v9') <= Room'
        BY <1>2, <1>3
    <2> QED
        BY <1>3, <1>4, <1>5, <2>1, <2>2, <2>3 DEF SlotsKept
<1>7. Buffer!Queue!Put
    <2>1. v6' - 1 = v6 - 1 + 1
        BY <1>1, <1>2
    <2>2. (v6 - 1) - Len(v9) < IF v1 = "condition" THEN BUFFER_SIZE - 1 ELSE BUFFER_SIZE
        BY DEF Made, Room
    <2> QED
        BY <1>1, <2>1, <2>2 DEF Buffer!Queue!Put
<1>8. v3' \in [0..B - 1 -> Int]
    BY <1>1, <1>2
<1> QED
    BY <1>1, <1>2, <1>3, <1>4, <1>6, <1>7, <1>8

(* Take, where there is an item.                                           *)
LEMMA BufferTake ==
    ASSUME BUFFER_SIZE \in Nat \ {0}, Buffer!TypeOK, SlotsKept, Buffer!Take, v1' = v1,
           Len(v9) < Made
    PROVE  /\ SlotsKept' /\ Buffer!Queue!Take
           /\ v3' \in [0..BUFFER_SIZE - 1 -> Int] /\ v5' \in 0..BUFFER_SIZE - 1
           /\ v4' = v4 /\ v6' = v6 /\ v9' \in Seq(Int)
           /\ Made' - Len(v9') = Made - Len(v9) - 1
<1> DEFINE B == BUFFER_SIZE
           n == Len(v9)
<1>1. /\ v9' = Append(v9, v3[v5]) /\ v5' = (v5 + 1) % B /\ v4' = v4 /\ v6' = v6
      /\ v3' = v3 \/ v3' = [v3 EXCEPT ![v5] = -1]
    BY DEF Buffer!Take
<1>2. /\ v6 \in Nat \ {0} /\ n \in Nat /\ Made \in Nat
      /\ v3 \in [0..B - 1 -> Int] /\ v5 \in 0..B - 1 /\ v5 = n % B
      /\ v9 \in Seq(Int) /\ Made - n <= Room
    <2>1. /\ v6 \in Nat \ {0} /\ v3 \in [0..B - 1 -> Int] /\ v5 \in 0..B - 1
          /\ v9 \in Seq(Int)
        BY DEF Buffer!TypeOK
    <2>2. v5 = n % B /\ Made - n <= Room
        BY DEF SlotsKept
    <2> QED
        BY <2>1, <2>2 DEF Made
<1> HIDE DEF n
<1>3. Made' = Made /\ Room' = Room /\ Room \in Int /\ Room <= B
    BY <1>1, <1>2 DEF Made, Room
<1>4. v5' = (n + 1) % B /\ v5' \in 0..B - 1
    <2>1. n \in Nat /\ v5 = n % B /\ v5' = (v5 + 1) % B
        BY <1>1, <1>2
    <2>2. n + 1 \in Nat /\ (n + 1) % B \in 0..B - 1
        BY <2>1, NextSlot
    <2>3. ((n % B) + 1) % B = (n + 1) % B
        BY <2>1, NextSlot
    <2> QED
        BY <2>1, <2>2, <2>3
<1>5. v3[v5] = n + 1 /\ v3[v5] \in Int
    <2>1. n \in n..Made - 1
        BY <1>2 DEF n
    <2>2. v3[n % B] = n + 1
        BY <2>1 DEF SlotsKept, n
    <2>3. n + 1 \in Int /\ v5 = n % B
        BY <1>2
    <2> QED
        BY <2>2, <2>3
<1>6. v9' = Append(v9, n + 1) /\ v9' \in Seq(Int) /\ Len(v9') = n + 1
    BY <1>1, <1>2, <1>5 DEF n
<1>7. ASSUME NEW i \in n + 1..Made - 1 PROVE v3'[i % B] = i + 1
    <2>1. i \in Nat /\ i % B \in 0..B - 1 /\ i \in n..Made - 1
        <3>1. n \in Nat /\ i \in Nat /\ i \in n..Made - 1
            BY <1>2
        <3> QED
            BY <3>1, NextSlot
    <2>2. v3[i % B] = i + 1
        BY <2>1 DEF SlotsKept, n
    <2>3. n < i /\ i < n + B
        BY <1>2, <1>3, <2>1
    <2>4. n % B # i % B
        BY <1>2, <2>1, <2>3, SlotsDiffer
    <2> QED
        BY <1>1, <1>2, <2>1, <2>2, <2>4
<1>8. SlotsKept'
    <2>1. v4' = Made' % B
        BY <1>1, <1>3 DEF SlotsKept, n
    <2>2. Len(v9') <= Made' /\ Made' - Len(v9') <= Room'
        BY <1>2, <1>3, <1>6
    <2> QED
        BY <1>3, <1>4, <1>6, <1>7, <2>1, <2>2 DEF SlotsKept, n
<1>9. Buffer!Queue!Take
    <2>1. Len(v9) < v6 - 1
        BY DEF Made
    <2> QED
        BY <1>1, <1>6, <2>1 DEF Buffer!Queue!Take, n
<1>10. v3' \in [0..B - 1 -> Int]
    <2>1. /\ v3 \in [0..B - 1 -> Int] /\ v5 \in 0..B - 1
          /\ v3' = v3 \/ v3' = [v3 EXCEPT ![v5] = -1]
        BY <1>1, <1>2
    <2>2. -1 \in Int
        OBVIOUS
    <2> QED
        BY <2>1, <2>2
<1> QED
    BY <1>1, <1>2, <1>3, <1>4, <1>6, <1>8, <1>9, <1>10 DEF n
(* A signal wakes threads up and leaves the others where they are.         *)
LEMMA SignalMoves ==
    ASSUME NEW D, NEW pc \in [D -> {"run", "wait", "inside", "outside"}],
           NEW threads \in SUBSET D,
           NEW next \in Buffer!Signalled(pc, threads, "run"),
           \A t \in D : pc[t] \in {"run", "wait"}
    PROVE  /\ next \in [D -> {"run", "wait", "inside", "outside"}]
           /\ \A t \in D : next[t] \in {"run", "wait"}
<1> DEFINE sleepers == {t \in threads : pc[t] = "wait"}
<1>1. next = pc \/ \E t \in sleepers : next = [pc EXCEPT ![t] = "run"]
    BY Zenon DEF Buffer!Signalled
<1>2. sleepers \subseteq D
    OBVIOUS
<1> QED
    BY <1>1, <1>2

(* The programs with condition variables.                                  *)
LEMMA BufferProduce ==
    ASSUME BUFFER_SIZE \in Nat \ {0}, BufferInv, Buffer!produce
    PROVE  BufferInv' /\ QueueStep
<1>1. Buffer!TypeOK /\ SlotsKept /\ CounterKept
    BY DEF BufferInv
<1>2. /\ v1 # "sem" /\ v1' = v1 /\ v8' = v8 /\ v2[0] = "run"
      /\ v7 = Made - Len(v9)
      /\ \A t \in DOMAIN v2 : v2[t] \in {"run", "wait"}
    BY <1>1 DEF Buffer!produce, CounterKept
<1>3. SemaphoresKept'
    BY <1>2 DEF SemaphoresKept
<1>4. DOMAIN v2 = Buffer!Threads(v1)
    BY <1>1 DEF Buffer!TypeOK
<1>5. CASE Buffer!Full /\ Buffer!Wait(0)
    <2>1. v2' = [v2 EXCEPT ![0] = "wait"] /\ UNCHANGED <<v3, v4, v5, v6, v7, v9>>
        BY <1>5 DEF Buffer!Wait
    <2>2. Buffer!TypeOK'
        BY <1>1, <1>2, <2>1 DEF Buffer!TypeOK
    <2>3. SlotsKept' /\ CounterKept'
        BY <1>1, <1>2, <2>1 DEF SlotsKept, CounterKept, Made, Room
    <2>4. UNCHANGED Buffer!Queue!vars
        BY <1>2, <2>1 DEF Buffer!Queue!vars
    <2> QED
        BY <1>3, <2>2, <2>3, <2>4 DEF BufferInv, QueueStep
<1>6. CASE ~Buffer!Full /\ Buffer!Put /\ v7' = v7 + 1
           /\ v2' \in Buffer!Signalled(v2, DOMAIN v2 \ {0}, "run")
    <2>1. Made - Len(v9) < Room
        <3>1. Made \in Nat /\ Len(v9) \in Nat /\ Made - Len(v9) <= Room
            BY <1>1, BufferNumbers
        <3>2. CASE v1 = "counter"
            <4>1. Room = BUFFER_SIZE /\ v7 # BUFFER_SIZE
                BY <1>6, <3>2 DEF Room, Buffer!Full
            <4> QED
                BY <1>2, <3>1, <4>1
        <3>3. CASE v1 = "condition"
            <4>1. (v4 + 1) % BUFFER_SIZE # v5
                BY <1>6, <3>3 DEF Buffer!Full
            <4>2. Room = BUFFER_SIZE - 1
                BY <3>3 DEF Room
            <4>3. SUFFICES ASSUME Made + 1 = Len(v9) + BUFFER_SIZE PROVE FALSE
                BY <3>1, <4>2
            <4>4. ((Made % BUFFER_SIZE) + 1) % BUFFER_SIZE = (Made + 1) % BUFFER_SIZE
                BY <3>1, NextSlot
            <4>5. (Len(v9) + BUFFER_SIZE) % BUFFER_SIZE = Len(v9) % BUFFER_SIZE
                BY <3>1, NextSlot
            <4>6. v4 = Made % BUFFER_SIZE /\ v5 = Len(v9) % BUFFER_SIZE
                BY <1>1 DEF SlotsKept
            <4> QED
                BY <4>1, <4>3, <4>4, <4>5, <4>6
        <3> QED
            BY <1>1, <1>2, <3>2, <3>3 DEF Buffer!TypeOK
    <2>2. /\ SlotsKept' /\ Buffer!Queue!Put
          /\ v3' \in [0..BUFFER_SIZE - 1 -> Int] /\ v4' \in 0..BUFFER_SIZE - 1
          /\ v5' = v5 /\ v6' \in Nat \ {0} /\ v9' = v9
          /\ Made' - Len(v9') = Made - Len(v9) + 1
        BY <1>1, <1>2, <1>6, <2>1, BufferPut
    <2>3. /\ v2' \in [DOMAIN v2 -> {"run", "wait", "inside", "outside"}]
          /\ \A t \in DOMAIN v2 : v2'[t] \in {"run", "wait"}
        <3>1. v2 \in [DOMAIN v2 -> {"run", "wait", "inside", "outside"}]
            BY BufferThreads
        <3> QED
            BY <1>2, <1>6, <3>1, SignalMoves
    <2>4. CounterKept'
        BY <1>2, <1>6, <2>2, <2>3 DEF CounterKept
    <2>5. v7' \in Int
        BY <1>1, <1>6 DEF Buffer!TypeOK
    <2>6. Buffer!TypeOK'
        BY <1>1, <1>2, <1>4, <2>2, <2>3, <2>5 DEF Buffer!TypeOK
    <2> QED
        BY <1>3, <2>2, <2>4, <2>6 DEF BufferInv, QueueStep
<1> QED
    BY <1>5, <1>6 DEF Buffer!produce

LEMMA BufferConsume ==
    ASSUME BUFFER_SIZE \in Nat \ {0}, BufferInv, NEW t \in DOMAIN v2, Buffer!consume(t)
    PROVE  BufferInv' /\ QueueStep
<1>1. Buffer!TypeOK /\ SlotsKept /\ CounterKept
    BY DEF BufferInv
<1>2. /\ v1 # "sem" /\ v1' = v1 /\ v8' = v8
      /\ v7 = Made - Len(v9)
      /\ \A u \in DOMAIN v2 : v2[u] \in {"run", "wait"}
    BY <1>1 DEF Buffer!consume, CounterKept
<1>3. SemaphoresKept'
    BY <1>2 DEF SemaphoresKept
<1>4. DOMAIN v2 = Buffer!Threads(v1)
    BY <1>1 DEF Buffer!TypeOK
<1>5. CASE Buffer!Empty /\ Buffer!Wait(t)
    <2>1. v2' = [v2 EXCEPT ![t] = "wait"] /\ UNCHANGED <<v3, v4, v5, v6, v7, v9>>
        BY <1>5 DEF Buffer!Wait
    <2>2. Buffer!TypeOK'
        BY <1>1, <1>2, <2>1 DEF Buffer!TypeOK
    <2>3. SlotsKept' /\ CounterKept'
        BY <1>1, <1>2, <2>1 DEF SlotsKept, CounterKept, Made, Room
    <2>4. UNCHANGED Buffer!Queue!vars
        BY <1>2, <2>1 DEF Buffer!Queue!vars
    <2> QED
        BY <1>3, <2>2, <2>3, <2>4 DEF BufferInv, QueueStep
<1>6. CASE ~Buffer!Empty /\ Buffer!Take /\ v7' = v7 - 1
           /\ v2' \in Buffer!Signalled(v2, {0}, "run")
    <2>1. Len(v9) < Made
        <3>1. Made \in Nat /\ Len(v9) \in Nat /\ Len(v9) <= Made
            BY <1>1, BufferNumbers
        <3>2. v1 = "counter" => v7 # 0
            BY <1>6 DEF Buffer!Empty
        <3>3. v1 = "condition" => v4 # v5
            BY <1>6 DEF Buffer!Empty
        <3>4. v4 = Made % BUFFER_SIZE /\ v5 = Len(v9) % BUFFER_SIZE
            BY <1>1 DEF SlotsKept
        <3>5. v1 \in {"condition", "counter"}
            BY <1>1, <1>2 DEF Buffer!TypeOK
        <3>6. Made # Len(v9)
            BY <1>2, <3>1, <3>2, <3>3, <3>4, <3>5
        <3> QED
            BY <3>1, <3>6
    <2>2. /\ SlotsKept' /\ Buffer!Queue!Take
          /\ v3' \in [0..BUFFER_SIZE - 1 -> Int] /\ v5' \in 0..BUFFER_SIZE - 1
          /\ v4' = v4 /\ v6' = v6 /\ v9' \in Seq(Int)
          /\ Made' - Len(v9') = Made - Len(v9) - 1
        BY <1>1, <1>2, <1>6, <2>1, BufferTake
    <2>3. /\ v2' \in [DOMAIN v2 -> {"run", "wait", "inside", "outside"}]
          /\ \A u \in DOMAIN v2 : v2'[u] \in {"run", "wait"}
        <3>1. /\ v2 \in [DOMAIN v2 -> {"run", "wait", "inside", "outside"}]
              /\ {0} \in SUBSET DOMAIN v2
            BY BufferThreads
        <3> QED
            BY <1>2, <1>6, <3>1, SignalMoves
    <2>4. CounterKept'
        BY <1>2, <1>6, <2>2, <2>3 DEF CounterKept
    <2>5. v7' \in Int
        BY <1>1, <1>6 DEF Buffer!TypeOK
    <2>6. Buffer!TypeOK'
        BY <1>1, <1>2, <1>4, <2>2, <2>3, <2>5 DEF Buffer!TypeOK
    <2> QED
        BY <1>3, <2>2, <2>4, <2>6 DEF BufferInv, QueueStep
<1> QED
    BY <1>5, <1>6 DEF Buffer!consume
(* A thread that moves changes what is claimed.                            *)
LEMMA ClaimsMove ==
    ASSUME v2 \in [0..3 -> {"run", "wait", "inside", "outside"}], NEW t \in 0..3,
           NEW to, v2' = [v2 EXCEPT ![t] = to]
    PROVE  /\ SlotsClaimed \in Nat /\ ItemsClaimed \in Nat
           /\ v2[t] = "run" /\ to = "inside" /\ t = 0
                  => SlotsClaimed' = SlotsClaimed + 1 /\ ItemsClaimed' = ItemsClaimed
           /\ v2[t] = "run" /\ to = "inside" /\ t # 0
                  => SlotsClaimed' = SlotsClaimed /\ ItemsClaimed' = ItemsClaimed + 1
           /\ v2[t] = "inside" /\ to = "outside" /\ t = 0
                  => SlotsClaimed' = SlotsClaimed - 1 /\ ItemsClaimed' = ItemsClaimed + 1
           /\ v2[t] = "inside" /\ to = "outside" /\ t # 0
                  => SlotsClaimed' = SlotsClaimed + 1 /\ ItemsClaimed' = ItemsClaimed - 1
           /\ v2[t] = "outside" /\ to = "run" /\ t = 0
                  => SlotsClaimed' = SlotsClaimed /\ ItemsClaimed' = ItemsClaimed - 1
           /\ v2[t] = "outside" /\ to = "run" /\ t # 0
                  => SlotsClaimed' = SlotsClaimed - 1 /\ ItemsClaimed' = ItemsClaimed
           /\ v2[t] = "inside" /\ t = 0 => SlotsClaimed > 0
           /\ v2[t] = "inside" /\ t # 0 => ItemsClaimed > 0
<1>1. v2'[t] = to /\ \A u \in 0..3 \ {t} : v2'[u] = v2[u]
    OBVIOUS
<1>2. CASE t = 0
    BY <1>1, <1>2 DEF SlotsClaimed, ItemsClaimed, IsAt
<1>3. CASE t = 1
    BY <1>1, <1>3 DEF SlotsClaimed, ItemsClaimed, IsAt
<1>4. CASE t = 2
    BY <1>1, <1>4 DEF SlotsClaimed, ItemsClaimed, IsAt
<1>5. CASE t = 3
    BY <1>1, <1>5 DEF SlotsClaimed, ItemsClaimed, IsAt
<1> QED
    BY <1>2, <1>3, <1>4, <1>5

(* The program with semaphores: a thread asks its own one, puts or takes,  *)
(* and posts the other.                                                    *)
LEMMA BufferAsk ==
    ASSUME BUFFER_SIZE \in Nat \ {0}, BufferInv, v1 = "sem", NEW t \in 0..3,
           NEW semaphore, semaphore = IF t = 0 THEN "empty" ELSE "full",
           Buffer!P(t, semaphore)
    PROVE  BufferInv' /\ QueueStep
<1>1. Buffer!TypeOK /\ SlotsKept /\ CounterKept /\ SemaphoresKept /\ DOMAIN v2 = 0..3
    BY BufferThreads DEF BufferInv
<1>2. /\ v2[t] = "run" /\ v2' = [v2 EXCEPT ![t] = "inside"]
      /\ v8[semaphore] > 0 /\ v8' = [v8 EXCEPT ![semaphore] = v8[semaphore] - 1]
      /\ UNCHANGED <<v1, v3, v4, v5, v6, v7, v9>>
    BY DEF Buffer!P
<1>3. Buffer!TypeOK'
    BY <1>1, <1>2 DEF Buffer!TypeOK
<1>4. SlotsKept' /\ CounterKept' /\ Made' = Made
    BY <1>1, <1>2 DEF SlotsKept, CounterKept, Made, Room
<1>5. SemaphoresKept'
    <2>1. v8 \in [{"full", "empty"} -> Nat] /\ v2 \in [0..3 -> {"run", "wait", "inside", "outside"}]
        BY <1>1 DEF Buffer!TypeOK, Buffer!Threads
    <2>2. /\ t = 0 => v8'.empty = v8.empty - 1 /\ v8'.full = v8.full
          /\ t # 0 => v8'.full = v8.full - 1 /\ v8'.empty = v8.empty
        BY <1>2, <2>1
    <2>3. /\ SlotsClaimed \in Nat /\ ItemsClaimed \in Nat
          /\ t = 0 => SlotsClaimed' = SlotsClaimed + 1 /\ ItemsClaimed' = ItemsClaimed
          /\ t # 0 => SlotsClaimed' = SlotsClaimed /\ ItemsClaimed' = ItemsClaimed + 1
        BY <1>2, <2>1, ClaimsMove
    <2>4. Made \in Int /\ Len(v9) \in Int
        BY <1>1, BufferNumbers
    <2>5. \A u \in 0..3 : v2'[u] \in {"run", "inside", "outside"}
        BY <1>1, <1>2, <2>1 DEF SemaphoresKept
    <2>6. /\ v8.empty = BUFFER_SIZE - (Made - Len(v9)) - SlotsClaimed
          /\ v8.full = Made - Len(v9) - ItemsClaimed
        BY <1>1 DEF SemaphoresKept
    <2> QED
        BY <1>2, <1>4, <2>2, <2>3, <2>4, <2>5, <2>6 DEF SemaphoresKept
<1>6. UNCHANGED Buffer!Queue!vars
    BY <1>2 DEF Buffer!Queue!vars
<1> QED
    BY <1>3, <1>4, <1>5, <1>6 DEF BufferInv, QueueStep

LEMMA BufferPost ==
    ASSUME BUFFER_SIZE \in Nat \ {0}, BufferInv, NEW t \in DOMAIN v2,
           NEW semaphore, semaphore = IF t = 0 THEN "full" ELSE "empty",
           Buffer!V(t, semaphore)
    PROVE  BufferInv' /\ QueueStep
<1>1. Buffer!TypeOK /\ SlotsKept /\ CounterKept /\ SemaphoresKept
    BY DEF BufferInv
<1>2. /\ v2[t] = "outside" /\ v2' = [v2 EXCEPT ![t] = "run"]
      /\ v8' = [v8 EXCEPT ![semaphore] = v8[semaphore] + 1]
      /\ UNCHANGED <<v1, v3, v4, v5, v6, v7, v9>>
    BY DEF Buffer!V
<1>3. v1 = "sem" /\ DOMAIN v2 = 0..3 /\ t \in 0..3
    BY <1>1, <1>2, BufferThreads DEF CounterKept
<1>4. Buffer!TypeOK'
    BY <1>1, <1>2, <1>3 DEF Buffer!TypeOK
<1>5. SlotsKept' /\ CounterKept' /\ Made' = Made
    BY <1>1, <1>2, <1>3 DEF SlotsKept, CounterKept, Made, Room
<1>6. SemaphoresKept'
    <2>1. v8 \in [{"full", "empty"} -> Nat] /\ v2 \in [0..3 -> {"run", "wait", "inside", "outside"}]
        BY <1>1, <1>3 DEF Buffer!TypeOK, Buffer!Threads
    <2>2. /\ t = 0 => v8'.full = v8.full + 1 /\ v8'.empty = v8.empty
          /\ t # 0 => v8'.empty = v8.empty + 1 /\ v8'.full = v8.full
        BY <1>2, <2>1
    <2>3. /\ SlotsClaimed \in Nat /\ ItemsClaimed \in Nat
          /\ t = 0 => SlotsClaimed' = SlotsClaimed /\ ItemsClaimed' = ItemsClaimed - 1
          /\ t # 0 => SlotsClaimed' = SlotsClaimed - 1 /\ ItemsClaimed' = ItemsClaimed
        BY <1>2, <1>3, <2>1, ClaimsMove
    <2>4. Made \in Int /\ Len(v9) \in Int
        BY <1>1, BufferNumbers
    <2>5. \A u \in 0..3 : v2'[u] \in {"run", "inside", "outside"}
        BY <1>1, <1>2, <1>3, <2>1 DEF SemaphoresKept
    <2>6. /\ v8.empty = BUFFER_SIZE - (Made - Len(v9)) - SlotsClaimed
          /\ v8.full = Made - Len(v9) - ItemsClaimed
        BY <1>1, <1>3 DEF SemaphoresKept
    <2> QED
        BY <1>2, <1>5, <2>2, <2>3, <2>4, <2>5, <2>6 DEF SemaphoresKept
<1>7. UNCHANGED Buffer!Queue!vars
    BY <1>2 DEF Buffer!Queue!vars
<1> QED
    BY <1>4, <1>5, <1>6, <1>7 DEF BufferInv, QueueStep

LEMMA BufferInside ==
    ASSUME BUFFER_SIZE \in Nat \ {0}, BufferInv, NEW t \in DOMAIN v2, Buffer!Inside(t),
           (t = 0 /\ Buffer!Put) \/ (t # 0 /\ Buffer!Take)
    PROVE  BufferInv' /\ QueueStep
<1>1. Buffer!TypeOK /\ SlotsKept /\ CounterKept /\ SemaphoresKept
    BY DEF BufferInv
<1>2. /\ v2[t] = "inside" /\ v2' = [v2 EXCEPT ![t] = "outside"]
      /\ UNCHANGED <<v1, v7, v8>>
    BY DEF Buffer!Inside
<1>3. v1 = "sem" /\ DOMAIN v2 = 0..3 /\ t \in 0..3
    BY <1>1, <1>2, BufferThreads DEF CounterKept
<1>4. /\ v8 \in [{"full", "empty"} -> Nat] /\ v7 \in Int
      /\ v2 \in [0..3 -> {"run", "wait", "inside", "outside"}]
    BY <1>1, <1>3 DEF Buffer!TypeOK, Buffer!Threads
<1>5. v2' \in [0..3 -> {"run", "wait", "inside", "outside"}]
    BY <1>2, <1>3, <1>4
<1>6. Made \in Nat /\ Len(v9) \in Nat
    BY <1>1, BufferNumbers
<1>7. /\ v8.empty = BUFFER_SIZE - (Made - Len(v9)) - SlotsClaimed
      /\ v8.full = Made - Len(v9) - ItemsClaimed
      /\ v8.empty \in Nat /\ v8.full \in Nat
    BY <1>1, <1>3, <1>4 DEF SemaphoresKept
<1>8. \A u \in 0..3 : v2'[u] \in {"run", "inside", "outside"}
    BY <1>1, <1>2, <1>3, <1>4 DEF SemaphoresKept
<1>9. /\ SlotsClaimed \in Nat /\ ItemsClaimed \in Nat
      /\ t = 0 => /\ SlotsClaimed > 0
                  /\ SlotsClaimed' = SlotsClaimed - 1 /\ ItemsClaimed' = ItemsClaimed + 1
      /\ t # 0 => /\ ItemsClaimed > 0
                  /\ SlotsClaimed' = SlotsClaimed + 1 /\ ItemsClaimed' = ItemsClaimed - 1
    BY <1>2, <1>3, <1>4, ClaimsMove
<1>10. CounterKept'
    BY <1>2, <1>3 DEF CounterKept
<1>11. CASE t = 0
    <2>1. Made - Len(v9) < Room
        BY <1>3, <1>6, <1>7, <1>9, <1>11 DEF Room
    <2>2. /\ SlotsKept' /\ Buffer!Queue!Put
          /\ v3' \in [0..BUFFER_SIZE - 1 -> Int] /\ v4' \in 0..BUFFER_SIZE - 1
          /\ v5' = v5 /\ v6' \in Nat \ {0} /\ v9' = v9
          /\ Made' - Len(v9') = Made - Len(v9) + 1
        BY <1>1, <1>2, <1>11, <2>1, BufferPut
    <2>3. SemaphoresKept'
        <3>1. /\ SlotsClaimed' = SlotsClaimed - 1 /\ ItemsClaimed' = ItemsClaimed + 1
              /\ SlotsClaimed \in Nat /\ ItemsClaimed \in Nat /\ v8' = v8
              /\ Made' - Len(v9') = Made - Len(v9) + 1
            BY <1>2, <1>9, <1>11, <2>2
        <3>2. v8'.empty = BUFFER_SIZE - (Made' - Len(v9')) - SlotsClaimed'
            BY <1>6, <1>7, <3>1
        <3>3. v8'.full = Made' - Len(v9') - ItemsClaimed'
            BY <1>6, <1>7, <3>1
        <3> QED
            BY <1>8, <3>2, <3>3 DEF SemaphoresKept
    <2>4. Buffer!TypeOK'
        BY <1>1, <1>2, <1>3, <1>5, <2>2 DEF Buffer!TypeOK, Buffer!Threads
    <2> QED
        BY <1>10, <2>2, <2>3, <2>4 DEF BufferInv, QueueStep
<1>12. CASE t # 0
    <2>1. Len(v9) < Made
        BY <1>6, <1>7, <1>9, <1>12
    <2>2. /\ SlotsKept' /\ Buffer!Queue!Take
          /\ v3' \in [0..BUFFER_SIZE - 1 -> Int] /\ v5' \in 0..BUFFER_SIZE - 1
          /\ v4' = v4 /\ v6' = v6 /\ v9' \in Seq(Int)
          /\ Made' - Len(v9') = Made - Len(v9) - 1
        BY <1>1, <1>2, <1>12, <2>1, BufferTake
    <2>3. SemaphoresKept'
        <3>1. /\ SlotsClaimed' = SlotsClaimed + 1 /\ ItemsClaimed' = ItemsClaimed - 1
              /\ SlotsClaimed \in Nat /\ ItemsClaimed \in Nat /\ v8' = v8
              /\ Made' - Len(v9') = Made - Len(v9) - 1
            BY <1>2, <1>9, <1>12, <2>2
        <3>2. v8'.empty = BUFFER_SIZE - (Made' - Len(v9')) - SlotsClaimed'
            BY <1>6, <1>7, <3>1
        <3>3. v8'.full = Made' - Len(v9') - ItemsClaimed'
            BY <1>6, <1>7, <3>1
        <3> QED
            BY <1>8, <3>2, <3>3 DEF SemaphoresKept
    <2>4. Buffer!TypeOK'
        BY <1>1, <1>2, <1>3, <1>5, <2>2 DEF Buffer!TypeOK, Buffer!Threads
    <2> QED
        BY <1>10, <2>2, <2>3, <2>4 DEF BufferInv, QueueStep
<1> QED
    BY <1>11, <1>12

LEMMA BufferWake ==
    ASSUME BufferInv, NEW t \in DOMAIN v2, Buffer!SpuriousWake(t)
    PROVE  BufferInv' /\ QueueStep
<1>1. Buffer!TypeOK /\ SlotsKept /\ CounterKept /\ SemaphoresKept
    BY DEF BufferInv
<1>2. /\ v2[t] = "wait" /\ v2' = [v2 EXCEPT ![t] = "run"]
      /\ UNCHANGED <<v1, v3, v4, v5, v6, v7, v8, v9>>
    BY DEF Buffer!SpuriousWake
<1>3. v1 # "sem"
    BY <1>1, <1>2, BufferThreads DEF SemaphoresKept
<1>4. Buffer!TypeOK'
    BY <1>1, <1>2 DEF Buffer!TypeOK
<1>5. SlotsKept' /\ CounterKept' /\ SemaphoresKept'
    BY <1>1, <1>2, <1>3 DEF SlotsKept, CounterKept, SemaphoresKept, Made, Room
<1>6. UNCHANGED Buffer!Queue!vars
    BY <1>2 DEF Buffer!Queue!vars
<1> QED
    BY <1>4, <1>5, <1>6 DEF BufferInv, QueueStep

LEMMA BufferNext ==
    ASSUME BUFFER_SIZE \in Nat \ {0}, BufferInv, Buffer!Next \/ UNCHANGED Buffer!vars
    PROVE  BufferInv' /\ QueueStep
<1>1. CASE UNCHANGED Buffer!vars
    <2>1. UNCHANGED <<v1, v2, v3, v4, v5, v6, v7, v8, v9>>
        BY <1>1 DEF Buffer!vars
    <2>2. Buffer!TypeOK'
        BY <2>1 DEF BufferInv, Buffer!TypeOK
    <2>3. Made' = Made /\ Room' = Room /\ SlotsClaimed' = SlotsClaimed
              /\ ItemsClaimed' = ItemsClaimed
        BY <2>1 DEF Made, Room, SlotsClaimed, ItemsClaimed, IsAt
    <2>4. SlotsKept' /\ CounterKept' /\ SemaphoresKept'
        BY <2>1, <2>3 DEF BufferInv, SlotsKept, CounterKept, SemaphoresKept
    <2>5. UNCHANGED Buffer!Queue!vars
        BY <2>1 DEF Buffer!Queue!vars
    <2> QED
        BY <2>2, <2>4, <2>5 DEF BufferInv, QueueStep
<1>2. ASSUME NEW t \in DOMAIN v2, Buffer!SpuriousWake(t)
      PROVE  BufferInv' /\ QueueStep
    BY <1>2, BufferWake
<1>3. ASSUME Buffer!Step(0) PROVE BufferInv' /\ QueueStep
    <2>1. 0 \in DOMAIN v2 /\ (Buffer!produce \/ Buffer!produceSem)
        BY <1>3 DEF Buffer!Step
    <2>2. CASE v1 = "sem" /\ Buffer!P(0, "empty")
        BY <2>2, BufferAsk
    <2>3. CASE Buffer!Inside(0) /\ Buffer!Put
        BY <2>1, <2>3, BufferInside
    <2>4. CASE Buffer!V(0, "full")
        BY <2>1, <2>4, BufferPost
    <2> QED
        BY <2>1, <2>2, <2>3, <2>4, BufferProduce DEF Buffer!produceSem
<1>4. ASSUME NEW t \in DOMAIN v2, t # 0, Buffer!Step(t) PROVE BufferInv' /\ QueueStep
    <2>1. Buffer!consume(t) \/ Buffer!consumeSem(t)
        BY <1>4 DEF Buffer!Step
    <2>2. CASE v1 = "sem" /\ Buffer!P(t, "full")
        <3>1. t \in 0..3
            BY <2>2, BufferThreads
        <3> QED
            BY <1>4, <2>2, <3>1, BufferAsk
    <2>3. CASE Buffer!Inside(t) /\ Buffer!Take
        BY <1>4, <2>3, BufferInside
    <2>4. CASE Buffer!V(t, "empty")
        BY <1>4, <2>4, BufferPost
    <2> QED
        BY <2>1, <2>2, <2>3, <2>4, BufferConsume DEF Buffer!consumeSem
<1> QED
    BY <1>1, <1>2, <1>3, <1>4 DEF Buffer!Next
-----------------------------------------------------------------------------
(* The barrier: v1 is limit, v2 arrived, v3 pc and v4 created.             *)

(* The workers that have called wait_for_others.                           *)
Past == {w \in Barrier!Worker : v3[w] \in {"wait", "woken", "end"}}

(* Main creates one worker after the other, the limit being set.           *)
Created ==
    /\ v3[0] \in {"init", "create", "join", "end"}
    /\ v3[0] \in {"create", "join"} => v1 = NumWorkers
    /\ \A w \in Barrier!Worker : v3[w] \in {"none", "work", "wait", "woken", "end"}
    /\ \A w \in Barrier!Worker : v3[w] # "none" => v1 = NumWorkers /\ v3[0] # "init"
    /\ \A w \in Barrier!Worker : w > v4 => v3[w] = "none"

BarrierInv == Barrier!TypeOK /\ Created /\ Barrier!BarrierHolds /\ v2 = Cardinality(Past)

(* The initial states satisfy the invariant.                               *)
LEMMA BarrierInit ==
    ASSUME NumWorkers \in Nat \ {0}, Barrier!Init
    PROVE  BarrierInv
<1>1. Past = {}
    BY DEF Barrier!Init, Past, Barrier!Worker
<1>2. Barrier!TypeOK /\ Created /\ Barrier!BarrierHolds
    BY DEF Barrier!Init, Barrier!TypeOK, Created, Barrier!BarrierHolds, Barrier!Worker
<1> QED
    BY <1>1, <1>2, FS_EmptySet DEF Barrier!Init, BarrierInv

(* Main's steps, before there are workers and between them.                *)
LEMMA BarrierMain ==
    ASSUME NumWorkers \in Nat \ {0}, BarrierInv,
           Barrier!barrier_init \/ Barrier!Create \/ Barrier!Join
    PROVE  BarrierInv'
<1>1. Barrier!TypeOK /\ Created /\ Barrier!BarrierHolds
    BY DEF BarrierInv
<1>2. CASE Barrier!barrier_init
    <2>1. /\ v3[0] = "init" /\ v1' = NumWorkers /\ v2' = 0
          /\ v4' = v4
          /\ \E next \in {"create", "end"} : v3' = [v3 EXCEPT ![0] = next]
          /\ \A w \in Barrier!Worker : v3[w] = "none"
        BY <1>1, <1>2 DEF Barrier!barrier_init, Created
    <2>2. \A w \in Barrier!Worker : v3'[w] = "none"
        BY <1>1, <2>1 DEF Barrier!TypeOK, Barrier!Worker
    <2>3. Past' = {}
        BY <2>2 DEF Past
    <2>4. Barrier!TypeOK'
        BY <1>1, <2>1 DEF Barrier!TypeOK
    <2>5. Created'
        BY <1>1, <2>1, <2>2 DEF Barrier!TypeOK, Created
    <2>6. Barrier!BarrierHolds'
        BY <2>2 DEF Barrier!BarrierHolds
    <2> QED
        BY <2>1, <2>3, <2>4, <2>5, <2>6, FS_EmptySet DEF BarrierInv
<1>3. CASE Barrier!Create /\ v4 < NumWorkers
    <2>1. /\ v3[0] = "create" /\ v3' = [v3 EXCEPT ![v4 + 1] = "work"]
          /\ v4' = v4 + 1 /\ UNCHANGED <<v1, v2>>
        BY <1>3 DEF Barrier!Create
    <2>2. v4 \in Nat /\ v4 + 1 \in Barrier!Worker /\ v3[v4 + 1] = "none"
        BY <1>1, <1>3 DEF Barrier!TypeOK, Created, Barrier!Worker
    <2>3. /\ v3'[0] = v3[0] /\ v3'[v4 + 1] = "work"
          /\ \A w \in Barrier!Worker : w # v4 + 1 => v3'[w] = v3[w]
        BY <1>1, <2>1, <2>2 DEF Barrier!TypeOK, Barrier!Worker
    <2>4. Past' = Past
        BY <2>2, <2>3 DEF Past
    <2>5. Barrier!TypeOK'
        BY <1>1, <2>1, <2>2 DEF Barrier!TypeOK, Barrier!Worker
    <2>6. Created'
        <3> SUFFICES ASSUME NEW w \in Barrier!Worker, w > v4' PROVE v3'[w] = "none"
            BY <1>1, <2>1, <2>2, <2>3 DEF Created
        <3> QED
            BY <1>1, <2>1, <2>2, <2>3 DEF Created, Barrier!Worker
    <2>7. Barrier!BarrierHolds'
        BY <1>1, <2>1, <2>2, <2>3 DEF Barrier!BarrierHolds
    <2> QED
        BY <2>1, <2>4, <2>5, <2>6, <2>7 DEF BarrierInv
<1>4. CASE Barrier!Join \/ (Barrier!Create /\ ~(v4 < NumWorkers))
    <2>1. /\ v3[0] \in {"join", "create"}
          /\ \E next \in {"join", "end"} : v3' = [v3 EXCEPT ![0] = next]
          /\ UNCHANGED <<v1, v2, v4>>
        BY <1>4 DEF Barrier!Create, Barrier!Join
    <2>2. v3'[0] \in {"join", "end"} /\ \A w \in Barrier!Worker : v3'[w] = v3[w]
        BY <1>1, <2>1 DEF Barrier!TypeOK, Barrier!Worker
    <2>3. Past' = Past
        BY <2>2 DEF Past
    <2>4. Barrier!TypeOK'
        BY <1>1, <2>1 DEF Barrier!TypeOK
    <2>5. Created'
        BY <1>1, <2>1, <2>2 DEF Created
    <2>6. Barrier!BarrierHolds'
        BY <1>1, <2>1, <2>2 DEF Barrier!BarrierHolds
    <2> QED
        BY <2>1, <2>3, <2>4, <2>5, <2>6 DEF BarrierInv
<1> QED
    BY <1>2, <1>3, <1>4

(* A worker that leaves frees the next one, if anybody sleeps.             *)
LEMMA LeaveWakes ==
    ASSUME NumWorkers \in Nat \ {0}, Barrier!TypeOK, Created,
           NEW w \in Barrier!Worker, v3[w] \in {"work", "woken"}, Barrier!Leave(w)
    PROVE  /\ v3' \in [0..NumWorkers -> {"init", "create", "join", "none", "work",
                                         "wait", "woken", "end"}]
           /\ v3'[0] = v3[0] /\ v3'[w] = "end"
           /\ \A v \in Barrier!Worker \ {w} :
                 v3'[v] = v3[v] \/ (v3[v] = "wait" /\ v3'[v] = "woken")
           /\ (\E v \in Barrier!Worker : v3'[v] = "wait")
                  => \E v \in Barrier!Worker : v3'[v] = "woken"
<1> DEFINE left == [v3 EXCEPT ![w] = "end"]
           sleepers == {t \in Barrier!Worker : left[t] = "wait"}
<1>1. /\ left \in [0..NumWorkers -> {"init", "create", "join", "none", "work",
                                     "wait", "woken", "end"}]
      /\ left[0] = v3[0] /\ left[w] = "end" /\ \A v \in Barrier!Worker \ {w} : left[v] = v3[v]
    BY DEF Barrier!TypeOK, Barrier!Worker
<1> HIDE DEF left
<1>2. CASE sleepers = {}
    <2>1. v3' = left
        BY <1>2 DEF Barrier!Leave, Barrier!Signalled, left
    <2> QED
        BY <1>1, <1>2, <2>1
<1>3. CASE sleepers # {}
    <2>1. PICK t \in sleepers : v3' = [left EXCEPT ![t] = "woken"]
        BY <1>3 DEF Barrier!Leave, Barrier!Signalled, left
    <2>2. t # w /\ t \in Barrier!Worker /\ left[t] = "wait" /\ t \in 0..NumWorkers /\ t # 0
        BY <1>1, <2>1 DEF Barrier!Worker
    <2>3. v3'[t] = "woken" /\ \A v \in 0..NumWorkers : v # t => v3'[v] = left[v]
        BY <1>1, <2>1, <2>2
    <2>4. \A v \in Barrier!Worker : v \in 0..NumWorkers /\ v # 0
        BY DEF Barrier!Worker
    <2> QED
        BY <1>1, <2>1, <2>2, <2>3, <2>4
<1> QED
    BY <1>2, <1>3

(* The one that arrives is counted; the last one is the last of all.       *)
LEMMA BarrierArrive ==
    ASSUME NumWorkers \in Nat \ {0}, BarrierInv, NEW w \in Barrier!Worker,
           Barrier!wait_for_others(w)
    PROVE  BarrierInv'
<1>1. /\ Barrier!TypeOK /\ Created /\ Barrier!BarrierHolds /\ v2 = Cardinality(Past)
      /\ v3[w] = "work" /\ v2' = v2 + 1 /\ UNCHANGED <<v1, v4>>
      /\ v1 = NumWorkers /\ v3[0] # "init" /\ ~(w > v4)
    BY DEF BarrierInv, Barrier!wait_for_others, Created
<1>2. /\ v3' \in [0..NumWorkers -> {"init", "create", "join", "none", "work",
                                    "wait", "woken", "end"}]
      /\ v3'[0] = v3[0] /\ v3'[w] \in {"wait", "end"}
      /\ v3'[w] = "end" <=> v2' = NumWorkers
      /\ \A v \in Barrier!Worker \ {w} : v3'[v] = v3[v] \/ (v3[v] = "wait" /\ v3'[v] = "woken")
      /\ v2' = NumWorkers /\ (\E v \in Barrier!Worker : v3'[v] = "wait")
            => \E v \in Barrier!Worker : v3'[v] = "woken"
    <2>1. CASE v2' # v1
        <3>1. v3' = [v3 EXCEPT ![w] = "wait"]
            BY <2>1 DEF Barrier!wait_for_others
        <3> QED
            BY <1>1, <2>1, <3>1 DEF Barrier!TypeOK, Barrier!Worker
    <2>2. CASE v2' = v1
        <3>1. Barrier!Leave(w)
            BY <2>2 DEF Barrier!wait_for_others
        <3> QED
            BY <1>1, <2>2, <3>1, LeaveWakes
    <2> QED
        BY <2>1, <2>2
<1>3. Past' = Past \cup {w} /\ w \notin Past
    BY <1>1, <1>2 DEF Past
<1>4. IsFiniteSet(Past) /\ IsFiniteSet(Past') /\ Cardinality(Past') \in 0..NumWorkers
    <2>1. IsFiniteSet(Barrier!Worker) /\ Cardinality(Barrier!Worker) = NumWorkers
        BY FS_Interval DEF Barrier!Worker
    <2>2. Past \subseteq Barrier!Worker /\ Past' \subseteq Barrier!Worker
        BY DEF Past
    <2> QED
        BY <2>1, <2>2, FS_Subset, FS_CardinalityType
<1>5. v2' = Cardinality(Past')
    BY <1>1, <1>3, <1>4, FS_AddElement
<1>6. Barrier!TypeOK'
    BY <1>1, <1>2, <1>4, <1>5 DEF Barrier!TypeOK
<1>7. Created'
    BY <1>1, <1>2 DEF Created
<1>8. Barrier!BarrierHolds'
    <2>1. v2 # NumWorkers
        BY <1>4, <1>5, <1>1 DEF Barrier!TypeOK
    <2> QED
        BY <1>1, <1>2, <2>1 DEF Barrier!BarrierHolds
<1> QED
    BY <1>5, <1>6, <1>7, <1>8 DEF BarrierInv

(* A worker that was woken goes back to sleep before all have arrived, and *)
(* leaves after.  One that is woken spuriously just looks again.           *)
LEMMA BarrierWoken ==
    ASSUME NumWorkers \in Nat \ {0}, BarrierInv, NEW w \in Barrier!Worker,
           Barrier!TestAgain(w) \/ Barrier!SpuriousWake(w)
    PROVE  BarrierInv'
<1>1. /\ Barrier!TypeOK /\ Created /\ Barrier!BarrierHolds /\ v2 = Cardinality(Past)
      /\ v3[w] \in {"wait", "woken"} /\ UNCHANGED <<v1, v2, v4>>
      /\ v1 = NumWorkers /\ v3[0] # "init" /\ ~(w > v4)
    BY DEF BarrierInv, Barrier!TestAgain, Barrier!SpuriousWake, Created
<1>2. /\ v3' \in [0..NumWorkers -> {"init", "create", "join", "none", "work",
                                    "wait", "woken", "end"}]
      /\ v3'[0] = v3[0] /\ v3'[w] \in {"wait", "woken", "end"}
      /\ v3'[w] = "end" => v2 = NumWorkers
      /\ \A v \in Barrier!Worker \ {w} : v3'[v] = v3[v] \/ (v3[v] = "wait" /\ v3'[v] = "woken")
      /\ v2 = NumWorkers /\ (\E v \in Barrier!Worker : v3'[v] = "wait")
            => \E v \in Barrier!Worker : v3'[v] = "woken"
    <2>1. CASE Barrier!TestAgain(w) /\ v2 # v1
        <3>1. v3' = [v3 EXCEPT ![w] = "wait"]
            BY <2>1 DEF Barrier!TestAgain
        <3> QED
            BY <1>1, <2>1, <3>1 DEF Barrier!TypeOK, Barrier!Worker
    <2>2. CASE Barrier!TestAgain(w) /\ v2 = v1
        <3>1. Barrier!Leave(w) /\ v3[w] = "woken"
            BY <2>2 DEF Barrier!TestAgain
        <3> QED
            BY <1>1, <2>2, <3>1, LeaveWakes
    <2>3. CASE Barrier!SpuriousWake(w)
        <3>1. v3' = [v3 EXCEPT ![w] = "woken"]
            BY <2>3 DEF Barrier!SpuriousWake
        <3> QED
            BY <1>1, <3>1 DEF Barrier!TypeOK, Barrier!Worker
    <2> QED
        BY <1>1, <2>1, <2>2, <2>3
<1>3. Past' = Past
    BY <1>1, <1>2 DEF Past
<1>4. Barrier!TypeOK'
    BY <1>1, <1>2 DEF Barrier!TypeOK
<1>5. Created'
    BY <1>1, <1>2 DEF Created
<1>6. Barrier!BarrierHolds'
    BY <1>1, <1>2 DEF Barrier!BarrierHolds
<1> QED
    BY <1>1, <1>3, <1>4, <1>5, <1>6 DEF BarrierInv

(* Every step keeps the invariant.                                         *)
LEMMA BarrierNext ==
    ASSUME NumWorkers \in Nat \ {0}, BarrierInv, Barrier!Next \/ UNCHANGED Barrier!vars
    PROVE  BarrierInv'
<1>1. CASE \E t \in DOMAIN v3 : Barrier!Step(t)
    BY <1>1, BarrierMain, BarrierArrive, BarrierWoken DEF Barrier!Step
<1>2. CASE \E w \in Barrier!Worker : Barrier!SpuriousWake(w)
    BY <1>2, BarrierWoken
<1>3. CASE UNCHANGED Barrier!vars
    BY <1>3 DEF Barrier!vars, BarrierInv, Barrier!TypeOK, Created, Barrier!BarrierHolds, Past
<1> QED
    BY <1>1, <1>2, <1>3 DEF Barrier!Next

-----------------------------------------------------------------------------
(* The philosophers: v1 is pc and v2 state.                                *)

(* Nobody is at the table with a state that does not fit his place.        *)
Seats == \A p \in Philosophers!Philosopher : v1[p] = "thinking" <=> v2[p] = "THINKING"

TableInv == Philosophers!TypeOK /\ Seats /\ Philosophers!ForksAreExclusive

States == {"THINKING", "HUNGRY", "EATING"}

(* Two who share a fork do not both eat.                                   *)
Exclusive(s) ==
    \A p \in Philosophers!Philosopher : s[p] = "EATING" => s[Philosophers!RIGHT(p)] # "EATING"

(* Neighbours are philosophers, and being neighbours is mutual.            *)
LEMMA Neighbours ==
    ASSUME N_PHILOSOPHERS \in Nat, N_PHILOSOPHERS >= 2, NEW p \in Philosophers!Philosopher
    PROVE  /\ Philosophers!LEFT(p) \in Philosophers!Philosopher
               /\ Philosophers!RIGHT(p) \in Philosophers!Philosopher
           /\ Philosophers!LEFT(p) # p /\ Philosophers!RIGHT(p) # p
           /\ Philosophers!LEFT(Philosophers!RIGHT(p)) = p
                  /\ Philosophers!RIGHT(Philosophers!LEFT(p)) = p
<1>1. \A q \in Philosophers!Philosopher :
          Philosophers!LEFT(q) = IF q = 0 THEN N_PHILOSOPHERS - 1 ELSE q - 1
    <2> TAKE q \in Philosophers!Philosopher
    <2>1. CASE q = 0
        BY <2>1 DEF Philosophers!LEFT, Philosophers!Philosopher
    <2>2. CASE q # 0
        <3>1. /\ q + N_PHILOSOPHERS - 1 = 1 * N_PHILOSOPHERS + (q - 1)
              /\ q - 1 \in 0..N_PHILOSOPHERS - 1
            BY <2>2 DEF Philosophers!Philosopher
        <3> QED
            BY <2>2, <3>1 DEF Philosophers!LEFT, Philosophers!Philosopher
    <2> QED
        BY <2>1, <2>2
<1>2. \A q \in Philosophers!Philosopher :
          Philosophers!RIGHT(q) = IF q = N_PHILOSOPHERS - 1 THEN 0 ELSE q + 1
    BY DEF Philosophers!RIGHT, Philosophers!Philosopher
<1> QED
    BY <1>1, <1>2 DEF Philosophers!Philosopher

(* test seats one hungry philosopher, if both forks are free, and changes  *)
(* nothing else.                                                           *)
LEMMA TestSeats ==
    ASSUME N_PHILOSOPHERS \in Nat, N_PHILOSOPHERS >= 2,
           NEW s \in [Philosophers!Philosopher -> States], NEW p \in Philosophers!Philosopher,
           Exclusive(s)
    PROVE  /\ Philosophers!test(s, p) \in [Philosophers!Philosopher -> States]
           /\ \A q \in Philosophers!Philosopher \ {p} : Philosophers!test(s, p)[q] = s[q]
           /\ Philosophers!test(s, p)[p] = s[p]
                  \/ (s[p] = "HUNGRY" /\ Philosophers!test(s, p)[p] = "EATING")
           /\ Philosophers!test(s, p)[p] = "HUNGRY"
                  => "EATING" \in {s[Philosophers!LEFT(p)], s[Philosophers!RIGHT(p)]}
           /\ Exclusive(Philosophers!test(s, p))
<1> DEFINE free == s[p] = "HUNGRY" /\ s[Philosophers!LEFT(p)] # "EATING"
                       /\ s[Philosophers!RIGHT(p)] # "EATING"
           t == [s EXCEPT ![p] = "EATING"]
<1>1. CASE ~free
    BY <1>1 DEF Philosophers!test
<1>2. CASE free
    <2>1. Philosophers!test(s, p) = t
        BY <1>2 DEF Philosophers!test
    <2>2. /\ t \in [Philosophers!Philosopher -> States] /\ t[p] = "EATING"
          /\ \A q \in Philosophers!Philosopher \ {p} : t[q] = s[q]
        BY DEF States
    <2>3. Exclusive(t)
        <3> SUFFICES ASSUME NEW q \in Philosophers!Philosopher, t[q] = "EATING"
                     PROVE  t[Philosophers!RIGHT(q)] # "EATING"
            BY DEF Exclusive
        <3> HIDE DEF t
        <3>1. Philosophers!RIGHT(q) \in Philosophers!Philosopher /\ Philosophers!RIGHT(q) # q
                  /\ Philosophers!LEFT(Philosophers!RIGHT(q)) = q
            BY Neighbours
        <3>2. CASE q = p
            BY <1>2, <2>2, <3>1, <3>2
        <3>3. CASE Philosophers!RIGHT(q) = p
            BY <1>2, <2>2, <3>1, <3>3
        <3>4. CASE q # p /\ Philosophers!RIGHT(q) # p
            BY <2>2, <3>1, <3>4 DEF Exclusive
        <3> QED
            BY <3>2, <3>3, <3>4
    <2> HIDE DEF t
    <2> QED
        BY <1>2, <2>1, <2>2, <2>3
<1> QED
    BY <1>1, <1>2

(* Whoever takes up his forks eats at once, or one of his neighbours does. *)
LEMMA TablePickup ==
    ASSUME N_PHILOSOPHERS \in Nat, N_PHILOSOPHERS >= 2, TableInv,
           NEW p \in Philosophers!Philosopher, Philosophers!pickup_forks(p)
    PROVE  TableInv'
<1> DEFINE s == [v2 EXCEPT ![p] = "HUNGRY"]
<1>1. /\ Philosophers!TypeOK /\ Seats /\ Philosophers!ForksAreExclusive
      /\ v1[p] = "thinking" /\ v2[p] = "THINKING" /\ v2' = Philosophers!test(s, p)
      /\ v1' = [v1 EXCEPT ![p] = IF v2'[p] = "EATING" THEN "eating" ELSE "wait"]
    BY DEF TableInv, Philosophers!pickup_forks, Seats
<1>2. /\ s \in [Philosophers!Philosopher -> States] /\ s[p] = "HUNGRY"
      /\ \A q \in Philosophers!Philosopher \ {p} : s[q] = v2[q]
    BY <1>1 DEF Philosophers!TypeOK, States
<1>3. Exclusive(s)
    BY <1>1, <1>2, Neighbours DEF Exclusive, Philosophers!ForksAreExclusive
<1> HIDE DEF s
<1>4. /\ v2' \in [Philosophers!Philosopher -> States]
      /\ \A q \in Philosophers!Philosopher \ {p} : v2'[q] = v2[q]
      /\ v2'[p] \in {"HUNGRY", "EATING"}
      /\ v2'[p] = "HUNGRY" => "EATING" \in {s[Philosophers!LEFT(p)], s[Philosophers!RIGHT(p)]}
      /\ Exclusive(v2')
    BY <1>1, <1>2, <1>3, TestSeats
<1>5. /\ v1' \in [Philosophers!Philosopher -> {"thinking", "wait", "woken", "eating"}]
      /\ v1'[p] = IF v2'[p] = "EATING" THEN "eating" ELSE "wait"
      /\ \A q \in Philosophers!Philosopher \ {p} : v1'[q] = v1[q]
    BY <1>1 DEF Philosophers!TypeOK
<1>6. Philosophers!TypeOK' /\ Seats'
    BY <1>1, <1>4, <1>5 DEF Philosophers!TypeOK, Seats, States
<1>7. Philosophers!ForksAreExclusive'
    <2> SUFFICES ASSUME NEW q \in Philosophers!Philosopher
                 PROVE  /\ v2'[q] = "EATING" => v2'[Philosophers!RIGHT(q)] # "EATING"
                                /\ v1'[q] # "wait"
                        /\ v2'[q] = "HUNGRY"
                               => "EATING" \in {v2'[Philosophers!LEFT(q)],
                                   v2'[Philosophers!RIGHT(q)]}
                        /\ v1'[q] = "eating" => v2'[q] = "EATING"
        BY DEF Philosophers!ForksAreExclusive
    <2>1. /\ Philosophers!LEFT(q) \in Philosophers!Philosopher
                 /\ Philosophers!RIGHT(q) \in Philosophers!Philosopher
          /\ Philosophers!LEFT(q) # q /\ Philosophers!RIGHT(q) # q
        BY Neighbours
    <2>2. v2'[q] = "EATING" => v2'[Philosophers!RIGHT(q)] # "EATING"
        BY <1>4 DEF Exclusive
    <2>3. CASE q = p
        BY <1>2, <1>4, <1>5, <2>1, <2>2, <2>3
    <2>4. CASE q # p
        <3>1. \A r \in Philosophers!Philosopher : v2[r] = "EATING" => v2'[r] = "EATING"
            BY <1>1, <1>4
        <3>2. /\ v2[q] = "EATING" => v1[q] # "wait"
              /\ v2[q] = "HUNGRY"
                     => "EATING" \in {v2[Philosophers!LEFT(q)], v2[Philosophers!RIGHT(q)]}
              /\ v1[q] = "eating" => v2[q] = "EATING"
            BY <1>1 DEF Philosophers!ForksAreExclusive
        <3> QED
            BY <1>4, <1>5, <2>1, <2>2, <2>4, <3>1, <3>2
    <2> QED
        BY <2>3, <2>4
<1> QED
    BY <1>6, <1>7 DEF TableInv

(* Whoever puts down his forks has seated each neighbour who was waiting   *)
(* for nobody else.                                                        *)
LEMMA TableReturn ==
    ASSUME N_PHILOSOPHERS \in Nat, N_PHILOSOPHERS >= 2, TableInv,
           NEW p \in Philosophers!Philosopher, Philosophers!return_forks(p)
    PROVE  TableInv'
<1> DEFINE s0 == [v2 EXCEPT ![p] = "THINKING"]
           s1 == Philosophers!test(s0, Philosophers!LEFT(p))
<1>1. /\ Philosophers!TypeOK /\ Seats /\ Philosophers!ForksAreExclusive
      /\ v1[p] = "eating" /\ v2' = Philosophers!test(s1, Philosophers!RIGHT(p))
      /\ v1' = [q \in Philosophers!Philosopher |->
                  CASE q = p -> "thinking"
                    [] q # p /\ v1[q] = "wait" /\ v2[q] # v2'[q] -> "woken"
                    [] OTHER -> v1[q]]
    BY DEF TableInv, Philosophers!return_forks, Philosophers!Seated
<1>2. /\ s0 \in [Philosophers!Philosopher -> States] /\ s0[p] = "THINKING"
      /\ \A q \in Philosophers!Philosopher \ {p} : s0[q] = v2[q]
    BY <1>1 DEF Philosophers!TypeOK, States
<1>3. Exclusive(s0)
    BY <1>1, <1>2, Neighbours DEF Exclusive, Philosophers!ForksAreExclusive
<1>4. /\ Philosophers!LEFT(p) \in Philosophers!Philosopher
             /\ Philosophers!RIGHT(p) \in Philosophers!Philosopher
      /\ Philosophers!LEFT(p) # p /\ Philosophers!RIGHT(p) # p
             /\ Philosophers!RIGHT(Philosophers!LEFT(p)) = p
                    /\ Philosophers!LEFT(Philosophers!RIGHT(p)) = p
    BY Neighbours
<1> HIDE DEF s0
<1>5. /\ s1 \in [Philosophers!Philosopher -> States]
      /\ \A q \in Philosophers!Philosopher \ {Philosophers!LEFT(p)} : s1[q] = s0[q]
      /\ s1[Philosophers!LEFT(p)] = s0[Philosophers!LEFT(p)]
             \/ (s0[Philosophers!LEFT(p)] = "HUNGRY" /\ s1[Philosophers!LEFT(p)] = "EATING")
      /\ s1[Philosophers!LEFT(p)] = "HUNGRY"
             => "EATING" \in {s0[Philosophers!LEFT(Philosophers!LEFT(p))],
                 s0[Philosophers!RIGHT(Philosophers!LEFT(p))]}
      /\ Exclusive(s1)
    BY <1>2, <1>3, <1>4, TestSeats
<1> HIDE DEF s1
<1>6. /\ v2' \in [Philosophers!Philosopher -> States]
      /\ \A q \in Philosophers!Philosopher \ {Philosophers!RIGHT(p)} : v2'[q] = s1[q]
      /\ v2'[Philosophers!RIGHT(p)] = s1[Philosophers!RIGHT(p)]
            \/ (s1[Philosophers!RIGHT(p)] = "HUNGRY" /\ v2'[Philosophers!RIGHT(p)] = "EATING")
      /\ v2'[Philosophers!RIGHT(p)] = "HUNGRY"
            => "EATING" \in {s1[Philosophers!LEFT(Philosophers!RIGHT(p))],
                s1[Philosophers!RIGHT(Philosophers!RIGHT(p))]}
      /\ Exclusive(v2')
    BY <1>1, <1>4, <1>5, TestSeats
<1>7. /\ v2'[p] = "THINKING"
      /\ \A q \in Philosophers!Philosopher \ {p} :
            v2'[q] = v2[q] \/ (v2[q] = "HUNGRY" /\ v2'[q] = "EATING")
      /\ \A q \in Philosophers!Philosopher : s0[q] = "EATING" => v2'[q] = "EATING"
      /\ \A q \in Philosophers!Philosopher : s1[q] = "EATING" => v2'[q] = "EATING"
    BY <1>2, <1>4, <1>5, <1>6
<1>8. /\ v1' \in [Philosophers!Philosopher -> {"thinking", "wait", "woken", "eating"}]
      /\ v1'[p] = "thinking"
      /\ \A q \in Philosophers!Philosopher \ {p} :
            \/ v1[q] = "wait" /\ v2[q] # v2'[q] /\ v1'[q] = "woken"
            \/ ~(v1[q] = "wait" /\ v2[q] # v2'[q]) /\ v1'[q] = v1[q]
    BY <1>1 DEF Philosophers!TypeOK
<1>9. Philosophers!TypeOK' /\ Seats'
    BY <1>1, <1>6, <1>7, <1>8 DEF Philosophers!TypeOK, Seats, States
<1>10. Philosophers!ForksAreExclusive'
    <2> SUFFICES ASSUME NEW q \in Philosophers!Philosopher
                 PROVE  /\ v2'[q] = "EATING" => v2'[Philosophers!RIGHT(q)] # "EATING"
                                /\ v1'[q] # "wait"
                        /\ v2'[q] = "HUNGRY"
                               => "EATING" \in {v2'[Philosophers!LEFT(q)],
                                   v2'[Philosophers!RIGHT(q)]}
                        /\ v1'[q] = "eating" => v2'[q] = "EATING"
        BY DEF Philosophers!ForksAreExclusive
    <2>1. Philosophers!LEFT(q) \in Philosophers!Philosopher
              /\ Philosophers!RIGHT(q) \in Philosophers!Philosopher
        BY Neighbours
    <2>2. /\ v2[q] = "EATING" => v1[q] # "wait"
          /\ v2[q] = "HUNGRY" => "EATING" \in {v2[Philosophers!LEFT(q)], v2[Philosophers!RIGHT(q)]}
          /\ v1[q] = "eating" => v2[q] = "EATING"
        BY <1>1 DEF Philosophers!ForksAreExclusive
    <2>3. v2'[q] = "EATING" => v2'[Philosophers!RIGHT(q)] # "EATING"
        BY <1>6 DEF Exclusive
    <2>4. v2'[q] = "EATING" => v1'[q] # "wait"
        BY <1>7, <1>8, <2>2
    <2>5. v1'[q] = "eating" => v2'[q] = "EATING"
        BY <1>7, <1>8, <2>2
    <2>6. ASSUME v2'[q] = "HUNGRY"
          PROVE  "EATING" \in {v2'[Philosophers!LEFT(q)], v2'[Philosophers!RIGHT(q)]}
        <3>1. q # p /\ v2[q] = "HUNGRY"
            BY <1>7, <2>6
        <3>2. CASE q = Philosophers!LEFT(p)
            <4>1. s1[q] = "HUNGRY"
                BY <1>5, <1>6, <1>7, <2>6, <3>2
            <4>2. s0[Philosophers!LEFT(q)] = "EATING"
                BY <1>2, <1>4, <1>5, <3>2, <4>1
            <4> QED
                BY <1>7, <2>1, <4>2
        <3>3. CASE q = Philosophers!RIGHT(p)
            <4>1. s1[p] = "THINKING"
                BY <1>2, <1>4, <1>5
            <4>2. s1[Philosophers!RIGHT(q)] = "EATING"
                BY <1>4, <1>6, <2>6, <3>3, <4>1
            <4> QED
                BY <1>7, <2>1, <4>2
        <3>4. CASE q # Philosophers!LEFT(p) /\ q # Philosophers!RIGHT(p)
            <4>1. Philosophers!LEFT(q) # p /\ Philosophers!RIGHT(q) # p
                BY <3>4, Neighbours
            <4> QED
                BY <1>7, <2>1, <2>2, <3>1, <4>1
        <3> QED
            BY <3>2, <3>3, <3>4
    <2> QED
        BY <2>3, <2>4, <2>5, <2>6
<1> QED
    BY <1>9, <1>10 DEF TableInv

(* Looking again changes no state, and finds out whether it is one's turn. *)
LEMMA TableWoken ==
    ASSUME N_PHILOSOPHERS \in Nat, N_PHILOSOPHERS >= 2, TableInv,
           NEW p \in Philosophers!Philosopher,
           Philosophers!TestAgain(p) \/ Philosophers!SpuriousWake(p)
    PROVE  TableInv'
<1>1. /\ Philosophers!TypeOK /\ Seats /\ Philosophers!ForksAreExclusive /\ v2' = v2
      /\ v1[p] # "thinking"
      /\ \E next \in {"wait", "woken", "eating"} :
            /\ v1' = [v1 EXCEPT ![p] = next]
            /\ next = "eating" <=> (v1[p] = "woken" /\ v2[p] = "EATING")
            /\ next = "wait" => v2[p] # "EATING"
    BY DEF TableInv, Philosophers!TestAgain, Philosophers!SpuriousWake
<1>2. Philosophers!TypeOK' /\ Seats'
    BY <1>1 DEF Philosophers!TypeOK, Seats
<1>3. Philosophers!ForksAreExclusive'
    BY <1>1 DEF Philosophers!TypeOK, Philosophers!ForksAreExclusive
<1> QED
    BY <1>2, <1>3 DEF TableInv

LEMMA TableInit ==
    ASSUME N_PHILOSOPHERS \in Nat, N_PHILOSOPHERS >= 2, Philosophers!Init
    PROVE  TableInv
    BY DEF Philosophers!Init, TableInv, Philosophers!TypeOK, Seats, Philosophers!ForksAreExclusive

LEMMA TableNext ==
    ASSUME N_PHILOSOPHERS \in Nat, N_PHILOSOPHERS >= 2, TableInv,
           Philosophers!Next \/ UNCHANGED Philosophers!vars
    PROVE  TableInv'
<1>1. CASE \E p \in Philosophers!Philosopher :
              Philosophers!Step(p) \/ Philosophers!SpuriousWake(p)
    BY <1>1, TablePickup, TableReturn, TableWoken DEF Philosophers!Step
<1>2. CASE UNCHANGED Philosophers!vars
    BY <1>2 DEF Philosophers!vars, TableInv, Philosophers!TypeOK, Seats,
                Philosophers!ForksAreExclusive
<1> QED
    BY <1>1, <1>2 DEF Philosophers!Next
-----------------------------------------------------------------------------
(* The shared counters: v1 is exercise, v2 pc, v3 shared, v4 mysum,        *)
(* v5 rounds and v6 places.                                                *)

(* The threads that have a place, and the rounds that were begun.          *)
InPlace == {t \in Threads!Thread : v2[t] = "inside"}
Begun   == {r \in Threads!Thread \X (1..Rounds) : r[2] <= v5[r[1]]}

CountTypes ==
    /\ v1 \in {"counter", "multicount", "multicountsafe", "sem", "condvar"}
    /\ v2 \in [Threads!Thread -> {"run", "write", "inside", "wait", "end"}]
    /\ v3 \in Nat
    /\ v4 \in [Threads!Thread -> Nat]
    /\ v5 \in [Threads!Thread -> 0..Rounds]
    /\ v6 \in Nat
    /\ \A t \in Threads!Thread : /\ v2[t] = "wait" => v1 = "condvar"
                                 /\ v2[t] = "inside" => v1 \in {"sem", "condvar"}
                                 /\ v2[t] = "write" => v1 = "multicount"

(* As many places are gone as threads are inside, and who waits will be    *)
(* woken by one who is not asleep.                                         *)
PlacesKept ==
    /\ v6 + Cardinality(InPlace) = Places
    /\ (v6 > 0 /\ \E t \in Threads!Thread : v2[t] = "wait")
           => \E t \in Threads!Thread : v2[t] \in {"run", "inside"}

(* The threads that end have seen the counter behind its limit, or all     *)
(* their rounds.                                                           *)
EndsKept ==
    /\ v1 \in {"counter", "condvar"} =>
          /\ v3 <= CounterLimit + 1
          /\ \A t \in Threads!Thread : v2[t] = "end" => v3 = CounterLimit + 1
    /\ v1 \in {"multicount", "multicountsafe"} =>
          \A t \in Threads!Thread : v2[t] = "end" => v5[t] = Rounds

(* The mutex makes the sum the number of rounds.  Without it the sum, and  *)
(* what a thread is about to write, is no more than that; but a thread     *)
(* reads at least 1 after its first round, so it writes at least 2 in its  *)
(* last, and some thread's last round is the last of all.                  *)
SumsKept ==
    /\ v1 = "multicountsafe" => v3 = Cardinality(Begun)
    /\ v1 = "multicount" =>
          /\ v3 <= Cardinality(Begun)
          /\ \A t \in Threads!Thread :
                /\ v2[t] = "write" => v5[t] >= 1 /\ v4[t] + 1 <= Cardinality(Begun)
                /\ v2[t] = "write" /\ v5[t] >= 2 => v4[t] >= 1
                /\ v5[t] >= 2 \/ (v5[t] = 1 /\ v2[t] # "write") => v3 >= 1
          /\ v3 >= 2 \/ \E t \in Threads!Thread : v5[t] < Rounds \/ v2[t] = "write"

CountInv == CountTypes /\ PlacesKept /\ EndsKept /\ SumsKept

LEMMA CountConstants ==
    /\ NUM_THREADS \in Nat \ {0} /\ Rounds \in Nat \ {0, 1}
    /\ CounterLimit \in Nat /\ Places \in Nat
    BY ProgramsAssumption DEF ProgramsAssumption

(* Both sets are finite.                                                   *)
LEMMA CountSets ==
    /\ IsFiniteSet(InPlace) /\ Cardinality(InPlace) \in Nat
    /\ IsFiniteSet(Begun) /\ Cardinality(Begun) \in Nat
    /\ Cardinality(Begun) <= NUM_THREADS * Rounds
    /\ IsFiniteSet(Threads!Thread \X (1..Rounds))
    /\ Cardinality(Threads!Thread \X (1..Rounds)) = NUM_THREADS * Rounds
<1>1. /\ IsFiniteSet(Threads!Thread) /\ Cardinality(Threads!Thread) = NUM_THREADS
      /\ IsFiniteSet(1..Rounds) /\ Cardinality(1..Rounds) = Rounds
    BY CountConstants, FS_Interval DEF Threads!Thread
<1>2. /\ IsFiniteSet(Threads!Thread \X (1..Rounds))
      /\ Cardinality(Threads!Thread \X (1..Rounds)) = NUM_THREADS * Rounds
    BY <1>1, FS_Product
<1>3. InPlace \in SUBSET Threads!Thread /\ Begun \in SUBSET (Threads!Thread \X (1..Rounds))
    BY DEF InPlace, Begun
<1> QED
    BY <1>1, <1>2, <1>3, FS_Subset, FS_CardinalityType

LEMMA CountInit ==
    ASSUME Threads!Init
    PROVE  CountInv
<1>1. InPlace = {} /\ Begun = {}
    BY CountConstants DEF Threads!Init, InPlace, Begun, Threads!Thread
<1>2. Cardinality(InPlace) = 0 /\ Cardinality(Begun) = 0
    BY <1>1, FS_EmptySet
<1>3. CountTypes
    BY CountConstants DEF Threads!Init, CountTypes
<1>4. PlacesKept
    BY <1>2, CountConstants DEF Threads!Init, PlacesKept
<1>5. EndsKept
    BY <1>2, CountConstants DEF Threads!Init, EndsKept
<1>6. SumsKept
    <2>1. 1 \in Threads!Thread /\ v5[1] < Rounds
        BY CountConstants DEF Threads!Init, Threads!Thread
    <2> QED
        BY <1>2, <2>1, CountConstants DEF Threads!Init, SumsKept
<1> QED
    BY <1>3, <1>4, <1>5, <1>6 DEF CountInv

(* A thread that goes from one place to another.                           *)
LEMMA GoMoves ==
    ASSUME CountTypes, NEW t \in Threads!Thread, NEW from,
           NEW to \in {"run", "write", "inside", "wait", "end"}, Threads!Go(t, from, to)
    PROVE  /\ v2[t] = from /\ v2'[t] = to
           /\ v2' \in [Threads!Thread -> {"run", "write", "inside", "wait", "end"}]
           /\ \A u \in Threads!Thread \ {t} : v2'[u] = v2[u]
    BY DEF Threads!Go, CountTypes

(* The exercises that count up to a limit, and leave the places alone.     *)
LEMMA CountLimit ==
    ASSUME CountInv, NEW t \in Threads!Thread, Threads!CountToLimit(t)
    PROVE  CountInv'
<1>1. /\ v1 = "counter" /\ v1' = v1 /\ v4' = v4 /\ v5' = v5 /\ v6' = v6
      /\ \/ v3 > CounterLimit /\ Threads!Go(t, "run", "end") /\ v3' = v3
         \/ ~(v3 > CounterLimit) /\ Threads!Go(t, "run", "run") /\ v3' = v3 + 1
    BY DEF Threads!CountToLimit
<1>2. /\ v2[t] = "run" /\ v2'[t] \in {"run", "end"}
      /\ v2'[t] = "end" => v3 > CounterLimit
      /\ v2' \in [Threads!Thread -> {"run", "write", "inside", "wait", "end"}]
      /\ \A u \in Threads!Thread \ {t} : v2'[u] = v2[u]
    BY <1>1, GoMoves DEF CountInv
<1>3. InPlace' = InPlace
    BY <1>2 DEF InPlace
<1>4. CountTypes'
    BY <1>1, <1>2 DEF CountInv, CountTypes
<1>5. PlacesKept'
    BY <1>1, <1>2, <1>3 DEF CountInv, CountTypes, PlacesKept
<1>6. EndsKept'
    BY <1>1, <1>2, CountConstants DEF CountInv, CountTypes, EndsKept
<1>7. SumsKept'
    BY <1>1 DEF SumsKept
<1> QED
    BY <1>4, <1>5, <1>6, <1>7 DEF CountInv

(* One more round of thread t is begun.                                    *)
LEMMA OneMoreRound ==
    ASSUME CountTypes, NEW t \in Threads!Thread, v5[t] < Rounds,
           v5' = [v5 EXCEPT ![t] = @ + 1]
    PROVE  /\ v5' \in [Threads!Thread -> 0..Rounds]
           /\ v5'[t] = v5[t] + 1 /\ \A u \in Threads!Thread \ {t} : v5'[u] = v5[u]
           /\ Cardinality(Begun') = Cardinality(Begun) + 1
           /\ Cardinality(Begun) \in Nat
<1>1. /\ v5[t] \in 0..Rounds /\ v5[t] + 1 \in 1..Rounds
      /\ v5' \in [Threads!Thread -> 0..Rounds]
      /\ v5'[t] = v5[t] + 1 /\ \A u \in Threads!Thread \ {t} : v5'[u] = v5[u]
    BY CountConstants DEF CountTypes
<1> DEFINE r == <<t, v5[t] + 1>>
<1>2. r \notin Begun
    BY <1>1 DEF Begun
<1>3. Begun' = Begun \cup {r}
    <2>1. ASSUME NEW u \in Threads!Thread, NEW k \in 1..Rounds
          PROVE  k <= v5'[u] <=> (k <= v5[u] \/ <<u, k>> = r)
        BY <1>1, <2>1, CountConstants DEF CountTypes
    <2>2. r \in Threads!Thread \X (1..Rounds)
        BY <1>1
    <2> HIDE DEF r
    <2> QED
        BY <2>1, <2>2 DEF Begun
<1>4. Cardinality(Begun') = Cardinality(Begun) + 1
    BY <1>2, <1>3, CountSets, FS_AddElement
<1> QED
    BY <1>1, <1>4, CountSets

LEMMA CountRead ==
    ASSUME CountInv, NEW t \in Threads!Thread, Threads!ReadSum(t)
    PROVE  CountInv'
<1>1. /\ v1 = "multicount" /\ v1' = v1 /\ v3' = v3 /\ v6' = v6
      /\ v5[t] < Rounds /\ v5' = [v5 EXCEPT ![t] = @ + 1]
      /\ v4' = [v4 EXCEPT ![t] = v3]
      /\ Threads!Go(t, "run", "write")
    BY DEF Threads!ReadSum
<1>2. /\ v2[t] = "run" /\ v2'[t] = "write"
      /\ v2' \in [Threads!Thread -> {"run", "write", "inside", "wait", "end"}]
      /\ \A u \in Threads!Thread \ {t} : v2'[u] = v2[u]
    BY <1>1, GoMoves DEF CountInv
<1>3. /\ v5' \in [Threads!Thread -> 0..Rounds]
      /\ v5'[t] = v5[t] + 1 /\ \A u \in Threads!Thread \ {t} : v5'[u] = v5[u]
      /\ Cardinality(Begun') = Cardinality(Begun) + 1 /\ Cardinality(Begun) \in Nat
    BY <1>1, OneMoreRound DEF CountInv
<1>4. /\ v4' \in [Threads!Thread -> Nat] /\ v4'[t] = v3
      /\ \A u \in Threads!Thread \ {t} : v4'[u] = v4[u]
    BY <1>1 DEF CountInv, CountTypes
<1>5. InPlace' = InPlace
    BY <1>2 DEF InPlace
<1>6. CountTypes'
    BY <1>1, <1>2, <1>3, <1>4 DEF CountInv, CountTypes
<1>7. PlacesKept'
    BY <1>1, <1>2, <1>5 DEF CountInv, CountTypes, PlacesKept
<1>8. EndsKept'
    BY <1>1, <1>2, <1>3 DEF CountInv, EndsKept
<1>9. SumsKept'
    <2>1. v3' <= Cardinality(Begun')
        BY <1>1, <1>3 DEF CountInv, CountTypes, SumsKept
    <2>2. ASSUME NEW u \in Threads!Thread
          PROVE  /\ v2'[u] = "write" => v5'[u] >= 1 /\ v4'[u] + 1 <= Cardinality(Begun')
                 /\ v2'[u] = "write" /\ v5'[u] >= 2 => v4'[u] >= 1
                 /\ v5'[u] >= 2 \/ (v5'[u] = 1 /\ v2'[u] # "write") => v3' >= 1
        <3>1. /\ v3 \in Nat /\ v4[u] \in Nat /\ v5[u] \in 0..Rounds
              /\ v3 <= Cardinality(Begun)
              /\ v2[u] = "write" => v5[u] >= 1 /\ v4[u] + 1 <= Cardinality(Begun)
              /\ v2[u] = "write" /\ v5[u] >= 2 => v4[u] >= 1
              /\ v5[u] >= 2 \/ (v5[u] = 1 /\ v2[u] # "write") => v3 >= 1
            BY <1>1 DEF CountInv, CountTypes, SumsKept
        <3>2. CASE u = t
            BY <1>1, <1>2, <1>3, <1>4, <3>1, <3>2
        <3>3. CASE u # t
            BY <1>1, <1>2, <1>3, <1>4, <3>1, <3>3
        <3> QED
            BY <3>2, <3>3
    <2> QED
        BY <1>1, <1>2, <2>1, <2>2 DEF SumsKept
<1> QED
    BY <1>6, <1>7, <1>8, <1>9 DEF CountInv

LEMMA CountWrite ==
    ASSUME CountInv, NEW t \in Threads!Thread, Threads!WriteSum(t)
    PROVE  CountInv'
<1>1. /\ v1' = v1 /\ v4' = v4 /\ v5' = v5 /\ v6' = v6 /\ v3' = v4[t] + 1
      /\ Threads!Go(t, "write", "run")
    BY DEF Threads!WriteSum
<1>2. /\ v2[t] = "write" /\ v2'[t] = "run"
      /\ v2' \in [Threads!Thread -> {"run", "write", "inside", "wait", "end"}]
      /\ \A u \in Threads!Thread \ {t} : v2'[u] = v2[u]
    BY <1>1, GoMoves DEF CountInv
<1>3. v1 = "multicount" /\ v3' \in Nat
    BY <1>1, <1>2 DEF CountInv, CountTypes
<1>4. InPlace' = InPlace /\ Begun' = Begun
    BY <1>1, <1>2 DEF InPlace, Begun
<1>5. CountTypes'
    BY <1>1, <1>2, <1>3 DEF CountInv, CountTypes
<1>6. PlacesKept'
    BY <1>1, <1>2, <1>4 DEF CountInv, CountTypes, PlacesKept
<1>7. EndsKept'
    BY <1>1, <1>2, <1>3 DEF CountInv, EndsKept
<1>8. SumsKept'
    <2>1. /\ v4[t] \in Nat /\ v5[t] \in 1..Rounds /\ v4[t] + 1 <= Cardinality(Begun)
          /\ v5[t] >= 2 => v4[t] >= 1
        BY <1>2, <1>3, CountConstants DEF CountInv, CountTypes, SumsKept
    <2>2. v3' <= Cardinality(Begun') /\ v3' >= 1
        BY <1>1, <1>4, <2>1
    <2>3. ASSUME NEW u \in Threads!Thread
          PROVE  /\ v2'[u] = "write" => v5'[u] >= 1 /\ v4'[u] + 1 <= Cardinality(Begun')
                 /\ v2'[u] = "write" /\ v5'[u] >= 2 => v4'[u] >= 1
        BY <1>1, <1>2, <1>3, <1>4 DEF CountInv, SumsKept
    <2>4. v3' >= 2 \/ v5'[t] < Rounds
        BY <1>1, <2>1, CountConstants
    <2> QED
        BY <1>1, <1>3, <2>2, <2>3, <2>4 DEF SumsKept
<1> QED
    BY <1>5, <1>6, <1>7, <1>8 DEF CountInv

LEMMA CountAdd ==
    ASSUME CountInv, NEW t \in Threads!Thread, Threads!AddToSum(t)
    PROVE  CountInv'
<1>1. /\ v1 = "multicountsafe" /\ v1' = v1 /\ v3' = v3 + 1 /\ v4' = v4 /\ v6' = v6
      /\ v5[t] < Rounds /\ v5' = [v5 EXCEPT ![t] = @ + 1]
      /\ Threads!Go(t, "run", "run")
    BY DEF Threads!AddToSum
<1>2. /\ v2[t] = "run" /\ v2'[t] = "run"
      /\ v2' \in [Threads!Thread -> {"run", "write", "inside", "wait", "end"}]
      /\ \A u \in Threads!Thread \ {t} : v2'[u] = v2[u]
    BY <1>1, GoMoves DEF CountInv
<1>3. /\ v5' \in [Threads!Thread -> 0..Rounds]
      /\ v5'[t] = v5[t] + 1 /\ \A u \in Threads!Thread \ {t} : v5'[u] = v5[u]
      /\ Cardinality(Begun') = Cardinality(Begun) + 1
    BY <1>1, OneMoreRound DEF CountInv
<1>4. InPlace' = InPlace
    BY <1>2 DEF InPlace
<1>5. CountTypes'
    BY <1>1, <1>2, <1>3 DEF CountInv, CountTypes
<1>6. PlacesKept'
    BY <1>1, <1>2, <1>4 DEF CountInv, CountTypes, PlacesKept
<1>7. EndsKept'
    BY <1>1, <1>2, <1>3 DEF CountInv, EndsKept
<1>8. SumsKept'
    BY <1>1, <1>3 DEF CountInv, SumsKept
<1> QED
    BY <1>5, <1>6, <1>7, <1>8 DEF CountInv

LEMMA CountEnd ==
    ASSUME CountInv, NEW t \in Threads!Thread, Threads!EndOfRounds(t)
    PROVE  CountInv'
<1>1. /\ v1 \in {"multicount", "multicountsafe"} /\ v5[t] = Rounds
      /\ v1' = v1 /\ v3' = v3 /\ v4' = v4 /\ v5' = v5 /\ v6' = v6
      /\ Threads!Go(t, "run", "end")
    BY DEF Threads!EndOfRounds
<1>2. /\ v2[t] = "run" /\ v2'[t] = "end"
      /\ v2' \in [Threads!Thread -> {"run", "write", "inside", "wait", "end"}]
      /\ \A u \in Threads!Thread \ {t} : v2'[u] = v2[u]
    BY <1>1, GoMoves DEF CountInv
<1>3. InPlace' = InPlace /\ Begun' = Begun
    BY <1>1, <1>2 DEF InPlace, Begun
<1>4. CountTypes'
    BY <1>1, <1>2 DEF CountInv, CountTypes
<1>5. PlacesKept'
    BY <1>1, <1>2, <1>3 DEF CountInv, CountTypes, PlacesKept
<1>6. EndsKept'
    BY <1>1, <1>2 DEF CountInv, EndsKept
<1>7. SumsKept'
    <2>1. ASSUME NEW u \in Threads!Thread
          PROVE  /\ v2'[u] = "write" <=> v2[u] = "write"
                 /\ v5'[u] = v5[u]
        BY <1>1, <1>2
    <2> QED
        BY <1>1, <1>3, <2>1 DEF CountInv, SumsKept
<1> QED
    BY <1>4, <1>5, <1>6, <1>7 DEF CountInv

(* A thread that takes a place, or waits for one.                          *)
LEMMA CountEnter ==
    ASSUME CountInv, NEW t \in Threads!Thread, Threads!TakePlace(t)
    PROVE  CountInv'
<1>1. /\ v1 \in {"sem", "condvar"}
      /\ v1' = v1 /\ v3' = v3 /\ v4' = v4 /\ v5' = v5
      /\ \/ v6 > 0 /\ Threads!Go(t, "run", "inside") /\ v6' = v6 - 1
         \/ ~(v6 > 0) /\ v1 = "condvar" /\ Threads!Go(t, "run", "wait") /\ v6' = v6
    BY DEF Threads!TakePlace, Threads!Enter
<1>2. /\ v2[t] = "run" /\ v2'[t] \in {"inside", "wait"}
      /\ v2'[t] = "inside" <=> v6 > 0
      /\ v2'[t] = "wait" => v1 = "condvar"
      /\ v2' \in [Threads!Thread -> {"run", "write", "inside", "wait", "end"}]
      /\ \A u \in Threads!Thread \ {t} : v2'[u] = v2[u]
    BY <1>1, GoMoves DEF CountInv
<1>3. v6 \in Nat /\ v6' \in Nat /\ v6' = IF v6 > 0 THEN v6 - 1 ELSE 0
    BY <1>1 DEF CountInv, CountTypes
<1>4. CountTypes'
    BY <1>1, <1>2, <1>3 DEF CountInv, CountTypes
<1>5. PlacesKept'
    <2>1. CASE v6 > 0
        <3>1. InPlace' = InPlace \cup {t} /\ t \notin InPlace
            BY <1>2, <2>1 DEF InPlace
        <3>2. Cardinality(InPlace') = Cardinality(InPlace) + 1
            BY <3>1, CountSets, FS_AddElement
        <3> QED
            BY <1>2, <1>3, <2>1, <3>2, CountSets, CountConstants DEF CountInv, PlacesKept
    <2>2. CASE ~(v6 > 0)
        <3>1. InPlace' = InPlace
            BY <1>2, <2>2 DEF InPlace
        <3> QED
            BY <1>2, <1>3, <2>2, <3>1 DEF CountInv, PlacesKept
    <2> QED
        BY <2>1, <2>2
<1>6. EndsKept'
    BY <1>1, <1>2 DEF CountInv, EndsKept
<1>7. SumsKept'
    BY <1>1 DEF CountInv, SumsKept
<1> QED
    BY <1>4, <1>5, <1>6, <1>7 DEF CountInv

LEMMA CountPost ==
    ASSUME CountInv, NEW t \in Threads!Thread, Threads!PostSem(t)
    PROVE  CountInv'
<1>1. /\ v1 = "sem" /\ v6' = v6 + 1
      /\ v1' = v1 /\ v3' = v3 /\ v4' = v4 /\ v5' = v5
      /\ Threads!Go(t, "inside", "run")
    BY DEF Threads!PostSem
<1>2. /\ v2[t] = "inside" /\ v2'[t] = "run"
      /\ v2' \in [Threads!Thread -> {"run", "write", "inside", "wait", "end"}]
      /\ \A u \in Threads!Thread \ {t} : v2'[u] = v2[u]
    BY <1>1, GoMoves DEF CountInv
<1>3. Cardinality(InPlace') = Cardinality(InPlace) - 1
    <2>1. InPlace' = InPlace \ {t} /\ t \in InPlace
        BY <1>2 DEF InPlace
    <2> QED
        BY <2>1, CountSets, FS_RemoveElement
<1>4. CountTypes'
    BY <1>1, <1>2 DEF CountInv, CountTypes
<1>5. PlacesKept'
    BY <1>1, <1>2, <1>3, CountSets DEF CountInv, CountTypes, PlacesKept
<1>6. EndsKept'
    BY <1>1, <1>2 DEF CountInv, EndsKept
<1>7. SumsKept'
    BY <1>1 DEF CountInv, SumsKept
<1> QED
    BY <1>4, <1>5, <1>6, <1>7 DEF CountInv

(* A thread that leaves its place wakes one that waits, if there is one.   *)
LEMMA CountLeave ==
    ASSUME CountInv, NEW t \in Threads!Thread, Threads!LeaveAndCount(t)
    PROVE  CountInv'
<1> DEFINE to == IF v3 > CounterLimit THEN "end" ELSE "run"
           sleepers == {u \in Threads!Thread : v2[u] = "wait"}
<1>1. /\ v1 = "condvar" /\ v2[t] = "inside" /\ v6' = v6 + 1
      /\ v1' = v1 /\ v4' = v4 /\ v5' = v5
      /\ v3' = IF v3 > CounterLimit THEN v3 ELSE v3 + 1
      /\ \E woken \in Threads!Signalled(v2, Threads!Thread, "run") :
            v2' = [woken EXCEPT ![t] = to]
    BY DEF Threads!LeaveAndCount
<1>2. /\ v2'[t] = to
      /\ v2' \in [Threads!Thread -> {"run", "write", "inside", "wait", "end"}]
      /\ \A u \in Threads!Thread \ {t} :
            v2'[u] = v2[u] \/ (v2[u] = "wait" /\ v2'[u] = "run")
      /\ (\E u \in Threads!Thread : v2'[u] = "wait")
            => \E u \in Threads!Thread : v2'[u] = "run"
    <2>1. v2 \in [Threads!Thread -> {"run", "write", "inside", "wait", "end"}]
        BY DEF CountInv, CountTypes
    <2>2. CASE sleepers = {}
        <3>1. v2' = [v2 EXCEPT ![t] = to]
            BY <1>1, <2>2 DEF Threads!Signalled
        <3> QED
            BY <2>1, <2>2, <3>1
    <2>3. CASE sleepers # {}
        <3>0. Threads!Signalled(v2, Threads!Thread, "run")
                  = {[v2 EXCEPT ![s] = "run"] : s \in sleepers}
            BY <2>3 DEF Threads!Signalled
        <3>1. PICK s \in sleepers : v2' = [[v2 EXCEPT ![s] = "run"] EXCEPT ![t] = to]
            BY <1>1, <3>0
        <3>2. s # t /\ s \in Threads!Thread /\ v2[s] = "wait"
            BY <1>1, <3>1
        <3>3. v2'[s] = "run" /\ v2'[t] = to
              /\ \A u \in Threads!Thread \ {s, t} : v2'[u] = v2[u]
            BY <2>1, <3>1, <3>2
        <3> QED
            BY <2>1, <3>1, <3>2, <3>3
    <2> QED
        BY <2>2, <2>3
<1>3. Cardinality(InPlace') = Cardinality(InPlace) - 1
    <2>1. InPlace' = InPlace \ {t} /\ t \in InPlace
        BY <1>1, <1>2 DEF InPlace
    <2> QED
        BY <2>1, CountSets, FS_RemoveElement
<1>4. CountTypes'
    BY <1>1, <1>2 DEF CountInv, CountTypes
<1>5. PlacesKept'
    BY <1>1, <1>2, <1>3, CountSets DEF CountInv, CountTypes, PlacesKept
<1>6. EndsKept'
    BY <1>1, <1>2, CountConstants DEF CountInv, CountTypes, EndsKept
<1>7. SumsKept'
    BY <1>1 DEF CountInv, SumsKept
<1> QED
    BY <1>4, <1>5, <1>6, <1>7 DEF CountInv

LEMMA CountWake ==
    ASSUME CountInv, NEW t \in Threads!Thread, Threads!SpuriousWake(t)
    PROVE  CountInv'
<1>1. /\ v1' = v1 /\ v3' = v3 /\ v4' = v4 /\ v5' = v5 /\ v6' = v6
      /\ Threads!Go(t, "wait", "run")
    BY DEF Threads!SpuriousWake
<1>2. /\ v2[t] = "wait" /\ v2'[t] = "run" /\ v1 = "condvar"
      /\ v2' \in [Threads!Thread -> {"run", "write", "inside", "wait", "end"}]
      /\ \A u \in Threads!Thread \ {t} : v2'[u] = v2[u]
    BY <1>1, GoMoves DEF CountInv, CountTypes
<1>3. InPlace' = InPlace
    BY <1>2 DEF InPlace
<1>4. CountTypes'
    BY <1>1, <1>2 DEF CountInv, CountTypes
<1>5. PlacesKept'
    BY <1>1, <1>2, <1>3 DEF CountInv, PlacesKept
<1>6. EndsKept'
    BY <1>1, <1>2 DEF CountInv, EndsKept
<1>7. SumsKept'
    BY <1>1, <1>2 DEF CountInv, SumsKept
<1> QED
    BY <1>4, <1>5, <1>6, <1>7 DEF CountInv

LEMMA CountNext ==
    ASSUME CountInv, Threads!Next \/ UNCHANGED Threads!vars
    PROVE  CountInv'
<1>1. CASE \E t \in Threads!Thread : Threads!Step(t) \/ Threads!SpuriousWake(t)
    BY <1>1, CountLimit, CountRead, CountWrite, CountAdd, CountEnd, CountEnter, CountPost,
       CountLeave, CountWake DEF Threads!Step
<1>2. CASE UNCHANGED Threads!vars
    <2>1. /\ v1' = v1 /\ v2' = v2 /\ v3' = v3 /\ v4' = v4 /\ v5' = v5 /\ v6' = v6
          /\ InPlace' = InPlace /\ Begun' = Begun
        BY <1>2 DEF Threads!vars, InPlace, Begun
    <2> QED
        BY <2>1 DEF CountInv, CountTypes, PlacesKept, EndsKept, SumsKept
<1> QED
    BY <1>1, <1>2 DEF Threads!Next

LEMMA CountsRight ==
    ASSUME CountInv
    PROVE  Threads!CountsAreRight
<1>1. 1 \in Threads!Thread
    BY CountConstants DEF Threads!Thread
<1>2. /\ Places - v6 = Cardinality({t \in Threads!Thread : v2[t] = "inside"}) /\ v6 >= 0
      /\ (v6 > 0 /\ \E t \in Threads!Thread : v2[t] = "wait")
             => \E t \in Threads!Thread : v2[t] \in {"run", "inside"}
    <2>1. InPlace = {t \in Threads!Thread : v2[t] = "inside"}
        BY DEF InPlace
    <2> QED
        BY <2>1, CountConstants, CountSets DEF CountInv, CountTypes, PlacesKept
<1>3. Threads!Finished /\ v1 \in {"counter", "condvar"} => v3 = CounterLimit + 1
    BY <1>1 DEF CountInv, EndsKept, Threads!Finished
<1>4. Threads!Finished /\ v1 \in {"multicount", "multicountsafe"}
          => \A t \in Threads!Thread : v5[t] = Rounds /\ v2[t] # "write"
    BY DEF CountInv, EndsKept, Threads!Finished
<1>5. Threads!Finished /\ v1 = "multicountsafe" => v3 = NUM_THREADS * Rounds
    <2> HAVE Threads!Finished /\ v1 = "multicountsafe"
    <2>1. Begun = Threads!Thread \X (1..Rounds)
        BY <1>4, CountConstants DEF Begun
    <2> QED
        BY <2>1, CountSets DEF CountInv, SumsKept
<1>6. Threads!Finished /\ v1 = "multicount" => v3 \in 2..(NUM_THREADS * Rounds)
    <2> HAVE Threads!Finished /\ v1 = "multicount"
    <2>1. v3 >= 2
        BY <1>4, CountConstants DEF CountInv, SumsKept
    <2>2. v3 <= Cardinality(Begun) /\ v3 \in Nat
        BY DEF CountInv, CountTypes, SumsKept
    <2>3. NUM_THREADS * Rounds \in Nat
        BY CountConstants
    <2> QED
        BY <2>1, <2>2, <2>3, CountSets
<1> QED
    BY <1>2, <1>3, <1>5, <1>6, Zenon DEF Threads!CountsAreRight, Threads!Cardinality, Cardinality
-----------------------------------------------------------------------------
(* One of the programs runs, and it stays the same one.                    *)

LEMMA SameProgram ==
    ASSUME [Next]_vars
    PROVE  program' = program
    BY DEF Next, Step, Milestone3Step, Others, Accidents, vars,
           After2, After4, After5, After6, After8, After9, After10

QueueInv == program = "buffer" => BufferInv

LEMMA QueueNext ==
    ASSUME QueueInv, [Next]_vars
    PROVE  QueueInv' /\ (program = "buffer" => QueueStep)
<1>1. program' = program
    BY SameProgram
<1>2. ASSUME program = "buffer" PROVE BufferInv' /\ QueueStep
    <2>1. BufferInv /\ BUFFER_SIZE \in Nat \ {0}
        BY <1>2, ProgramsAssumption DEF QueueInv, ProgramsAssumption
    <2>2. CASE UNCHANGED vars
        <3>1. UNCHANGED Buffer!vars
            BY <2>2 DEF vars, Buffer!vars
        <3> QED
            BY <2>1, <3>1, BufferNext
    <2>3. CASE Next
        <3>1. (\E t \in 0..4 : Buffer!Step(t)) \/ \E t \in DOMAIN v2 : Buffer!SpuriousWake(t)
            BY <1>2, <2>3 DEF Next, Step, Milestone3Step, Others, Accidents
        <3>2. Buffer!Next
            BY <3>1 DEF Buffer!Next, Buffer!Step
        <3> QED
            BY <2>1, <3>2, BufferNext
    <2> QED
        BY <2>2, <2>3
<1> QED
    BY <1>1, <1>2 DEF QueueInv

(* Whatever the size of the buffer and the number of items, and in each of *)
(* the three programs: the items are taken in the order in which they were *)
(* put, each of them once, and never more of them are on the way than fit. *)
THEOREM QueueCorrect == Safety => ConsumersShareTheQueue
<1> DEFINE Typed == program = "buffer" => Buffer!TypeOK
           Stepped == program = "buffer" => QueueStep
<1>1. Init => QueueInv /\ (program = "buffer" => Buffer!Queue!Init)
    <2> SUFFICES ASSUME Init, program = "buffer" PROVE BufferInv /\ Buffer!Queue!Init
        BY DEF QueueInv
    <2>1. Buffer!Init
        BY DEF Init
    <2> QED
        BY <2>1, BufferInit, ProgramsAssumption DEF ProgramsAssumption
<1>2. QueueInv /\ [Next]_vars => QueueInv'
    BY QueueNext
<1>3. QueueInv => Typed
    BY DEF QueueInv, BufferInv
<1>4. QueueInv /\ [Next]_vars => [Stepped]_vars
    BY QueueNext
<1>5. Safety => []Typed
    BY <1>1, <1>2, <1>3, PTL DEF Safety
<1>6. Safety => [][Stepped]_vars
    BY <1>1, <1>2, <1>4, PTL DEF Safety
<1>7. Safety => (program = "buffer" => Buffer!Queue!Init)
    BY <1>1 DEF Safety
<1> QED
    BY <1>5, <1>6, <1>7 DEF ConsumersShareTheQueue, QueueStep

SyncInv ==
    /\ program = "barrier" => BarrierInv
    /\ program = "philosophers" => TableInv
    /\ program = "threads" => CountInv

LEMMA SyncNext ==
    ASSUME SyncInv, [Next]_vars
    PROVE  SyncInv'
<1>1. program' = program
    BY SameProgram
<1>2. ASSUME program = "barrier" PROVE BarrierInv'
    <2>1. BarrierInv /\ NumWorkers \in Nat \ {0}
        BY <1>2, ProgramsAssumption DEF SyncInv, ProgramsAssumption
    <2>2. CASE UNCHANGED vars
        <3>1. UNCHANGED Barrier!vars
            BY <2>2 DEF vars, Barrier!vars
        <3> QED
            BY <2>1, <3>1, BarrierNext
    <2>3. CASE Next
        <3>1. (\E t \in 0..4 : Barrier!Step(t)) \/ \E w \in 1..NumWorkers : Barrier!SpuriousWake(w)
            BY <1>2, <2>3 DEF Next, Step, Milestone3Step, Others, Accidents
        <3>2. \A t : Barrier!Step(t) => t \in DOMAIN v3
            BY <2>1 DEF Barrier!Step, BarrierInv, Barrier!TypeOK, Barrier!Worker
        <3>3. Barrier!Next
            BY <3>1, <3>2 DEF Barrier!Next, Barrier!Worker
        <3> QED
            BY <2>1, <3>3, BarrierNext
    <2> QED
        BY <2>2, <2>3
<1>3. ASSUME program = "philosophers" PROVE TableInv'
    <2>1. TableInv /\ N_PHILOSOPHERS \in Nat /\ N_PHILOSOPHERS >= 2
        BY <1>3, ProgramsAssumption DEF SyncInv, ProgramsAssumption
    <2>2. Philosophers!Next \/ UNCHANGED Philosophers!vars
        BY <1>3 DEF Next, Step, Milestone3Step, Others, Accidents, vars, Philosophers!vars
    <2> QED
        BY <2>1, <2>2, TableNext
<1>4. ASSUME program = "threads" PROVE CountInv'
    <2>1. CountInv
        BY <1>4 DEF SyncInv
    <2>2. CASE UNCHANGED vars
        <3>1. UNCHANGED Threads!vars
            BY <2>2 DEF vars, Threads!vars
        <3> QED
            BY <2>1, <3>1, CountNext
    <2>3. CASE Next
        <3>1. \/ \E t \in 0..4 : Threads!Step(t)
              \/ \E t \in 1..NUM_THREADS : Threads!SpuriousWake(t)
            BY <1>4, <2>3 DEF Next, Step, Milestone3Step, Others, Accidents
        <3>2. Threads!Next
            BY <3>1 DEF Threads!Next, Threads!Step, Threads!Thread
        <3> QED
            BY <2>1, <3>2, CountNext
    <2> QED
        BY <2>2, <2>3
<1> QED
    BY <1>1, <1>2, <1>3, <1>4 DEF SyncInv

(* Nobody leaves the barrier before all have arrived, at whatever number   *)
(* of workers, and while anybody who may go is asleep another one is awake *)
(* to wake him.  At a table of any size from two on neighbours never eat   *)
(* together and nobody stays hungry between two who do not eat.  Whatever  *)
(* the number of threads, rounds and places, the places add up, and so do  *)
(* the counters.                                                           *)
THEOREM SynchronisationCorrect == Safety => []ThreadsSynchronise
<1>1. Init => SyncInv
    <2> SUFFICES ASSUME Init PROVE SyncInv
        OBVIOUS
    <2>1. program = "barrier" => Barrier!Init
        BY DEF Init
    <2>2. program = "philosophers" => Philosophers!Init
        BY DEF Init
    <2>3. program = "threads" => Threads!Init
        BY DEF Init
    <2> QED
        BY <2>1, <2>2, <2>3, BarrierInit, TableInit, CountInit, ProgramsAssumption
           DEF SyncInv, ProgramsAssumption
<1>2. SyncInv /\ [Next]_vars => SyncInv'
    BY SyncNext
<1>3. SyncInv => ThreadsSynchronise
    BY CountsRight DEF SyncInv, ThreadsSynchronise, BarrierInv, TableInv
<1> QED
    BY <1>1, <1>2, <1>3, PTL DEF Safety
-----------------------------------------------------------------------------
(* The test servers: v1 is kind, v2 main, v3 conn_counter, v4 peer, v5     *)
(* sent, v6 read, v7 handler, v8 result, v9 printed and v10 open.          *)

Served == {c \in Client : v7[c] # "none"}
Busy   == {c \in Served : v7[c] # "end"}

(* Clients are counted when they are accepted, as long as there is room;   *)
(* the sequential server has one of them in hand in its loop, else none.   *)
ClientsCounted ==
    /\ v3 = Cardinality(Served)
    /\ v2 = "open" => v10 = {} /\ v3 = 0
    /\ v2 \in {"open", "accept"} => v3 < MAX_CONN
    /\ v2 \in {"close", "returned"} => v3 = MAX_CONN
    /\ v1 = "threads" => v2 # "serve"
    /\ v1 = "sequential" => IF v2 = "serve" THEN \E c \in Served : Busy = {c} ELSE Busy = {}

(* What the descriptor of a client is at each place of its handler.        *)
DescriptorKept(c) ==
    /\ v4[c] = "none" => v7[c] = "none" /\ v5[c] = 0
    /\ v7[c] = "none" => c \notin v10
    /\ v7[c] \notin {"none", "end"} => c \in v10
    /\ v7[c] \in {"close", "end"} => v4[c] \in {"closed", "reset"}
    /\ v7[c] = "end" /\ v4[c] = "closed" => c \notin v10

(* Where the handler is in the record it reads; the fields it misses are   *)
(* those that will not arrive.                                             *)
FieldsCounted(c) ==
    /\ v6[c] <= v5[c]
    /\ 3 * v9[c] <= v6[c]
    /\ v7[c] = "none" => v9[c] = 0 /\ v6[c] = 0
    /\ v7[c] \in {"id", "value", "ts"} =>
          LET place == CASE v7[c] = "id" -> 0 [] v7[c] = "value" -> 1 [] OTHER -> 2
          IN  \/ v6[c] = 3 * v9[c] + place
              \/ /\ v6[c] = v5[c] /\ v4[c] \in {"closed", "reset"}
                 /\ v6[c] < 3 * v9[c] + place
    /\ v7[c] \in {"close", "end"} => v6[c] = v5[c] /\ v6[c] <= 3 * v9[c] + 2

ServerInv ==
    /\ Server!TypeOK /\ ClientsCounted
    /\ \A c \in Client : DescriptorKept(c) /\ FieldsCounted(c)

LEMMA ServerConstants ==
    /\ MAX_CONN \in Nat /\ MAX_CONN >= 1 /\ MaxFields \in Nat
    /\ IsFiniteSet(Client) /\ "server" \notin Client
    BY ProgramsAssumption DEF ProgramsAssumption

LEMMA ServerInit ==
    ASSUME Server!Init
    PROVE  ServerInv
<1>1. Served = {}
    BY DEF Server!Init, Served
<1>2. Server!TypeOK
    BY ServerConstants DEF Server!Init, Server!TypeOK
<1>3. ClientsCounted
    BY <1>1, ServerConstants, FS_EmptySet DEF Server!Init, ClientsCounted, Busy
<1>4. \A c \in Client : DescriptorKept(c) /\ FieldsCounted(c)
    BY DEF Server!Init, DescriptorKept, FieldsCounted
<1> QED
    BY <1>2, <1>3, <1>4 DEF ServerInv

(* Every client is served at most once.                                    *)
LEMMA ServedCount ==
    ASSUME NEW S \in SUBSET Client, NEW c \in Client
    PROVE  /\ Cardinality(S) \in Nat
           /\ c \notin S => Cardinality(S \cup {c}) = Cardinality(S) + 1
<1>1. IsFiniteSet(S)
    BY ServerConstants, FS_Subset
<1> QED
    BY <1>1, FS_CardinalityType, FS_AddElement

(* A step that neither accepts nor ends a client keeps the counts.         *)
LEMMA CountsStay ==
    ASSUME ClientsCounted, v1' = v1, v2' = v2, v3' = v3, Served' = Served, Busy' = Busy,
           v2 = "open" => v10' = v10
    PROVE  ClientsCounted'
    BY DEF ClientsCounted

LEMMA SensorStep ==
    ASSUME ServerInv, NEW c \in Client,
           Server!tcp_active_open(c) \/ Server!tcp_send(c) \/ Server!Disconnect(c)
    PROVE  ServerInv'
<1>1. /\ Server!TypeOK /\ ClientsCounted
      /\ \A d \in Client : DescriptorKept(d) /\ FieldsCounted(d)
    BY DEF ServerInv
<1>2. v1' = v1 /\ v2' = v2 /\ v3' = v3 /\ v7' = v7 /\ v8' = v8 /\ v9' = v9 /\ v10' = v10
    BY DEF Server!tcp_active_open, Server!tcp_send, Server!Disconnect, Server!serving
<1>3. ClientsCounted'
    <2>1. Served' = Served /\ Busy' = Busy
        BY <1>2 DEF Served, Busy
    <2> QED
        BY <1>1, <1>2, <2>1, CountsStay
<1>4. CASE Server!tcp_active_open(c)
    <2>1. v4[c] = "none" /\ v4' = [v4 EXCEPT ![c] = "connected"] /\ v5' = v5 /\ v6' = v6
        BY <1>4 DEF Server!tcp_active_open, Server!serving
    <2>2. Server!TypeOK'
        BY <1>1, <1>2, <2>1 DEF Server!TypeOK
    <2>3. \A d \in Client : DescriptorKept(d)' /\ FieldsCounted(d)'
        BY <1>1, <1>2, <2>1 DEF DescriptorKept, FieldsCounted, Server!TypeOK
    <2> QED
        BY <1>3, <2>2, <2>3 DEF ServerInv
<1>5. CASE Server!tcp_send(c)
    <2>1. v4[c] = "connected" /\ v5[c] < MaxFields /\ v5' = [v5 EXCEPT ![c] = @ + 1]
          /\ v4' = v4 /\ v6' = v6
        BY <1>5 DEF Server!tcp_send, Server!serving
    <2>2. Server!TypeOK'
        BY <1>1, <1>2, <2>1, ServerConstants DEF Server!TypeOK
    <2>3. \A d \in Client : DescriptorKept(d)' /\ FieldsCounted(d)'
        BY <1>1, <1>2, <2>1 DEF DescriptorKept, FieldsCounted, Server!TypeOK
    <2> QED
        BY <1>3, <2>2, <2>3 DEF ServerInv
<1>6. CASE Server!Disconnect(c)
    <2>0. /\ v4[c] = "connected" /\ v6' = v6
          /\ \/ v4' = [v4 EXCEPT ![c] = "closed"] /\ v5' = v5
             \/ /\ v4' = [v4 EXCEPT ![c] = "reset"]
                /\ \E n \in v6[c]..v5[c] : v5' = [v5 EXCEPT ![c] = n]
        BY <1>6 DEF Server!Disconnect, Server!serving
    <2>1. PICK n : /\ n \in v6[c]..v5[c] /\ v4[c] = "connected" /\ v6' = v6
                   /\ v5' = [v5 EXCEPT ![c] = n]
                   /\ \/ v4' = [v4 EXCEPT ![c] = "closed"] /\ n = v5[c]
                      \/ v4' = [v4 EXCEPT ![c] = "reset"]
        <3>1. CASE v4' = [v4 EXCEPT ![c] = "closed"] /\ v5' = v5
            <4>1. v5' = [v5 EXCEPT ![c] = v5[c]]
                BY <1>1, <3>1 DEF Server!TypeOK
            <4>2. v5[c] \in v6[c]..v5[c]
                BY <1>1, ServerConstants DEF FieldsCounted, Server!TypeOK
            <4> QED
                BY <2>0, <3>1, <4>1, <4>2
        <3>2. CASE /\ v4' = [v4 EXCEPT ![c] = "reset"]
                   /\ \E n \in v6[c]..v5[c] : v5' = [v5 EXCEPT ![c] = n]
            BY <2>0, <3>2
        <3> QED
            BY <2>0, <3>1, <3>2
    <2>2. Server!TypeOK'
        BY <1>1, <1>2, <2>1, ServerConstants DEF Server!TypeOK
    <2>3. \A d \in Client : DescriptorKept(d)'
        BY <1>1, <1>2, <2>1 DEF DescriptorKept, Server!TypeOK
    <2>4. \A d \in Client : FieldsCounted(d)'
        BY <1>1, <1>2, <2>1 DEF DescriptorKept, FieldsCounted, Server!TypeOK
    <2> QED
        BY <1>3, <2>2, <2>3, <2>4 DEF ServerInv
<1> QED
    BY <1>4, <1>5, <1>6

LEMMA ServerMain ==
    ASSUME ServerInv,
           Server!tcp_passive_open \/ Server!AcceptFails \/ Server!CloseServer
    PROVE  ServerInv'
<1>1. /\ Server!TypeOK /\ ClientsCounted
      /\ \A d \in Client : DescriptorKept(d) /\ FieldsCounted(d)
    BY DEF ServerInv
<1>2. /\ v1' = v1 /\ v3' = v3 /\ v4' = v4 /\ v5' = v5 /\ v6' = v6 /\ v7' = v7 /\ v8' = v8
      /\ v9' = v9
    BY DEF Server!tcp_passive_open, Server!AcceptFails, Server!CloseServer, Server!sensors,
           Server!serving
<1>3. Served' = Served /\ Busy' = Busy
    BY <1>2 DEF Served, Busy
<1>4. \/ v2 = "open" /\ v2' = "accept" /\ v10' = {"server"}
      \/ v2 \in {"open", "accept"} /\ v2' = "exited" /\ v10' = v10
      \/ v2 = "close" /\ v2' = "returned" /\ v10' = v10 \ {"server"}
    BY DEF Server!tcp_passive_open, Server!AcceptFails, Server!CloseServer
<1>5. Server!TypeOK'
    BY <1>1, <1>2, <1>4 DEF Server!TypeOK
<1>6. ClientsCounted'
    BY <1>1, <1>2, <1>3, <1>4 DEF ClientsCounted
<1>7. \A d \in Client : d \in v10' <=> d \in v10
    BY <1>1, <1>4, ServerConstants DEF ClientsCounted
<1>8. \A d \in Client : DescriptorKept(d)' /\ FieldsCounted(d)'
    BY <1>1, <1>2, <1>7 DEF DescriptorKept, FieldsCounted
<1> QED
    BY <1>5, <1>6, <1>8 DEF ServerInv

LEMMA ServerAccept ==
    ASSUME ServerInv, NEW c \in Client, Server!Accept(c)
    PROVE  ServerInv'
<1>1. /\ Server!TypeOK /\ ClientsCounted
      /\ \A d \in Client : DescriptorKept(d) /\ FieldsCounted(d)
    BY DEF ServerInv
<1>2. /\ v2 = "accept" /\ v4[c] # "none" /\ v7[c] = "none"
      /\ v10' = v10 \cup {c} /\ v7' = [v7 EXCEPT ![c] = "id"] /\ v3' = v3 + 1
      /\ v2' = IF v1 = "sequential" THEN "serve"
               ELSE IF v3' < MAX_CONN THEN "accept" ELSE "close"
      /\ v1' = v1 /\ v4' = v4 /\ v5' = v5 /\ v6' = v6 /\ v8' = v8 /\ v9' = v9
    BY DEF Server!Accept, Server!sensors
<1>3. v3 \in Nat /\ v3 < MAX_CONN
    BY <1>1, <1>2, ServerConstants DEF ClientsCounted, Server!TypeOK
<1>4. Server!TypeOK'
    BY <1>1, <1>2, <1>3, ServerConstants DEF Server!TypeOK
<1>5. Served' = Served \cup {c} /\ c \notin Served
    BY <1>1, <1>2 DEF Served, Server!TypeOK
<1>6. Busy' = Busy \cup {c}
    BY <1>1, <1>2, <1>5 DEF Busy, Served, Server!TypeOK
<1>7. v3' = Cardinality(Served')
    <2>1. Served \in SUBSET Client
        BY DEF Served
    <2> QED
        BY <1>1, <1>2, <1>5, <2>1, ServedCount DEF ClientsCounted
<1>8. ClientsCounted'
    <2>1. v1 = "sequential" => v2' = "serve" /\ Busy' = {c} /\ c \in Served'
        BY <1>1, <1>2, <1>5, <1>6 DEF ClientsCounted
    <2>2. v1 \in {"threads", "sequential"}
        BY <1>1 DEF Server!TypeOK
    <2>3. /\ v1 = "threads" => v2' \in {"accept", "close"}
          /\ v2' = "accept" => v3' < MAX_CONN
          /\ v2' = "close" => v3' = MAX_CONN
          /\ v2' \in {"serve", "accept", "close"}
        BY <1>2, <1>3, <2>2, ServerConstants
    <2> QED
        BY <1>2, <1>7, <2>1, <2>2, <2>3 DEF ClientsCounted
<1>9. \A d \in Client : DescriptorKept(d)' /\ FieldsCounted(d)'
    BY <1>1, <1>2, ServerConstants DEF DescriptorKept, FieldsCounted, Server!TypeOK
<1> QED
    BY <1>4, <1>8, <1>9 DEF ServerInv

(* What tcp_receive does to a client whose handler is somewhere in a       *)
(* record: a field is read, or there are none and there will be none.      *)
LEMMA Receive ==
    ASSUME ServerInv, NEW c \in Client, Server!tcp_receive(c)
    PROVE  /\ v8' \in [Client -> {"NO_ERROR", "CLOSED", "ERROR"}]
           /\ \/ v8'[c] = "NO_ERROR" /\ v6[c] < v5[c] /\ v6' = [v6 EXCEPT ![c] = @ + 1]
              \/ /\ v8'[c] # "NO_ERROR" /\ v6[c] = v5[c] /\ v6' = v6
                 /\ v4[c] \in {"closed", "reset"}
<1>1. Server!TypeOK
    BY DEF ServerInv
<1>2. PICK r \in Server!Outcome(c) : v8' = [v8 EXCEPT ![c] = r]
    BY DEF Server!tcp_receive
<1>3. v6' = IF v8'[c] = "NO_ERROR" THEN [v6 EXCEPT ![c] = @ + 1] ELSE v6
    BY DEF Server!tcp_receive
<1>4. v8'[c] = r
    BY <1>1, <1>2 DEF Server!TypeOK
<1>5. \/ r = "NO_ERROR" /\ v6[c] < v5[c]
      \/ r \in {"CLOSED", "ERROR"} /\ v6[c] = v5[c] /\ v4[c] \in {"closed", "reset"}
    BY <1>1 DEF Server!Outcome, Server!TypeOK
<1> QED
    BY <1>1, <1>2, <1>3, <1>4, <1>5 DEF Server!TypeOK

LEMMA ServerReceive ==
    ASSUME ServerInv, NEW c \in Client, Server!ReceiveValue(c) \/ Server!ReceiveTs(c)
    PROVE  ServerInv'
<1>1. /\ Server!TypeOK /\ ClientsCounted
      /\ \A d \in Client : DescriptorKept(d) /\ FieldsCounted(d)
    BY DEF ServerInv
<1>2. /\ v7[c] \in {"id", "value", "ts"}
      /\ v1' = v1 /\ v2' = v2 /\ v3' = v3 /\ v4' = v4 /\ v5' = v5 /\ v10' = v10
      /\ Server!tcp_receive(c)
    BY DEF Server!ReceiveValue, Server!ReceiveTs, Server!sensors
<1>3. /\ v8' \in [Client -> {"NO_ERROR", "CLOSED", "ERROR"}]
      /\ \/ v8'[c] = "NO_ERROR" /\ v6[c] < v5[c] /\ v6' = [v6 EXCEPT ![c] = @ + 1]
         \/ /\ v8'[c] # "NO_ERROR" /\ v6[c] = v5[c] /\ v6' = v6
            /\ v4[c] \in {"closed", "reset"}
    BY <1>2, Receive
<1>4. \/ v7[c] = "id" /\ v7' = [v7 EXCEPT ![c] = "value"] /\ v9' = v9
      \/ v7[c] = "value" /\ v7' = [v7 EXCEPT ![c] = "ts"] /\ v9' = v9
      \/ /\ v7[c] = "ts" /\ v7' = [v7 EXCEPT ![c] = "id"] /\ v9' = [v9 EXCEPT ![c] = @ + 1]
         /\ v8'[c] = "NO_ERROR"
      \/ /\ v7[c] = "ts" /\ v7' = [v7 EXCEPT ![c] = "close"] /\ v9' = v9
         /\ v8'[c] # "NO_ERROR"
    BY <1>1 DEF Server!ReceiveValue, Server!ReceiveTs, Server!Whole, Server!TypeOK
<1>5. Server!TypeOK'
    BY <1>1, <1>2, <1>3, <1>4, ServerConstants DEF Server!TypeOK
<1>6. ClientsCounted'
    <2>1. Served' = Served /\ Busy' = Busy
        BY <1>1, <1>2, <1>4 DEF Served, Busy, Server!TypeOK
    <2> QED
        BY <1>1, <1>2, <2>1, CountsStay
<1>7. \A d \in Client : DescriptorKept(d)'
    BY <1>1, <1>2, <1>3, <1>4 DEF DescriptorKept, Server!TypeOK
<1>8. \A d \in Client : d # c => FieldsCounted(d)'
    BY <1>1, <1>2, <1>3, <1>4 DEF FieldsCounted, Server!TypeOK
<1>9. FieldsCounted(c)'
    <2>1. /\ FieldsCounted(c) /\ v6[c] \in Nat /\ v5[c] \in Nat /\ v9[c] \in Nat
          /\ v4[c] \in {"none", "connected", "closed", "reset"}
          /\ v4'[c] = v4[c] /\ v5'[c] = v5[c]
        BY <1>1, <1>2, ServerConstants DEF Server!TypeOK
    <2>2. \/ v8'[c] = "NO_ERROR" /\ v6[c] < v5[c] /\ v6'[c] = v6[c] + 1
          \/ /\ v8'[c] # "NO_ERROR" /\ v6[c] = v5[c] /\ v6'[c] = v6[c]
             /\ v4[c] \in {"closed", "reset"}
        BY <1>1, <1>3, <2>1 DEF FieldsCounted, Server!TypeOK
    <2>3. CASE v7[c] = "id" /\ v7'[c] = "value" /\ v9'[c] = v9[c]
        BY <2>1, <2>2, <2>3 DEF FieldsCounted
    <2>4. CASE v7[c] = "value" /\ v7'[c] = "ts" /\ v9'[c] = v9[c]
        BY <2>1, <2>2, <2>4 DEF FieldsCounted
    <2>5. CASE v7[c] = "ts" /\ v7'[c] = "id" /\ v9'[c] = v9[c] + 1 /\ v8'[c] = "NO_ERROR"
        BY <2>1, <2>2, <2>5 DEF FieldsCounted
    <2>6. CASE v7[c] = "ts" /\ v7'[c] = "close" /\ v9'[c] = v9[c] /\ v8'[c] # "NO_ERROR"
        BY <2>1, <2>2, <2>6 DEF FieldsCounted
    <2> QED
        BY <1>1, <1>4, <2>3, <2>4, <2>5, <2>6 DEF Server!TypeOK
<1> QED
    BY <1>5, <1>6, <1>7, <1>8, <1>9 DEF ServerInv

LEMMA ServerClose ==
    ASSUME ServerInv, NEW c \in Client, Server!tcp_close(c)
    PROVE  ServerInv'
<1>1. /\ Server!TypeOK /\ ClientsCounted
      /\ \A d \in Client : DescriptorKept(d) /\ FieldsCounted(d)
    BY DEF ServerInv
<1>2. /\ v2 \notin {"returned", "exited"} /\ v7[c] = "close"
      /\ v10' = v10 \ (IF v4[c] = "reset" THEN {} ELSE {c})
      /\ v7' = [v7 EXCEPT ![c] = "end"]
      /\ v2' = IF v1 = "threads" THEN v2
               ELSE IF v3 < MAX_CONN THEN "accept" ELSE "close"
      /\ v1' = v1 /\ v3' = v3 /\ v4' = v4 /\ v5' = v5 /\ v6' = v6 /\ v8' = v8 /\ v9' = v9
    BY DEF Server!tcp_close, Server!Alive, Server!Closed, Server!sensors
<1>3. Server!TypeOK'
    BY <1>1, <1>2 DEF Server!TypeOK
<1>4. Served' = Served /\ c \in Busy
    BY <1>1, <1>2 DEF Served, Busy, Server!TypeOK
<1>5. Busy' = Busy \ {c}
    BY <1>1, <1>2, <1>4 DEF Busy, Served, Server!TypeOK
<1>6. v2 # "open"
    BY <1>1, <1>2, <1>4 DEF ClientsCounted, Server!TypeOK, DescriptorKept
<1>7. ClientsCounted'
    <2>1. CASE v1 = "threads"
        BY <1>1, <1>2, <1>4, <1>6, <2>1 DEF ClientsCounted
    <2>2. CASE v1 = "sequential"
        <3>1. v2 = "serve" /\ Busy' = {}
            BY <1>1, <1>4, <1>5, <2>2 DEF ClientsCounted
        <3>2. v3 \in Nat /\ v3 <= MAX_CONN
            BY <1>1, ServerConstants DEF Server!TypeOK
        <3> QED
            BY <1>1, <1>2, <1>4, <2>2, <3>1, <3>2, ServerConstants DEF ClientsCounted
    <2> QED
        BY <1>1, <2>1, <2>2 DEF Server!TypeOK
<1>8. \A d \in Client : DescriptorKept(d)' /\ FieldsCounted(d)'
    BY <1>1, <1>2 DEF DescriptorKept, FieldsCounted, Server!TypeOK
<1> QED
    BY <1>3, <1>7, <1>8 DEF ServerInv

LEMMA ServerNext ==
    ASSUME ServerInv, Server!Next \/ UNCHANGED Server!vars
    PROVE  ServerInv'
<1>1. CASE Server!Next
    BY <1>1, SensorStep, ServerMain, ServerAccept, ServerReceive, ServerClose
       DEF Server!Next, Server!Sensor, Server!Main, Server!Handler
<1>2. CASE UNCHANGED Server!vars
    <2>1. /\ v1' = v1 /\ v2' = v2 /\ v3' = v3 /\ v4' = v4 /\ v5' = v5 /\ v6' = v6 /\ v7' = v7
          /\ v8' = v8 /\ v9' = v9 /\ v10' = v10
        BY <1>2 DEF Server!vars
    <2> QED
        BY <2>1 DEF ServerInv, Server!TypeOK, ClientsCounted, Busy, Served, DescriptorKept,
                    FieldsCounted
<1> QED
    BY <1>1, <1>2

(* The accounts follow.                                                    *)
LEMMA ServerAccounts ==
    ASSUME ServerInv
    PROVE  Server!ServersKeepAccounts
<1>1. /\ Server!TypeOK /\ ClientsCounted
      /\ \A d \in Client : DescriptorKept(d) /\ FieldsCounted(d)
    BY DEF ServerInv
<1>2. \A c \in Client : /\ v7[c] = "end" /\ v4[c] = "closed" => c \notin v10
                        /\ 3 * v9[c] <= v6[c]
    BY <1>1 DEF DescriptorKept, FieldsCounted
<1>3. ASSUME v1 = "sequential" PROVE Cardinality(Busy) <= 1
    <2>1. Busy = {} \/ \E c \in Served : Busy = {c}
        BY <1>1, <1>3 DEF ClientsCounted
    <2>2. Cardinality({}) = 0 /\ \A c : Cardinality({c}) = 1
        BY FS_EmptySet, FS_Singleton
    <2> QED
        BY <2>1, <2>2
<1>4. ASSUME v1 = "sequential", v2 = "returned"
      PROVE  v3 = MAX_CONN /\ \A c \in Served : v7[c] = "end"
    <2>1. v3 = MAX_CONN /\ Busy = {}
        BY <1>1, <1>4 DEF ClientsCounted
    <2> QED
        BY <2>1 DEF Busy
<1>11. ASSUME NEW c \in Client, v7[c] = "end" PROVE v9[c] = v5[c] \div 3
    <2>1. v6[c] = v5[c] /\ v6[c] <= 3 * v9[c] + 2 /\ 3 * v9[c] <= v6[c]
        BY <1>1, <1>11 DEF FieldsCounted
    <2>2. v5[c] \in Nat /\ v9[c] \in Nat
        BY <1>1, ServerConstants DEF Server!TypeOK
    <2> QED
        BY <2>1, <2>2
<1> DEFINE served == {c \in Client : v7[c] # "none"}
<1>5. Cardinality(served) = v3
    BY <1>1 DEF ClientsCounted, Served
<1>6. v1 = "sequential" => Cardinality({c \in served : v7[c] # "end"}) <= 1
    BY <1>3 DEF Busy, Served
<1>7. (v1 = "sequential" /\ v2 = "returned") =>
          v3 = MAX_CONN /\ \A c \in served : v7[c] = "end"
    BY <1>4 DEF Served
<1>8. served \subseteq Client
    OBVIOUS
<1>9. \A c \in served : v7[c] = "end" =>
          v9[c] = v5[c] \div 3 /\ (v4[c] = "closed" => c \notin v10)
    BY <1>2, <1>8, <1>11
<1>10. \A c \in Client : 3 * v9[c] <= v6[c]
    BY <1>2
<1> QED
    BY <1>5, <1>6, <1>7, <1>9, <1>10, Zenon
       DEF Server!ServersKeepAccounts, Server!Cardinality, Cardinality
-----------------------------------------------------------------------------
(* The first log: v1 is parent, v2 child, v3 logFile, v4 logPipe, v5       *)
(* csvFile, v6 called, v7 stored, v8 unflushed and v9 log.                 *)

(* The line of the child is in its memory until it ends; it has none when  *)
(* it was not made or could not write.                                     *)
ChildsLine ==
    /\ v1 = "create" => v2 = "none"
    /\ v1 \in {"bericht", "open", "result", "wait"} => v2 # "none"
    /\ v2 \in {"none", "read", "logOpened", "logFailed"} => v8.child = << >>
    /\ v2 = "exit" => Len(v8.child) = 1
    /\ v2 \in {"exit", "end"} => v3 = "open"
    /\ v2 = "crashed" => v3 = "NULL"
    /\ v1 # "end" => Len(v9) = IF v2 = "end" THEN 1 ELSE 0

(* From the first reading on the child has written what it will write.     *)
ChildIsDone ==
    /\ v1 \in {"insert", "exit", "end"} => v2 \in {"none", "end", "crashed"}
    /\ v1 = "killed" => v2 # "none" \/ v3 = "NULL"
    /\ (v1 = "killed" /\ v3 = "open") => v6 = 0 /\ v2 \in {"exit", "end"}

Lines == CASE v1 = "insert" -> v6 [] v1 = "exit" -> NumReadings + 1 [] OTHER -> 0

(* The lines main has not flushed tell the readings stored so far.         *)
LinesTell ==
    /\ v1 \notin {"insert", "exit", "end", "killed"} => v6 = 0 /\ v7 = << >>
    /\ v1 = "exit" => v6 = NumReadings
    /\ v1 \notin {"end", "killed"} => Len(v8.parent) = Lines
    /\ v1 \in {"insert", "exit"} =>
           /\ v1 = "exit" => v3 = "open"
           /\ v7 \in Seq(1..v6)
           /\ \A j, k \in DOMAIN v7 : j < k => v7[j] < v7[k]
           /\ \A i \in 1..v6 : (\E j \in DOMAIN v7 : v7[j] = i) <=> v8.parent[i] = "inserted"

LogInv ==
    /\ Milestone2!TypeOK /\ ChildsLine /\ ChildIsDone /\ LinesTell
    /\ Milestone2!LogTellsWhatIsStored

LEMMA LogConstants == NumReadings \in Nat
    BY ProgramsAssumption DEF ProgramsAssumption

LEMMA LogInit ==
    ASSUME Milestone2!Init
    PROVE  LogInv
<1>1. /\ v1 = "create" /\ v2 = "none" /\ v3 \in {"open", "NULL"} /\ v4 \in {"empty", "failed"}
      /\ v5 = "NULL" /\ v6 = 0 /\ v7 = << >> /\ v8 = [parent |-> << >>, child |-> << >>]
      /\ v9 = << >>
    BY DEF Milestone2!Init
<1>2. Milestone2!TypeOK
    <2>1. /\ DOMAIN v8 = {"parent", "child"}
          /\ \A p \in {"parent", "child"} : v8[p] \in Seq(Milestone2!Line)
        BY <1>1
    <2>2. v8 = [p \in {"parent", "child"} |-> v8[p]]
        BY <1>1
    <2>3. v8 \in [{"parent", "child"} -> Seq(Milestone2!Line)]
        BY <2>1, <2>2
    <2> QED
        BY <1>1, <2>3, LogConstants DEF Milestone2!TypeOK
<1>3. ChildsLine /\ ChildIsDone /\ LinesTell
    BY <1>1 DEF ChildsLine, ChildIsDone, LinesTell, Lines
<1>4. Milestone2!LogTellsWhatIsStored
    BY <1>1 DEF Milestone2!LogTellsWhatIsStored
<1> QED
    BY <1>2, <1>3, <1>4 DEF LogInv

(* The steps that touch neither the lines nor what is stored.              *)
LEMMA LogMoves ==
    ASSUME LogInv,
           \/ Milestone2!Fork \/ Milestone2!WriteBericht \/ Milestone2!OpenCsv
           \/ Milestone2!WriteResult \/ Milestone2!WaitChild \/ Milestone2!ReadPipe
    PROVE  LogInv'
<1>1. Milestone2!TypeOK /\ ChildsLine /\ ChildIsDone /\ LinesTell
    BY DEF LogInv
<1>2. v3' = v3 /\ v6' = v6 /\ v7' = v7 /\ v8' = v8 /\ v9' = v9
    BY DEF Milestone2!Fork, Milestone2!WriteBericht, Milestone2!OpenCsv,
           Milestone2!WriteResult, Milestone2!WaitChild, Milestone2!ReadPipe
<1>3. \/ v1 = "create" /\ v1' = "bericht" /\ v2' = "read" /\ v4' = v4 /\ v5' = v5
      \/ v1 = "create" /\ v1' = "insert" /\ v2' = v2 /\ v4' = v4 /\ v5' = v5
      \/ v1 = "bericht" /\ v1' = "open" /\ v2' = v2 /\ v4' \in {"failed", "Bericht"} /\ v5' = v5
      \/ v1 = "open" /\ v1' = "result" /\ v2' = v2 /\ v4' = v4 /\ v5' \in {"open", "NULL"}
      \/ v1 = "result" /\ v1' = "wait" /\ v2' = v2 /\ v4' = v4 /\ v5' = v5
      \/ /\ v1 = "result" /\ v1' = "killed" /\ v2' = v2 /\ v4' = v4 /\ v5' = v5
         /\ v2 \in {"exit", "end", "crashed"}
      \/ v1 = "wait" /\ v1' = "insert" /\ v2' = v2 /\ v4' = v4 /\ v5' = v5
         /\ v2 \in {"end", "crashed"}
      \/ v1' = v1 /\ v2 = "read" /\ v2' \in {"logOpened", "logFailed"} /\ v4' = v4 /\ v5' = v5
    BY DEF Milestone2!Fork, Milestone2!WriteBericht, Milestone2!OpenCsv,
           Milestone2!WriteResult, Milestone2!WaitChild, Milestone2!ReadPipe
<1>4. Milestone2!TypeOK'
    BY <1>1, <1>2, <1>3 DEF Milestone2!TypeOK
<1>5. ChildsLine' /\ ChildIsDone'
    BY <1>1, <1>2, <1>3 DEF ChildsLine, ChildIsDone, LinesTell
<1>6. LinesTell'
    <2>1. CASE v1' = v1
        BY <1>1, <1>2, <2>1 DEF LinesTell, Lines
    <2>2. CASE v1' = "insert" /\ v1 \in {"create", "wait"}
        <3>1. v6 = 0 /\ v7 = << >> /\ Len(v8.parent) = 0
            BY <1>1, <2>2 DEF LinesTell, Lines
        <3> QED
            BY <1>2, <2>2, <3>1 DEF LinesTell, Lines
    <2>3. CASE v1 \in {"create", "bericht", "open", "result"} /\ v1' # "insert" /\ v1' # v1
        <3>1. v1' \in {"bericht", "open", "result", "wait", "killed"}
            BY <1>3, <2>3
        <3>2. v6 = 0 /\ v7 = << >> /\ Len(v8.parent) = 0
            BY <1>1, <2>3 DEF LinesTell, Lines
        <3> QED
            BY <1>2, <3>1, <3>2 DEF LinesTell, Lines
    <2> QED
        BY <1>3, <2>1, <2>2, <2>3
<1>7. Milestone2!LogTellsWhatIsStored'
    <2>1. v1 # "end" /\ v1' # "end"
        BY <1>1, <1>3 DEF ChildIsDone
    <2>2. Len(v9') = IF v2' = "end" THEN 1 ELSE 0
        BY <1>5, <2>1 DEF ChildsLine
    <2> QED
        BY <1>5, <2>1, <2>2 DEF Milestone2!LogTellsWhatIsStored, ChildIsDone
<1> QED
    BY <1>4, <1>5, <1>6, <1>7 DEF LogInv

(* The lines of main.  Without a log file it is killed by the first.       *)
LEMMA LogWrites ==
    ASSUME LogInv, NEW line \in Milestone2!Line, NEW next \in {"insert", "exit"},
           v1 = "insert", Milestone2!WriteToLog(line, next), v2' = v2, v3' = v3, v4' = v4,
           v5' = v5, v6' \in 0..NumReadings, v7' \in Seq(1..NumReadings), v9' = v9
    PROVE  /\ Milestone2!TypeOK' /\ ChildsLine' /\ ChildIsDone'
           /\ Milestone2!LogTellsWhatIsStored'
           /\ v8'.parent = Append(v8.parent, line)
           /\ v1' = IF v3 = "NULL" THEN "killed" ELSE next
<1>1. Milestone2!TypeOK /\ ChildsLine /\ ChildIsDone
    BY DEF LogInv
<1>2. /\ v8' = [v8 EXCEPT !.parent = Append(@, line)]
      /\ v1' = IF v3 = "NULL" THEN "killed" ELSE next
    BY DEF Milestone2!WriteToLog
<1>3. v8'.parent = Append(v8.parent, line) /\ v8'.child = v8.child
    BY <1>1, <1>2 DEF Milestone2!TypeOK
<1>4. Milestone2!TypeOK'
    <2>1. v8' \in [{"parent", "child"} -> Seq(Milestone2!Line)]
        <3>1. Append(v8.parent, line) \in Seq(Milestone2!Line)
            BY <1>1 DEF Milestone2!TypeOK
        <3> QED
            BY <1>1, <1>2, <3>1 DEF Milestone2!TypeOK
    <2> QED
        BY <1>1, <1>2, <2>1 DEF Milestone2!TypeOK
<1>5. v3 \in {"open", "NULL"}
    BY <1>1 DEF Milestone2!TypeOK
<1>6. ChildsLine' /\ ChildIsDone'
    BY <1>1, <1>2, <1>3, <1>5 DEF ChildsLine, ChildIsDone
<1>7. Milestone2!LogTellsWhatIsStored'
    <2>1. v1' # "end" /\ Len(v9') = IF v2' = "end" THEN 1 ELSE 0
        BY <1>2, <1>6 DEF ChildsLine
    <2> QED
        BY <1>6, <2>1 DEF Milestone2!LogTellsWhatIsStored, ChildIsDone
<1> QED
    BY <1>2, <1>3, <1>4, <1>6, <1>7

LEMMA LogInsert ==
    ASSUME LogInv, Milestone2!Insert
    PROVE  LogInv'
<1>1. Milestone2!TypeOK /\ ChildIsDone /\ LinesTell
    BY DEF LogInv
<1>2. /\ v1 = "insert" /\ v6 < NumReadings /\ v6' = v6 + 1
      /\ v2' = v2 /\ v3' = v3 /\ v4' = v4 /\ v5' = v5 /\ v9' = v9
    BY DEF Milestone2!Insert
<1>3. /\ v6 \in Nat /\ v6' \in 0..NumReadings
      /\ v8.parent \in Seq(Milestone2!Line) /\ Len(v8.parent) = v6
    BY <1>1, <1>2, LogConstants DEF Milestone2!TypeOK, LinesTell, Lines
<1>4. PICK line \in {"invalid", "error", "inserted"} :
          /\ Milestone2!WriteToLog(line, "insert")
          /\ v7' = IF line = "inserted" THEN Append(v7, v6 + 1) ELSE v7
    BY DEF Milestone2!Insert, Milestone2!insert_sensor
<1>5. /\ v7 \in Seq(1..v6)
      /\ \A j, k \in DOMAIN v7 : j < k => v7[j] < v7[k]
      /\ \A i \in 1..v6 : (\E j \in DOMAIN v7 : v7[j] = i) <=> v8.parent[i] = "inserted"
    BY <1>1, <1>2 DEF LinesTell
<1>6. v7 \in Seq(1..v6') /\ DOMAIN v7 = 1..Len(v7) /\ Len(v7) \in Nat
      /\ \A j \in DOMAIN v7 : v7[j] \in 1..v6
    <2>1. 1..v6 \subseteq 1..v6'
        BY <1>2, <1>3
    <2> QED
        BY <1>5, <2>1, SeqMonotonic, LenProperties
<1>7. /\ v7' \in Seq(1..v6')
      /\ line # "inserted" => v7' = v7
      /\ line = "inserted" => /\ DOMAIN v7' = 1..Len(v7) + 1 /\ v7'[Len(v7) + 1] = v6 + 1
                              /\ \A j \in DOMAIN v7 : v7'[j] = v7[j]
    <2>1. v6 + 1 \in 1..v6'
        BY <1>2, <1>3
    <2>2. CASE line # "inserted"
        BY <1>4, <1>6, <2>2
    <2>3. CASE line = "inserted"
        <3>1. v7' = Append(v7, v6 + 1)
            BY <1>4, <2>3
        <3> QED
            BY <1>6, <2>1, <2>3, <3>1, AppendProperties
    <2> QED
        BY <2>2, <2>3
<1>8. v7' \in Seq(1..NumReadings)
    <2>1. 1..v6' \subseteq 1..NumReadings
        BY <1>2, <1>3, LogConstants
    <2> QED
        BY <1>7, <2>1, SeqMonotonic
<1>9. /\ Milestone2!TypeOK' /\ ChildsLine' /\ ChildIsDone'
      /\ Milestone2!LogTellsWhatIsStored'
      /\ v8'.parent = Append(v8.parent, line)
      /\ v1' = IF v3 = "NULL" THEN "killed" ELSE "insert"
    <2>1. line \in Milestone2!Line /\ "insert" \in {"insert", "exit"}
        BY <1>4 DEF Milestone2!Line
    <2>2. Milestone2!WriteToLog(line, "insert")
        BY <1>4
    <2> QED
        BY <1>2, <1>3, <1>8, <2>1, <2>2, LogWrites
<1>10. \A j, k \in DOMAIN v7' : j < k => v7'[j] < v7'[k]
    <2>1. CASE line # "inserted"
        BY <1>5, <1>7, <2>1
    <2>2. CASE line = "inserted"
        <3> SUFFICES ASSUME NEW j \in DOMAIN v7', NEW k \in DOMAIN v7', j < k
                     PROVE  v7'[j] < v7'[k]
            OBVIOUS
        <3>1. j \in DOMAIN v7 /\ v7'[j] = v7[j] /\ v7[j] \in 1..v6
            BY <1>6, <1>7, <2>2
        <3>2. CASE k = Len(v7) + 1
            BY <1>3, <1>7, <2>2, <3>1, <3>2
        <3>3. CASE k \in DOMAIN v7
            BY <1>5, <1>7, <2>2, <3>1, <3>3
        <3> QED
            BY <1>6, <1>7, <2>2, <3>2, <3>3
    <2> QED
        BY <2>1, <2>2
<1>11. \A i \in 1..v6' : (\E j \in DOMAIN v7' : v7'[j] = i) <=> v8'.parent[i] = "inserted"
    <2>1. /\ \A i \in 1..v6 : v8'.parent[i] = v8.parent[i]
          /\ v8'.parent[v6 + 1] = line
        BY <1>3, <1>9
    <2>2. CASE line # "inserted"
        <3>1. \A j \in DOMAIN v7 : v7[j] # v6 + 1
            BY <1>3, <1>6
        <3> QED
            BY <1>2, <1>3, <1>5, <1>7, <2>1, <2>2, <3>1
    <2>3. CASE line = "inserted"
        <3>1. \A i \in 1..v6 : (\E j \in DOMAIN v7' : v7'[j] = i) <=> \E j \in DOMAIN v7 : v7[j] = i
            <4>1. \A j \in DOMAIN v7' : j \in DOMAIN v7 \/ v7'[j] = v6 + 1
                BY <1>6, <1>7, <2>3
            <4>2. DOMAIN v7 \subseteq DOMAIN v7'
                BY <1>6, <1>7, <2>3
            <4>3. \A i \in 1..v6 : i # v6 + 1
                BY <1>3
            <4> QED
                BY <1>7, <2>3, <4>1, <4>2, <4>3
        <3>2. \E j \in DOMAIN v7' : v7'[j] = v6 + 1
            BY <1>6, <1>7, <2>3
        <3> QED
            BY <1>2, <1>3, <1>5, <2>1, <2>3, <3>1, <3>2
    <2> QED
        BY <2>2, <2>3
<1>12. LinesTell'
    <2>1. Len(v8'.parent) = v6'
        BY <1>2, <1>3, <1>9
    <2> QED
        BY <1>7, <1>9, <1>10, <1>11, <2>1 DEF LinesTell, Lines
<1> QED
    BY <1>9, <1>12 DEF LogInv

LEMMA LogCloseDb ==
    ASSUME LogInv, Milestone2!close_db
    PROVE  LogInv'
<1>1. Milestone2!TypeOK /\ ChildIsDone /\ LinesTell
    BY DEF LogInv
<1>2. /\ v1 = "insert" /\ v6 = NumReadings
      /\ v2' = v2 /\ v3' = v3 /\ v4' = v4 /\ v5' = v5 /\ v6' = v6 /\ v7' = v7 /\ v9' = v9
    BY DEF Milestone2!close_db
<1>3. PICK line \in {"invalid", "closed"} : Milestone2!WriteToLog(line, "exit")
    BY DEF Milestone2!close_db
<1>4. v8.parent \in Seq(Milestone2!Line) /\ Len(v8.parent) = v6 /\ v6 \in Nat
    BY <1>1, <1>2, LogConstants DEF Milestone2!TypeOK, LinesTell, Lines
<1>5. /\ Milestone2!TypeOK' /\ ChildsLine' /\ ChildIsDone'
      /\ Milestone2!LogTellsWhatIsStored'
      /\ v8'.parent = Append(v8.parent, line)
      /\ v1' = IF v3 = "NULL" THEN "killed" ELSE "exit"
    <2>1. line \in Milestone2!Line /\ "exit" \in {"insert", "exit"}
        BY <1>3 DEF Milestone2!Line
    <2>2. v6' \in 0..NumReadings /\ v7' \in Seq(1..NumReadings)
        BY <1>1, <1>2 DEF Milestone2!TypeOK
    <2> QED
        BY <1>2, <1>3, <2>1, <2>2, LogWrites
<1>6. Len(v8'.parent) = v6 + 1 /\ \A i \in 1..v6 : v8'.parent[i] = v8.parent[i]
    BY <1>4, <1>5
<1>7. v3 # "NULL" => v3 = "open"
    BY <1>1 DEF Milestone2!TypeOK
<1>8. LinesTell'
    BY <1>1, <1>2, <1>5, <1>6, <1>7 DEF LinesTell, Lines
<1> QED
    BY <1>5, <1>8 DEF LogInv

(* The end of main: the child is done, so its line is in front.            *)
LEMMA LogExit ==
    ASSUME LogInv, Milestone2!Exit
    PROVE  LogInv'
<1>1. Milestone2!TypeOK /\ ChildsLine /\ ChildIsDone /\ LinesTell
    BY DEF LogInv
<1>2. /\ v1 = "exit" /\ v1' = "end" /\ v9' = v9 \o v8["parent"]
      /\ v8' = [v8 EXCEPT !["parent"] = << >>]
      /\ v2' = v2 /\ v3' = v3 /\ v4' = v4 /\ v5' = v5 /\ v6' = v6 /\ v7' = v7
    BY DEF Milestone2!Exit, Milestone2!Flush
<1>3. v9 \in Seq(Milestone2!Line) /\ v8.parent \in Seq(Milestone2!Line)
    BY <1>1 DEF Milestone2!TypeOK
<1>4. Milestone2!TypeOK'
    <2>1. v9' \in Seq(Milestone2!Line)
        BY <1>2, <1>3, ConcatProperties
    <2>2. v8' \in [{"parent", "child"} -> Seq(Milestone2!Line)]
        BY <1>1, <1>2 DEF Milestone2!TypeOK
    <2> QED
        BY <1>1, <1>2, <2>1, <2>2 DEF Milestone2!TypeOK
<1>5. v2 \in {"none", "end"} /\ v3 = "open" /\ v6 = NumReadings
      /\ v8.child = v8'.child
    BY <1>1, <1>2 DEF ChildIsDone, ChildsLine, LinesTell, Milestone2!TypeOK
<1>6. ChildsLine' /\ ChildIsDone'
    BY <1>1, <1>2, <1>5 DEF ChildsLine, ChildIsDone
<1>7. LinesTell'
    BY <1>2 DEF LinesTell
<1> DEFINE own == IF v2 = "none" THEN 0 ELSE 1
<1>8. Len(v9) = own /\ Len(v8.parent) = NumReadings + 1
    BY <1>1, <1>2, <1>5 DEF ChildsLine, LinesTell, Lines
<1>9. /\ Len(v9') = own + NumReadings + 1
      /\ \A i \in 1..NumReadings : v9'[own + i] = v8.parent[i]
    <2>1. /\ Len(v9') = Len(v9) + Len(v8.parent)
          /\ \A i \in 1..Len(v9) + Len(v8.parent) :
                v9'[i] = IF i <= Len(v9) THEN v9[i] ELSE v8.parent[i - Len(v9)]
        BY <1>2, <1>3, ConcatProperties
    <2>2. own \in Nat
        OBVIOUS
    <2> HIDE DEF own
    <2>3. \A i \in 1..NumReadings : /\ own + i \in 1..own + (NumReadings + 1)
                                    /\ ~(own + i <= own) /\ (own + i) - own = i
        BY <2>2, LogConstants
    <2> QED
        BY <1>8, <2>1, <2>2, <2>3, LogConstants
<1>10. /\ v7 \in Seq(1..v6)
       /\ \A j, k \in DOMAIN v7 : j < k => v7[j] < v7[k]
       /\ \A i \in 1..v6 : (\E j \in DOMAIN v7 : v7[j] = i) <=> v8.parent[i] = "inserted"
    BY <1>1, <1>2 DEF LinesTell
<1>11. Milestone2!Range(v7) = {i \in 1..NumReadings : v9'[own + i] = "inserted"}
    <2>1. \A j \in DOMAIN v7 : v7[j] \in 1..NumReadings
        BY <1>5, <1>10, ElementOfSeq, LenProperties
    <2>2. \A i \in 1..NumReadings : (\E j \in DOMAIN v7 : v7[j] = i) <=> v9'[own + i] = "inserted"
        BY <1>5, <1>9, <1>10
    <2> QED
        BY <2>1, <2>2 DEF Milestone2!Range
<1>12. Milestone2!LogTellsWhatIsStored'
    BY <1>2, <1>5, <1>9, <1>10, <1>11 DEF Milestone2!LogTellsWhatIsStored
<1> QED
    BY <1>4, <1>6, <1>7, <1>12 DEF LogInv

LEMMA LogChild ==
    ASSUME LogInv, Milestone2!LogAndClose \/ Milestone2!ChildExit
    PROVE  LogInv'
<1>1. Milestone2!TypeOK /\ ChildsLine /\ ChildIsDone /\ LinesTell
    BY DEF LogInv
<1>2. v1' = v1 /\ v3' = v3 /\ v4' = v4 /\ v5' = v5 /\ v6' = v6 /\ v7' = v7
    BY DEF Milestone2!LogAndClose, Milestone2!ChildExit
<1>3. CASE Milestone2!LogAndClose
    <2>1. /\ v2 \in {"logOpened", "logFailed"}
          /\ v2' = IF v3 = "NULL" THEN "crashed" ELSE "exit"
          /\ v8' = [v8 EXCEPT !.child = <<v2>>] /\ v9' = v9
        BY <1>3 DEF Milestone2!LogAndClose
    <2>2. v8'.parent = v8.parent /\ v8'.child = <<v2>>
          /\ v8' \in [{"parent", "child"} -> Seq(Milestone2!Line)]
        <3>1. <<v2>> \in Seq(Milestone2!Line)
            BY <2>1 DEF Milestone2!Line
        <3> QED
            BY <1>1, <2>1, <3>1 DEF Milestone2!TypeOK
    <2>3. Milestone2!TypeOK'
        BY <1>1, <1>2, <2>1, <2>2 DEF Milestone2!TypeOK
    <2>4. v1 \notin {"insert", "exit", "end"} /\ (v1 = "killed" => v3 = "NULL") /\ v1 # "create"
          /\ v3 \in {"open", "NULL"}
        BY <1>1, <2>1 DEF ChildIsDone, ChildsLine, Milestone2!TypeOK
    <2>5. ChildsLine' /\ ChildIsDone'
        BY <1>1, <1>2, <2>1, <2>2, <2>4 DEF ChildsLine, ChildIsDone
    <2>6. LinesTell'
        BY <1>1, <1>2, <2>2, <2>4 DEF LinesTell, Lines
    <2>7. Milestone2!LogTellsWhatIsStored'
        <3>1. Len(v9') = IF v2' = "end" THEN 1 ELSE 0
            BY <1>2, <2>4, <2>5 DEF ChildsLine
        <3> QED
            BY <1>2, <2>4, <2>5, <3>1 DEF Milestone2!LogTellsWhatIsStored, ChildIsDone
    <2> QED
        BY <2>3, <2>5, <2>6, <2>7 DEF LogInv
<1>4. CASE Milestone2!ChildExit
    <2>1. /\ v2 = "exit" /\ v2' = "end" /\ v9' = v9 \o v8["child"]
          /\ v8' = [v8 EXCEPT !["child"] = << >>]
        BY <1>4 DEF Milestone2!ChildExit, Milestone2!Flush
    <2>2. v9 \in Seq(Milestone2!Line) /\ v8.child \in Seq(Milestone2!Line)
        BY <1>1 DEF Milestone2!TypeOK
    <2>3. v8'.parent = v8.parent /\ v8' \in [{"parent", "child"} -> Seq(Milestone2!Line)]
        BY <1>1, <2>1 DEF Milestone2!TypeOK
    <2>4. v9' \in Seq(Milestone2!Line) /\ Len(v9') = Len(v9) + Len(v8.child)
        BY <2>1, <2>2, ConcatProperties
    <2>5. Milestone2!TypeOK'
        BY <1>1, <1>2, <2>1, <2>3, <2>4 DEF Milestone2!TypeOK
    <2>6. v1 \notin {"insert", "exit", "end"} /\ v1 # "create" /\ v3 = "open"
        BY <1>1, <2>1 DEF ChildIsDone, ChildsLine
    <2>7. Len(v9') = 1
        <3>1. Len(v9) = 0 /\ Len(v8.child) = 1
            BY <1>1, <2>1, <2>6 DEF ChildsLine
        <3> QED
            BY <2>4, <3>1
    <2>8. ChildsLine' /\ ChildIsDone'
        BY <1>1, <1>2, <2>1, <2>6, <2>7 DEF ChildsLine, ChildIsDone
    <2>9. LinesTell'
        BY <1>1, <1>2, <2>3, <2>6 DEF LinesTell, Lines
    <2>10. Milestone2!LogTellsWhatIsStored'
        BY <1>2, <2>1, <2>6, <2>7, <2>8 DEF Milestone2!LogTellsWhatIsStored, ChildIsDone
    <2> QED
        BY <2>5, <2>8, <2>9, <2>10 DEF LogInv
<1> QED
    BY <1>3, <1>4

LEMMA LogNext ==
    ASSUME LogInv, Milestone2!Next \/ UNCHANGED Milestone2!vars
    PROVE  LogInv'
<1>1. CASE Milestone2!Next
    BY <1>1, LogMoves, LogInsert, LogCloseDb, LogExit, LogChild
       DEF Milestone2!Next, Milestone2!Step, Milestone2!Main, Milestone2!Child
<1>2. CASE UNCHANGED Milestone2!vars
    <2>1. /\ v1' = v1 /\ v2' = v2 /\ v3' = v3 /\ v4' = v4 /\ v5' = v5 /\ v6' = v6 /\ v7' = v7
          /\ v8' = v8 /\ v9' = v9
        BY <1>2 DEF Milestone2!vars
    <2> QED
        BY <2>1 DEF LogInv, Milestone2!TypeOK, ChildsLine, ChildIsDone, LinesTell, Lines,
                    Milestone2!LogTellsWhatIsStored
<1> QED
    BY <1>1, <1>2
-----------------------------------------------------------------------------
(* The first buffer: v1 is records, v2 pc, v3 count, v4 buffer, v5         *)
(* holding, v6 csv, v7 dropped and v8 process.                             *)

Reader == {"reader1", "reader2"}     \* as in Milestone3
Zeros  == {i \in 1..Len(v1) + 1 : Milestone3!IdOf(i) = "zero"}

(* How far in the file the writer has come, and what the readers have.     *)
Put   == IF v2["writer"] = "end" THEN Len(v1) + 1 ELSE v3
Taken == {i \in 1..Len(v1) + 1 :
             (\E k \in DOMAIN v6 : v6[k] = i) \/ \E r \in Reader : v5[r] = i}

(* The program counters of all threads.                                    *)
Counters == [{"reader1", "reader2", "main", "writer"} ->
                {"none", "open", "create", "join", "read", "remove", "wait", "write", "end"}]

(* What a thread may be at; main waits for the others.                     *)
ThreadPlaces ==
    /\ v2["main"] \in {"open", "create", "join", "end"}
    /\ v2["writer"] \in {"none", "open", "read", "end"}
    /\ \A r \in Reader : v2[r] \in {"none", "remove", "wait", "write", "end"}
    /\ \A r \in Reader : v2[r] = "write" <=> v5[r] # 0
    /\ v2["main"] \in {"open", "create"} => v2["reader2"] = "none"
    /\ v2["main"] = "join" => \A t \in DOMAIN v2 : v2[t] # "none"
    /\ v2["main"] = "end" => \A t \in DOMAIN v2 : v2[t] = "end"

(* The buffer is in the order of the file, behind all that was taken; the  *)
(* two together are what was put, but for what was dropped.                *)
BufferOrdered ==
    /\ \A k \in DOMAIN v4 : v4[k] <= Put
    /\ \A j, k \in DOMAIN v4 : j < k => v4[j] < v4[k]
    /\ \A i \in Taken : i <= Put /\ \A k \in DOMAIN v4 : i < v4[k]
    /\ (~v7 /\ v2["main"] # "end") =>
          \A i \in 1..Put : i \in Taken \/ \E k \in DOMAIN v4 : v4[k] = i

(* A record is taken once, and not after one with id 0.                    *)
TakenOnce ==
    /\ \A i, j \in DOMAIN v6 : v6[i] = v6[j] => i = j
    /\ \A r \in Reader : \A i \in DOMAIN v6 : v6[i] # v5[r]
    /\ v5["reader1"] = v5["reader2"] => v5["reader1"] = 0
    /\ Taken \cap Zeros = {}
    /\ ~v7 => \A i \in Taken, z \in Zeros : i < z

(* A reader ends at an id 0, which stays at the head, and nobody sleeps    *)
(* over a record with nobody awake.                                        *)
ReadersAwake ==
    /\ v2["main"] # "end" => \A r \in Reader : v2[r] = "end" => v4 # << >> /\ v4[1] \in Zeros
    /\ (v4 # << >> /\ \E r \in Reader : v2[r] = "wait")
           => \E r \in Reader : v2[r] \in {"remove", "write"}

(* When all have ended the records in front of the first id 0 are written. *)
FileWritten ==
    (~v7 /\ v2["main"] = "end") =>
        \A i \in 1..Len(v1) : (\A z \in Zeros : i < z) => \E k \in DOMAIN v6 : v6[k] = i

ReadersInv ==
    /\ v1 \in Seq({"sensor", "zero"}) /\ Milestone3!TypeOK
    /\ ThreadPlaces /\ BufferOrdered /\ TakenOnce /\ ReadersAwake /\ FileWritten

USE DEF Counters

LEMMA ReadersTypes ==
    ASSUME ReadersInv
    PROVE  /\ Len(v1) \in Nat /\ v3 \in 0..Len(v1) /\ v7 \in BOOLEAN
           /\ v2 \in Counters
           /\ v4 \in Seq(1..Len(v1) + 1) /\ v6 \in Seq(1..Len(v1) + 1)
           /\ v5 \in [Reader -> 0..Len(v1) + 1]
           /\ Put \in 0..Len(v1) + 1 /\ Taken \subseteq 1..Len(v1) + 1
           /\ Zeros \subseteq 1..Len(v1) + 1 /\ Len(v1) + 1 \in Zeros
<1>1. Len(v1) \in Nat
    BY LenProperties DEF ReadersInv
<1>2. {"reader1", "reader2"} \cup {"main", "writer"} = {"reader1", "reader2", "main", "writer"}
    OBVIOUS
<1>3. /\ v3 \in 0..Len(v1) /\ v7 \in BOOLEAN
      /\ v2 \in Counters
      /\ v4 \in Seq(1..Len(v1) + 1) /\ v6 \in Seq(1..Len(v1) + 1)
      /\ v5 \in [Reader -> 0..Len(v1) + 1]
    BY <1>2 DEF ReadersInv, Milestone3!TypeOK, Milestone3!Eos, Milestone3!Reader, Reader
<1>4. Put \in 0..Len(v1) + 1
    BY <1>1, <1>3 DEF Put
<1>5. Len(v1) + 1 \in Zeros
    BY <1>1 DEF Zeros, Milestone3!IdOf, Milestone3!Eos
<1> QED
    BY <1>1, <1>3, <1>4, <1>5 DEF Taken, Zeros

(* The same, of the next state.                                            *)
LEMMA ReadersTyped ==
    ASSUME v1 \in Seq({"sensor", "zero"}), v1' = v1, v3' \in 0..Len(v1), v7' \in BOOLEAN,
           v2' \in Counters,
           v4' \in Seq(1..Len(v1) + 1), v6' \in Seq(1..Len(v1) + 1),
           v5' \in [Reader -> 0..Len(v1) + 1], v8' \in {"running", "exited"}
    PROVE  v1' \in Seq({"sensor", "zero"}) /\ Milestone3!TypeOK' /\ Zeros' = Zeros
<1>1. {"reader1", "reader2"} \cup {"main", "writer"} = {"reader1", "reader2", "main", "writer"}
    OBVIOUS
<1>2. Milestone3!TypeOK'
    BY <1>1 DEF Milestone3!TypeOK, Milestone3!Eos, Milestone3!Reader, Reader
<1>3. Zeros' = Zeros
    BY DEF Zeros, Milestone3!IdOf, Milestone3!Eos
<1> QED
    BY <1>2, <1>3

LEMMA ReadersInit ==
    ASSUME Milestone3!Init
    PROVE  ReadersInv
<1>1. PICK n \in 0..MaxRecords : v1 \in [1..n -> {"sensor", "zero"}]
    BY DEF Milestone3!Init
<1>2. n \in Nat
    BY ProgramsAssumption DEF ProgramsAssumption
<1>3. v1 \in Seq({"sensor", "zero"}) /\ Len(v1) \in Nat
    BY <1>1, <1>2, SeqDef, LenProperties
<1>4. /\ v2 = [t \in {"reader1", "reader2", "main", "writer"} |->
                   IF t = "main" THEN "open" ELSE "none"]
      /\ v3 = 0 /\ v4 = << >> /\ v6 = << >> /\ v5 = [r \in Reader |-> 0] /\ v7 = FALSE
      /\ v8 = "running"
    <2>1. {"reader1", "reader2"} \cup {"main", "writer"} = {"reader1", "reader2", "main", "writer"}
        OBVIOUS
    <2> QED
        BY <2>1 DEF Milestone3!Init, Milestone3!Reader, Reader
<1>5. Milestone3!TypeOK
    <2>1. {"reader1", "reader2"} \cup {"main", "writer"} = {"reader1", "reader2", "main", "writer"}
        OBVIOUS
    <2>2. v2 \in Counters
        BY <1>4
    <2>3. v5 \in [Reader -> 0..Len(v1) + 1]
        BY <1>3, <1>4
    <2>4. v4 \in Seq(1..Len(v1) + 1) /\ v6 \in Seq(1..Len(v1) + 1)
        BY <1>4
    <2>5. v3 \in 0..Len(v1)
        BY <1>3, <1>4
    <2>6. v7 \in BOOLEAN
        BY <1>4, Zenon
    <2>7. v8 \in {"running", "exited"}
        BY <1>4
    <2> QED
        BY <2>1, <2>2, <2>3, <2>4, <2>5, <2>6, <2>7
           DEF Milestone3!TypeOK, Milestone3!Eos, Milestone3!Reader, Reader
<1>6. Taken = {} /\ Put = 0
    BY <1>3, <1>4 DEF Taken, Reader, Put
<1>7. ThreadPlaces
    BY <1>4 DEF ThreadPlaces, Reader
<1>8. BufferOrdered /\ TakenOnce /\ ReadersAwake /\ FileWritten
    BY <1>4, <1>6 DEF BufferOrdered, TakenOnce, ReadersAwake, FileWritten, Reader
<1> QED
    BY <1>3, <1>5, <1>7, <1>8 DEF ReadersInv

(* Steps of one thread that change nothing but where it is.                *)
LEMMA ReadersMove ==
    ASSUME ReadersInv,
           v1' = v1, v3' = v3, v4' = v4, v5' = v5, v6' = v6, v7' = v7,
           v8' \in {"running", "exited"},
           v2' \in Counters,
           ThreadPlaces', ReadersAwake', v2["main"] # "end", v2'["main"] # "end",
           v2["writer"] = "end" <=> v2'["writer"] = "end"
    PROVE  ReadersInv'
<1>1. v1 \in Seq({"sensor", "zero"}) /\ BufferOrdered /\ TakenOnce
    BY DEF ReadersInv
<1>2. v1' \in Seq({"sensor", "zero"}) /\ Milestone3!TypeOK' /\ Zeros' = Zeros
    BY <1>1, ReadersTypes, ReadersTyped
<1>3. Put' = Put /\ Taken' = Taken
    BY DEF Put, Taken
<1>4. BufferOrdered'
    BY <1>1, <1>3 DEF BufferOrdered
<1>5. TakenOnce'
    BY <1>1, <1>2, <1>3 DEF TakenOnce
<1>6. FileWritten'
    BY DEF FileWritten
<1> QED
    BY <1>2, <1>4, <1>5, <1>6 DEF ReadersInv

LEMMA ReadersStart ==
    ASSUME ReadersInv, Milestone3!OpenCsv \/ Milestone3!Create \/ Milestone3!OpenFile
    PROVE  ReadersInv'
<1>1. ThreadPlaces /\ ReadersAwake
    BY DEF ReadersInv
<1>2. /\ v1' = v1 /\ v3' = v3 /\ v4' = v4 /\ v5' = v5 /\ v6' = v6 /\ v7' = v7 /\ v8' = v8
      /\ v8 \in {"running", "exited"}
    BY DEF Milestone3!OpenCsv, Milestone3!Create, Milestone3!OpenFile, ReadersInv,
           Milestone3!TypeOK
<1> v2 \in Counters
    BY ReadersTypes
<1>3. \/ v2["main"] = "open" /\ v2' = [v2 EXCEPT !["main"] = "create"]
      \/ v2["main"] = "create" /\ v2["writer"] = "none" /\ v2' = [v2 EXCEPT !["writer"] = "open"]
      \/ /\ v2["main"] = "create" /\ v2["writer"] # "none" /\ v2["reader1"] = "none"
         /\ v2' = [v2 EXCEPT !["reader1"] = "remove"]
      \/ /\ v2["main"] = "create" /\ v2["writer"] # "none" /\ v2["reader1"] # "none"
         /\ v2' = [v2 EXCEPT !["reader2"] = "remove", !["main"] = "join"]
      \/ v2["writer"] = "open" /\ v2' = [v2 EXCEPT !["writer"] = "read"]
    BY DEF Milestone3!OpenCsv, Milestone3!Create, Milestone3!OpenFile, Milestone3!Go
<1>4. \/ /\ v2["main"] = "open" /\ v2'["main"] = "create"
         /\ \A t \in {"reader1", "reader2", "writer"} : v2'[t] = v2[t]
      \/ /\ v2["writer"] \in {"none", "open"} /\ v2'["writer"] \in {"open", "read"}
         /\ \A t \in {"reader1", "reader2", "main"} : v2'[t] = v2[t]
      \/ /\ v2["main"] = "create" /\ v2["reader1"] = "none" /\ v2'["reader1"] = "remove"
         /\ \A t \in {"reader2", "writer", "main"} : v2'[t] = v2[t]
      \/ /\ v2["main"] = "create" /\ v2'["main"] = "join" /\ v2'["reader2"] = "remove"
         /\ v2["writer"] # "none" /\ v2["reader1"] # "none"
         /\ \A t \in {"reader1", "writer"} : v2'[t] = v2[t]
    BY <1>3
<1>5. v2' \in Counters
    BY <1>3
<1>6. /\ v2["main"] # "end" /\ v2'["main"] # "end"
      /\ v2["writer"] = "end" <=> v2'["writer"] = "end"
    BY <1>1, <1>4 DEF ThreadPlaces
<1>7. ThreadPlaces'
    BY <1>1, <1>2, <1>4, <1>5, <1>6 DEF ThreadPlaces, Reader
<1>8. ReadersAwake'
    <2>1. \A r \in Reader : v2'[r] = v2[r] \/ (v2[r] = "none" /\ v2'[r] = "remove")
        <3>1. v2["main"] = "create" => v2["reader2"] = "none"
            BY <1>1 DEF ThreadPlaces
        <3>2. v2'["reader1"] = v2["reader1"] \/ (v2["reader1"] = "none" /\ v2'["reader1"] = "remove")
            BY <1>4
        <3>3. v2'["reader2"] = v2["reader2"] \/ (v2["reader2"] = "none" /\ v2'["reader2"] = "remove")
            BY <1>4, <3>1
        <3> QED
            BY <3>2, <3>3 DEF Reader
    <2>2. Zeros' = Zeros
        BY <1>2 DEF Zeros, Milestone3!IdOf, Milestone3!Eos
    <2> QED
        BY <1>1, <1>2, <1>6, <2>1, <2>2 DEF ReadersAwake
<1> QED
    BY <1>2, <1>5, <1>6, <1>7, <1>8, ReadersMove

LEMMA ReadersAccident ==
    ASSUME ReadersInv, Milestone3!Accident
    PROVE  ReadersInv'
<1>1. ThreadPlaces /\ ReadersAwake /\ Zeros' = Zeros
    BY DEF ReadersInv, Milestone3!Accident, Milestone3!SpuriousWake, Milestone3!Exit, Zeros,
           Milestone3!IdOf, Milestone3!Eos
<1>2. CASE \E r \in Reader : Milestone3!SpuriousWake(r)
    <2>1. PICK r \in Reader : v2[r] = "wait" /\ v2' = [v2 EXCEPT ![r] = "remove"]
        BY <1>2 DEF Milestone3!SpuriousWake, Milestone3!Go
    <2>2. /\ v1' = v1 /\ v3' = v3 /\ v4' = v4 /\ v5' = v5 /\ v6' = v6 /\ v7' = v7
          /\ v8' \in {"running", "exited"}
        BY <1>2 DEF Milestone3!SpuriousWake, ReadersInv, Milestone3!TypeOK
    <2>3. /\ v2["main"] # "end" /\ v2'["main"] = v2["main"] /\ v2'["writer"] = v2["writer"]
          /\ v2'[r] = "remove" /\ \A s \in Reader \ {r} : v2'[s] = v2[s]
          /\ v2' \in Counters
        BY <1>1, <2>1, ReadersTypes DEF ThreadPlaces, Reader
    <2>4. ThreadPlaces'
        BY <1>1, <2>1, <2>2, <2>3, ReadersTypes DEF ThreadPlaces, Reader
    <2>5. ReadersAwake'
        BY <1>1, <2>1, <2>2, <2>3 DEF ReadersAwake
    <2> QED
        BY <2>2, <2>3, <2>4, <2>5, ReadersMove
<1>3. CASE Milestone3!Exit("main", {"open", "create"}) \/ Milestone3!Exit("writer", {"open"})
    <2>1. /\ v1' = v1 /\ v2' = v2 /\ v3' = v3 /\ v4' = v4 /\ v5' = v5 /\ v6' = v6 /\ v7' = v7
          /\ v8' \in {"running", "exited"}
          /\ v2["main"] \in {"open", "create"} \/ v2["writer"] = "open"
        BY <1>3 DEF Milestone3!Exit
    <2>2. v2["main"] # "end"
        BY <1>1, <2>1, ReadersTypes DEF ThreadPlaces
    <2>3. ThreadPlaces' /\ ReadersAwake'
        BY <1>1, <2>1 DEF ThreadPlaces, ReadersAwake
    <2> QED
        BY <2>1, <2>2, <2>3, ReadersTypes, ReadersMove
<1> QED
    BY <1>2, <1>3 DEF Milestone3!Accident, Milestone3!Reader, Reader

(* main frees the buffer when the others have ended: as a record with id 0 *)
(* is at its head, all that are in front of it were taken, and written.    *)
LEMMA ReadersFree ==
    ASSUME ReadersInv, Milestone3!JoinAndFree
    PROVE  ReadersInv'
<1>1. /\ v1 \in Seq({"sensor", "zero"}) /\ ThreadPlaces /\ BufferOrdered /\ TakenOnce
      /\ ReadersAwake
    BY DEF ReadersInv
<1>2. /\ v2["reader1"] = "end" /\ v2["reader2"] = "end" /\ v2["writer"] = "end"
      /\ v2["main"] = "join" /\ v2' = [v2 EXCEPT !["main"] = "end"] /\ v4' = << >>
      /\ v1' = v1 /\ v3' = v3 /\ v5' = v5 /\ v6' = v6 /\ v7' = v7 /\ v8' = v8
    BY DEF Milestone3!JoinAndFree, Milestone3!Go, Milestone3!sbuffer_free, Milestone3!Reader
<1>3. v2' = [t \in {"reader1", "reader2", "main", "writer"} |-> "end"]
    BY <1>2, ReadersTypes
<1>4. v1' \in Seq({"sensor", "zero"}) /\ Milestone3!TypeOK' /\ Zeros' = Zeros
    <2>1. v8' \in {"running", "exited"} /\ v4' \in Seq(1..Len(v1) + 1)
        BY <1>2 DEF ReadersInv, Milestone3!TypeOK
    <2>2. v2' \in Counters
        BY <1>3
    <2> QED
        BY <1>1, <1>2, <2>1, <2>2, ReadersTypes, ReadersTyped
<1>5. Put' = Put /\ Taken' = Taken
    BY <1>2, <1>3 DEF Put, Taken
<1>6. ThreadPlaces'
    BY <1>1, <1>2, <1>3 DEF ThreadPlaces, Reader
<1>7. BufferOrdered'
    BY <1>1, <1>2, <1>3, <1>5 DEF BufferOrdered
<1>8. TakenOnce'
    BY <1>1, <1>2, <1>4, <1>5 DEF TakenOnce
<1>9. ReadersAwake'
    BY <1>2, <1>3 DEF ReadersAwake
<1>10. FileWritten'
    <2> SUFFICES ASSUME ~v7, NEW i \in 1..Len(v1), \A z \in Zeros : i < z
                 PROVE  \E k \in DOMAIN v6 : v6[k] = i
        BY <1>2, <1>4 DEF FileWritten
    <2>1. v4 # << >> /\ v4[1] \in Zeros /\ i < v4[1]
        BY <1>1, <1>2 DEF ReadersAwake, Reader
    <2>2. \A k \in DOMAIN v4 : v4[k] \in Nat /\ v4[1] <= v4[k]
        <3>1. DOMAIN v4 = 1..Len(v4) /\ Len(v4) \in Nat /\ 1 \in DOMAIN v4
              /\ \A k \in DOMAIN v4 : v4[k] \in Nat
            BY <2>1, ReadersTypes
        <3> QED
            BY <1>1, <3>1 DEF BufferOrdered
    <2>3. i \in 1..Put
        BY <1>2, ReadersTypes DEF Put
    <2>4. i \in Taken
        BY <1>1, <1>2, <2>1, <2>2, <2>3 DEF BufferOrdered
    <2>5. \A r \in Reader : v5[r] = 0
        BY <1>1, <1>2 DEF ThreadPlaces, Reader
    <2> QED
        BY <2>4, <2>5 DEF Taken
<1> QED
    BY <1>4, <1>6, <1>7, <1>8, <1>9, <1>10 DEF ReadersInv

(* What a signal does: one reader that sleeps goes on, if there is one.    *)
Awoken(p, q) ==
    /\ q \in Counters
    /\ q["main"] = p["main"] /\ q["writer"] = p["writer"]
    /\ \A r \in Reader : q[r] = p[r] \/ (p[r] = "wait" /\ q[r] = "remove")
    /\ (\E r \in Reader : p[r] = "wait") => \E r \in Reader : q[r] = "remove"

LEMMA ReadersSignal ==
    ASSUME NEW p \in Counters,
           NEW q \in Milestone3!Signalled(p, Milestone3!Reader, "remove")
    PROVE  Awoken(p, q)
<1>1. CASE \A t \in Reader : p[t] # "wait"
    <2>1. q = p
        BY <1>1 DEF Milestone3!Signalled, Milestone3!Reader, Reader
    <2> QED
        BY <1>1, <2>1 DEF Awoken
<1>2. CASE \E t \in Reader : p[t] = "wait"
    <2>1. PICK t \in Reader : p[t] = "wait" /\ q = [p EXCEPT ![t] = "remove"]
        BY <1>2 DEF Milestone3!Signalled, Milestone3!Reader, Reader
    <2> QED
        BY <2>1 DEF Awoken, Reader
<1> QED
    BY <1>1, <1>2

(* What was taken does not change.                                         *)
LEMMA ReadersInsert ==
    ASSUME ReadersInv, NEW next \in {"read", "end"}, v2["writer"] = "read", v8' = v8,
           v1' = v1, v5' = v5, v6' = v6, Put' = Put + 1, Put + 1 \in 1..Len(v1) + 1,
           v3' \in 0..Len(v1), Milestone3!sbuffer_insert(Put + 1, next)
    PROVE  ReadersInv'
<1>1. /\ v1 \in Seq({"sensor", "zero"}) /\ ThreadPlaces /\ BufferOrdered /\ TakenOnce
      /\ ReadersAwake
    BY DEF ReadersInv
<1> DEFINE p == [v2 EXCEPT !["writer"] = next]
<1>2. /\ p \in Counters
      /\ p["main"] = v2["main"] /\ p["writer"] = next /\ \A r \in Reader : p[r] = v2[r]
    BY ReadersTypes DEF Reader
<1>3. \/ v4' = Append(v4, Put + 1) /\ Awoken(p, v2') /\ v7' = v7
      \/ v7' = TRUE /\ v2' = p /\ v4' = v4
    BY <1>2, ReadersSignal DEF Milestone3!sbuffer_insert
<1>4. /\ v2' \in Counters
      /\ v2'["main"] = v2["main"] /\ v2'["writer"] = next
      /\ \A r \in Reader : v2'[r] = v2[r] \/ (v2[r] = "wait" /\ v2'[r] = "remove")
    BY <1>2, <1>3 DEF Awoken
<1>5. v2["main"] \notin {"end", "none"}
    BY <1>1, ReadersTypes DEF ThreadPlaces
<1>6. /\ v7' \in BOOLEAN /\ (~v7' => ~v7)
    <2>1. v7 \in BOOLEAN
        BY ReadersTypes
    <2>2. CASE v7' = v7
        BY <2>1, <2>2, Zenon
    <2>3. CASE v7' = TRUE
        BY <2>3, Zenon
    <2> QED
        BY <1>3, <2>2, <2>3, Zenon
<1>7. v4' \in Seq(1..Len(v1) + 1)
    <2>1. v4 \in Seq(1..Len(v1) + 1)
        BY ReadersTypes
    <2>2. CASE v4' = v4
        BY <2>1, <2>2
    <2>3. CASE v4' = Append(v4, Put + 1)
        BY <2>1, <2>3, AppendProperties
    <2> QED
        BY <1>3, <2>2, <2>3
<1>8. v1' \in Seq({"sensor", "zero"}) /\ Milestone3!TypeOK' /\ Zeros' = Zeros
    <2>1. v8' \in {"running", "exited"}
        BY DEF ReadersInv, Milestone3!TypeOK
    <2> QED
        BY <1>1, <1>4, <1>6, <1>7, <2>1, ReadersTypes, ReadersTyped
<1>9. Taken' = Taken
    BY DEF Taken
<1>10. ThreadPlaces'
    BY <1>1, <1>4, <1>5, ReadersTypes DEF ThreadPlaces, Reader
<1>11. /\ DOMAIN v4 = 1..Len(v4) /\ Len(v4) \in Nat /\ \A k \in DOMAIN v4 : v4[k] \in Nat
       /\ \/ v4' = v4 /\ v7'
          \/ /\ DOMAIN v4' = 1..Len(v4) + 1 /\ v4'[Len(v4) + 1] = Put + 1
             /\ \A k \in DOMAIN v4 : v4'[k] = v4[k]
    <2>1. /\ v4 \in Seq(1..Len(v1) + 1) /\ DOMAIN v4 = 1..Len(v4) /\ Len(v4) \in Nat
          /\ \A k \in DOMAIN v4 : v4[k] \in Nat
        BY ReadersTypes
    <2>2. CASE v4' = v4 /\ v7' = TRUE
        BY <2>1, <2>2
    <2>3. CASE v4' = Append(v4, Put + 1)
        <3>1. /\ DOMAIN v4' = 1..Len(v4) + 1 /\ v4'[Len(v4) + 1] = Put + 1
              /\ \A k \in DOMAIN v4 : v4'[k] = v4[k]
            BY <2>1, <2>3, AppendProperties
        <3> QED
            BY <2>1, <3>1
    <2> QED
        BY <1>3, <2>2, <2>3
<1>12. BufferOrdered'
    <2>1. Put \in Nat /\ \A i \in Taken : i \in Nat
        BY ReadersTypes
    <2>2. CASE v4' = v4 /\ v7'
        BY <1>1, <1>9, <2>1, <2>2, <1>11 DEF BufferOrdered
    <2>3. CASE /\ DOMAIN v4' = 1..Len(v4) + 1 /\ v4'[Len(v4) + 1] = Put + 1
               /\ \A k \in DOMAIN v4 : v4'[k] = v4[k]
        <3>1. \A k \in DOMAIN v4' : k \in DOMAIN v4 \/ k = Len(v4) + 1
            BY <1>11, <2>3
        <3>2. \A k \in DOMAIN v4' : v4'[k] <= Put'
            BY <1>1, <1>11, <2>1, <2>3, <3>1 DEF BufferOrdered
        <3>3. \A j, k \in DOMAIN v4' : j < k => v4'[j] < v4'[k]
            <4> SUFFICES ASSUME NEW j \in DOMAIN v4', NEW k \in DOMAIN v4', j < k
                         PROVE  v4'[j] < v4'[k]
                OBVIOUS
            <4>1. j \in DOMAIN v4
                BY <1>11, <2>3
            <4> QED
                BY <1>1, <1>11, <2>1, <2>3, <3>1, <4>1 DEF BufferOrdered
        <3>4. \A i \in Taken : i <= Put' /\ \A k \in DOMAIN v4' : i < v4'[k]
            BY <1>1, <1>11, <2>1, <2>3, <3>1 DEF BufferOrdered
        <3>5. ASSUME ~v7', NEW i \in 1..Put'
              PROVE  i \in Taken \/ \E k \in DOMAIN v4' : v4'[k] = i
            <4>1. CASE i = Put + 1
                BY <1>11, <2>3, <4>1
            <4>2. CASE i \in 1..Put
                BY <1>1, <1>5, <1>6, <1>11, <2>3, <3>5, <4>2 DEF BufferOrdered
            <4> QED
                BY <2>1, <4>1, <4>2
        <3> QED
            BY <1>9, <3>2, <3>3, <3>4, <3>5 DEF BufferOrdered
    <2> QED
        BY <1>11, <2>2, <2>3
<1>13. TakenOnce'
    BY <1>1, <1>6, <1>8, <1>9 DEF TakenOnce
<1>14. ReadersAwake'
    <2>1. ASSUME NEW r \in Reader, v2'[r] = "end" PROVE v4' # << >> /\ v4'[1] \in Zeros'
        <3>1. v2[r] = "end"
            BY <1>4, <2>1
        <3>2. v4 # << >> /\ v4[1] \in Zeros
            BY <1>1, <1>5, <2>1, <3>1 DEF ReadersAwake
        <3>3. Len(v4) # 0
            <4>1. v4 \in Seq(1..Len(v1) + 1)
                BY ReadersTypes
            <4> QED
                BY <3>2, <4>1, EmptySeq
        <3>4. 1 \in DOMAIN v4 /\ v4'[1] = v4[1] /\ v4' # << >>
            BY <1>11, <3>3
        <3> QED
            BY <1>8, <3>2, <3>4
    <2>2. ASSUME v4' # << >>, NEW r \in Reader, v2'[r] = "wait"
          PROVE  \E s \in Reader : v2'[s] \in {"remove", "write"}
        <3>1. v2[r] = "wait" /\ p[r] = "wait"
            BY <1>2, <1>4, <2>2
        <3>2. CASE Awoken(p, v2')
            BY <3>1, <3>2 DEF Awoken
        <3>3. CASE v2' = p /\ v4' = v4
            BY <1>1, <1>2, <2>2, <3>1, <3>3 DEF ReadersAwake
        <3> QED
            BY <1>3, <3>2, <3>3
    <2> QED
        BY <2>1, <2>2 DEF ReadersAwake
<1>15. FileWritten'
    BY <1>4, <1>5 DEF FileWritten
<1> QED
    BY <1>8, <1>10, <1>12, <1>13, <1>14, <1>15 DEF ReadersInv

LEMMA ReadersCopy ==
    ASSUME ReadersInv, Milestone3!CopyRecord \/ Milestone3!AddEos
    PROVE  ReadersInv'
<1>1. v2["writer"] = "read" /\ v8' = v8 /\ v1' = v1 /\ v5' = v5 /\ v6' = v6 /\ Put = v3
    BY DEF Milestone3!CopyRecord, Milestone3!AddEos, Put
<1>2. ASSUME NEW next \in {"read", "end"}, NEW i, Milestone3!sbuffer_insert(i, next)
      PROVE  v2'["writer"] = next
    <2> DEFINE p == [v2 EXCEPT !["writer"] = next]
    <2>1. /\ p \in Counters
          /\ p["writer"] = next
        BY ReadersTypes
    <2>2. v2' = p \/ Awoken(p, v2')
        BY <1>2, <2>1, ReadersSignal DEF Milestone3!sbuffer_insert
    <2> QED
        BY <2>1, <2>2 DEF Awoken
<1>3. CASE Milestone3!CopyRecord
    <2>1. v3 < Len(v1) /\ v3' = v3 + 1 /\ Milestone3!sbuffer_insert(v3 + 1, "read")
        BY <1>3 DEF Milestone3!CopyRecord
    <2>2. Put' = Put + 1
        BY <1>1, <1>2, <2>1 DEF Put
    <2>3. Put + 1 \in 1..Len(v1) + 1 /\ v3' \in 0..Len(v1)
        BY <1>1, <2>1, ReadersTypes
    <2> QED
        BY <1>1, <2>1, <2>2, <2>3, ReadersInsert
<1>4. CASE Milestone3!AddEos
    <2>1. v3 = Len(v1) /\ v3' = v3 /\ Milestone3!sbuffer_insert(v3 + 1, "end")
        BY <1>4 DEF Milestone3!AddEos, Milestone3!Eos
    <2>2. Put' = Put + 1
        BY <1>1, <1>2, <2>1 DEF Put
    <2>3. Put + 1 \in 1..Len(v1) + 1 /\ v3' \in 0..Len(v1)
        BY <1>1, <2>1, ReadersTypes
    <2> QED
        BY <1>1, <2>1, <2>2, <2>3, ReadersInsert
<1> QED
    BY <1>3, <1>4

(* A reader that finds nothing sleeps; one that finds an id 0 passes the   *)
(* signal on and ends.                                                     *)
LEMMA ReadersStay ==
    ASSUME ReadersInv, NEW r \in Reader, v2[r] = "remove", v8' = v8,
           v1' = v1, v3' = v3, v4' = v4, v5' = v5, v6' = v6, v7' = v7,
           \/ v4 = << >> /\ v2' = [v2 EXCEPT ![r] = "wait"]
           \/ /\ v4 # << >> /\ v4[1] \in Zeros
              /\ v2' \in Milestone3!Signalled([v2 EXCEPT ![r] = "end"], Milestone3!Reader, "remove")
    PROVE  ReadersInv'
<1>1. ThreadPlaces /\ ReadersAwake /\ Zeros' = Zeros
    BY DEF ReadersInv, Zeros, Milestone3!IdOf, Milestone3!Eos
<1>2. v8' \in {"running", "exited"}
    BY DEF ReadersInv, Milestone3!TypeOK
<1>3. v2["main"] # "end" /\ v5[r] = 0 /\ r \in {"reader1", "reader2"}
    BY <1>1, ReadersTypes DEF ThreadPlaces, Reader
<1> DEFINE p == [v2 EXCEPT ![r] = "end"]
<1>4. /\ p \in Counters
      /\ p["main"] = v2["main"] /\ p["writer"] = v2["writer"] /\ p[r] = "end"
      /\ \A s \in Reader \ {r} : p[s] = v2[s]
    BY <1>3, ReadersTypes DEF Reader
<1>5. CASE v4 = << >> /\ v2' = [v2 EXCEPT ![r] = "wait"]
    <2>1. /\ v2' \in Counters
          /\ v2'["main"] = v2["main"] /\ v2'["writer"] = v2["writer"] /\ v2'[r] = "wait"
          /\ \A s \in Reader \ {r} : v2'[s] = v2[s]
        BY <1>3, <1>5, ReadersTypes DEF Reader
    <2>2. ThreadPlaces'
        BY <1>1, <1>3, <2>1, ReadersTypes DEF ThreadPlaces, Reader
    <2>3. ReadersAwake'
        BY <1>1, <1>3, <1>5, <2>1 DEF ReadersAwake
    <2> QED
        BY <1>2, <1>3, <2>1, <2>2, <2>3, ReadersMove
<1>6. CASE /\ v4 # << >> /\ v4[1] \in Zeros
           /\ v2' \in Milestone3!Signalled(p, Milestone3!Reader, "remove")
    <2>1. Awoken(p, v2')
        BY <1>4, <1>6, ReadersSignal
    <2>2. /\ v2' \in Counters
          /\ v2'["main"] = v2["main"] /\ v2'["writer"] = v2["writer"] /\ v2'[r] = "end"
          /\ \A s \in Reader \ {r} : v2'[s] = v2[s] \/ (v2[s] = "wait" /\ v2'[s] = "remove")
          /\ (\E s \in Reader : v2'[s] = "wait") => \E s \in Reader : v2'[s] = "remove"
        BY <1>4, <2>1 DEF Awoken
    <2> HIDE DEF p
    <2>3. ThreadPlaces'
        BY <1>1, <1>3, <2>2, ReadersTypes DEF ThreadPlaces, Reader
    <2>4. ReadersAwake'
        BY <1>1, <1>3, <1>6, <2>2 DEF ReadersAwake
    <2> QED
        BY <1>2, <1>3, <2>2, <2>3, <2>4, ReadersMove
<1> QED
    BY <1>5, <1>6

(* The head goes to the reader: it is taken, and nothing else changes.     *)
LEMMA ReadersTake ==
    ASSUME ReadersInv, NEW r \in Reader, v2[r] = "remove", v8' = v8,
           v1' = v1, v3' = v3, v6' = v6, v7' = v7, v4 # << >>, v4[1] \notin Zeros,
           v5' = [v5 EXCEPT ![r] = v4[1]], v4' = Tail(v4), v2' = [v2 EXCEPT ![r] = "write"]
    PROVE  ReadersInv'
<1>1. /\ v1 \in Seq({"sensor", "zero"}) /\ ThreadPlaces /\ BufferOrdered /\ TakenOnce
      /\ ReadersAwake
    BY DEF ReadersInv
<1>2. v2["main"] # "end" /\ v5[r] = 0 /\ r \in {"reader1", "reader2"}
    BY <1>1, ReadersTypes DEF ThreadPlaces, Reader
<1>3. /\ v2' \in Counters
      /\ v2'["main"] = v2["main"] /\ v2'["writer"] = v2["writer"] /\ v2'[r] = "write"
      /\ \A s \in Reader \ {r} : v2'[s] = v2[s]
    BY <1>2, ReadersTypes DEF Reader
<1>4. /\ DOMAIN v4 = 1..Len(v4) /\ Len(v4) \in Nat \ {0} /\ v4[1] \in 1..Len(v1) + 1
      /\ 1 \in DOMAIN v4
      /\ \A k \in DOMAIN v4 : v4[k] \in 1..Len(v1) + 1
      /\ v4' \in Seq(1..Len(v1) + 1) /\ DOMAIN v4' = 1..Len(v4) - 1
      /\ \A k \in DOMAIN v4' : v4'[k] = v4[k + 1]
    <2>1. v4 \in Seq(1..Len(v1) + 1)
        BY ReadersTypes
    <2>2. /\ DOMAIN v4 = 1..Len(v4) /\ Len(v4) \in Nat \ {0}
          /\ \A k \in DOMAIN v4 : v4[k] \in 1..Len(v1) + 1
        BY <2>1, EmptySeq, LenProperties
    <2>3. /\ v4' \in Seq(1..Len(v1) + 1) /\ Len(v4') = Len(v4) - 1
          /\ \A k \in 1..Len(v4') : v4'[k] = v4[k + 1]
        BY <2>1, HeadTailProperties
    <2> QED
        BY <2>2, <2>3, LenProperties
<1>5. /\ v5' \in [Reader -> 0..Len(v1) + 1] /\ v5'[r] = v4[1]
      /\ \A s \in Reader \ {r} : v5'[s] = v5[s]
    BY <1>4, ReadersTypes
<1>6. v1' \in Seq({"sensor", "zero"}) /\ Milestone3!TypeOK' /\ Zeros' = Zeros
    <2>1. v8' \in {"running", "exited"}
        BY DEF ReadersInv, Milestone3!TypeOK
    <2> QED
        BY <1>1, <1>3, <1>4, <1>5, <2>1, ReadersTypes, ReadersTyped
<1>7. Put' = Put /\ v4[1] <= Put
    BY <1>1, <1>3, <1>4 DEF Put, BufferOrdered
<1>8. Taken' = Taken \cup {v4[1]} /\ v4[1] \notin Taken
    <2>1. \A i \in Taken : i \in Nat /\ i < v4[1]
        <3>1. \A i \in Taken : i \in Nat
            BY ReadersTypes
        <3>2. \A i \in Taken : \A k \in DOMAIN v4 : i < v4[k]
            BY <1>1 DEF BufferOrdered
        <3> QED
            BY <1>4, <3>1, <3>2
    <2>2. \A i \in 1..Len(v1) + 1 :
             (\E s \in Reader : v5'[s] = i) <=> (i = v4[1] \/ \E s \in Reader : v5[s] = i)
        BY <1>2, <1>5
    <2>3. v4[1] \notin Taken
        BY <1>4, <2>1
    <2>4. Taken' = {i \in 1..Len(v1) + 1 :
              (\E k \in DOMAIN v6 : v6[k] = i) \/ \E s \in Reader : v5'[s] = i}
        BY DEF Taken
    <2>5. Taken = {i \in 1..Len(v1) + 1 :
              (\E k \in DOMAIN v6 : v6[k] = i) \/ \E s \in Reader : v5[s] = i}
        BY DEF Taken
    <2>6. \A i \in 1..Len(v1) + 1 : i \in Taken' <=> (i \in Taken \/ i = v4[1])
        BY <2>2, <2>4, <2>5
    <2>7. Taken \subseteq 1..Len(v1) + 1 /\ Taken' \subseteq 1..Len(v1) + 1
        BY <2>4, <2>5
    <2> QED
        BY <1>4, <2>3, <2>6, <2>7
<1>9. ThreadPlaces'
    <2>1. v4[1] # 0
        BY <1>4
    <2> QED
        BY <1>1, <1>2, <1>3, <1>5, <2>1, ReadersTypes DEF ThreadPlaces, Reader
<1>10. BufferOrdered'
    <2>1. \A k \in DOMAIN v4' : k + 1 \in DOMAIN v4 /\ v4'[k] = v4[k + 1] /\ v4[1] < v4[k + 1]
        <3>1. \A k \in DOMAIN v4' : k + 1 \in DOMAIN v4 /\ 1 < k + 1
            BY <1>4
        <3> QED
            BY <1>1, <1>4, <3>1 DEF BufferOrdered
    <2>2. \A k \in DOMAIN v4' : v4'[k] <= Put
        BY <1>1, <2>1 DEF BufferOrdered
    <2>3. \A j, k \in DOMAIN v4' : j < k => v4'[j] < v4'[k]
        <3>1. \A j, k \in DOMAIN v4' : j < k => j + 1 < k + 1
            BY <1>4
        <3> QED
            BY <1>1, <2>1, <3>1 DEF BufferOrdered
    <2>4. \A i \in Taken \cup {v4[1]} : i <= Put /\ \A k \in DOMAIN v4' : i < v4'[k]
        BY <1>1, <1>7, <2>1 DEF BufferOrdered
    <2>5. ASSUME ~v7, NEW i \in 1..Put
          PROVE  i \in Taken \cup {v4[1]} \/ \E k \in DOMAIN v4' : v4'[k] = i
        <3>1. i \in Taken \/ \E k \in DOMAIN v4 : v4[k] = i
            BY <1>1, <1>2, <2>5 DEF BufferOrdered
        <3>2. \A k \in DOMAIN v4 : k = 1 \/ (k - 1 \in DOMAIN v4' /\ (k - 1) + 1 = k)
            BY <1>4
        <3>3. \A k \in DOMAIN v4 : k = 1 \/ \E j \in DOMAIN v4' : v4'[j] = v4[k]
            BY <2>1, <3>2
        <3> QED
            BY <3>1, <3>3
    <2> QED
        BY <1>7, <1>8, <2>2, <2>3, <2>4, <2>5 DEF BufferOrdered
<1>11. TakenOnce'
    <2>1. \A i \in DOMAIN v6 : v6[i] \in Taken
        <3>1. \A i \in DOMAIN v6 : v6[i] \in 1..Len(v1) + 1
            BY ReadersTypes, LenProperties, ElementOfSeq
        <3> QED
            BY <3>1 DEF Taken
    <2>2. \A s \in Reader : v5[s] # 0 => v5[s] \in Taken
        <3>1. \A s \in Reader : v5[s] # 0 => v5[s] \in 1..Len(v1) + 1
            BY ReadersTypes
        <3> QED
            BY <3>1 DEF Taken
    <2>3. \A s \in Reader : \A i \in DOMAIN v6 : v6[i] # v5'[s]
        BY <1>1, <1>2, <1>5, <1>8, <2>1 DEF TakenOnce
    <2>4. v5'["reader1"] = v5'["reader2"] => v5'["reader1"] = 0
        <3>1. \A s \in Reader : v5[s] # v4[1]
            BY <1>4, <1>8, <2>2
        <3> QED
            BY <1>2, <1>5, <3>1 DEF Reader
    <2>5. ASSUME ~v7, NEW z \in Zeros PROVE v4[1] < z
        <3>1. z \in Nat /\ Put \in Nat /\ z >= 1
            BY ReadersTypes
        <3>2. CASE z > Put
            BY <1>4, <1>7, <3>1, <3>2
        <3>3. CASE z \in 1..Put
            <4>1. z \notin Taken
                BY <1>1 DEF TakenOnce
            <4>2. PICK k \in DOMAIN v4 : v4[k] = z
                BY <1>1, <1>2, <2>5, <3>3, <4>1 DEF BufferOrdered
            <4>3. k # 1 /\ 1 \in DOMAIN v4 /\ (k # 1 => 1 < k)
                BY <1>4, <4>2
            <4> QED
                BY <1>1, <4>2, <4>3 DEF BufferOrdered
        <3> QED
            BY <3>1, <3>2, <3>3
    <2> QED
        BY <1>1, <1>6, <1>8, <2>3, <2>4, <2>5 DEF TakenOnce
<1>12. ReadersAwake'
    <2>1. \A s \in Reader : v2'[s] = "end" => v2[s] = "end"
        BY <1>3
    <2>2. \A s \in Reader : v2[s] # "end"
        BY <1>1, <1>2 DEF ReadersAwake
    <2> QED
        BY <1>3, <2>1, <2>2 DEF ReadersAwake
<1>13. FileWritten'
    BY <1>2, <1>3 DEF FileWritten
<1> QED
    BY <1>6, <1>9, <1>10, <1>11, <1>12, <1>13 DEF ReadersInv

LEMMA ReadersRemove ==
    ASSUME ReadersInv, NEW r \in Reader, Milestone3!sbuffer_remove(r)
    PROVE  ReadersInv'
<1>1. v2[r] = "remove" /\ v1' = v1 /\ v3' = v3 /\ v6' = v6 /\ v7' = v7 /\ v8' = v8
    BY DEF Milestone3!sbuffer_remove
<1>2. v4 \in Seq(1..Len(v1) + 1)
    BY ReadersTypes
<1>3. CASE v4 = << >>
    <2>1. v2' = [v2 EXCEPT ![r] = "wait"] /\ v4' = v4 /\ v5' = v5
        BY <1>3 DEF Milestone3!sbuffer_remove
    <2> QED
        BY <1>1, <1>3, <2>1, ReadersStay
<1>4. CASE v4 # << >>
    <2>1. Head(v4) = v4[1] /\ v4[1] \in 1..Len(v1) + 1
        BY <1>2, <1>4, HeadTailProperties
    <2>2. v4[1] \in Zeros <=> Milestone3!IdOf(Head(v4)) = "zero"
        BY <2>1 DEF Zeros
    <2>3. CASE v4[1] \in Zeros
        <3>1. /\ v2' \in Milestone3!Signalled([v2 EXCEPT ![r] = "end"], Milestone3!Reader, "remove")
              /\ v4' = v4 /\ v5' = v5
            BY <1>4, <2>2, <2>3 DEF Milestone3!sbuffer_remove, Milestone3!RelayEos
        <3> QED
            BY <1>1, <1>4, <2>3, <3>1, ReadersStay
    <2>4. CASE v4[1] \notin Zeros
        <3>1. /\ v5' = [v5 EXCEPT ![r] = v4[1]] /\ v4' = Tail(v4)
              /\ v2' = [v2 EXCEPT ![r] = "write"]
            BY <1>4, <2>1, <2>2, <2>4 DEF Milestone3!sbuffer_remove
        <3> QED
            BY <1>1, <1>4, <2>4, <3>1, ReadersTake
    <2> QED
        BY <2>3, <2>4
<1> QED
    BY <1>3, <1>4

(* A record goes from the hands of a reader to the end of the file.        *)
LEMMA ReadersWrite ==
    ASSUME ReadersInv, NEW r \in Reader, Milestone3!WriteCsv(r)
    PROVE  ReadersInv'
<1>1. /\ v1 \in Seq({"sensor", "zero"}) /\ ThreadPlaces /\ BufferOrdered /\ TakenOnce
      /\ ReadersAwake
    BY DEF ReadersInv
<1>2. /\ v2[r] = "write" /\ v2' = [v2 EXCEPT ![r] = "remove"] /\ v6' = Append(v6, v5[r])
      /\ v5' = [v5 EXCEPT ![r] = 0]
      /\ v1' = v1 /\ v3' = v3 /\ v4' = v4 /\ v7' = v7 /\ v8' = v8
    BY DEF Milestone3!WriteCsv, Milestone3!Go
<1>3. /\ v2["main"] # "end" /\ r \in {"reader1", "reader2"}
      /\ v5[r] \in 1..Len(v1) + 1
    BY <1>1, <1>2, ReadersTypes DEF ThreadPlaces, Reader
<1>4. /\ v2' \in Counters
      /\ v2'["main"] = v2["main"] /\ v2'["writer"] = v2["writer"] /\ v2'[r] = "remove"
      /\ \A s \in Reader \ {r} : v2'[s] = v2[s]
    BY <1>2, <1>3, ReadersTypes DEF Reader
<1>5. /\ v5' \in [Reader -> 0..Len(v1) + 1] /\ v5'[r] = 0
      /\ \A s \in Reader \ {r} : v5'[s] = v5[s]
    BY <1>2, ReadersTypes
<1>6. /\ v6' \in Seq(1..Len(v1) + 1) /\ DOMAIN v6' = 1..Len(v6) + 1 /\ v6'[Len(v6) + 1] = v5[r]
      /\ DOMAIN v6 = 1..Len(v6) /\ Len(v6) \in Nat /\ \A k \in DOMAIN v6 : v6'[k] = v6[k]
    <2>1. v6 \in Seq(1..Len(v1) + 1)
        BY ReadersTypes
    <2> QED
        BY <1>2, <1>3, <2>1, AppendProperties, LenProperties
<1>7. \A k \in DOMAIN v6' : k \in DOMAIN v6 \/ k = Len(v6) + 1
    BY <1>6
<1>8. v1' \in Seq({"sensor", "zero"}) /\ Milestone3!TypeOK' /\ Zeros' = Zeros
    <2>1. v8' \in {"running", "exited"}
        BY <1>2 DEF ReadersInv, Milestone3!TypeOK
    <2> QED
        BY <1>1, <1>2, <1>4, <1>5, <1>6, <2>1, ReadersTypes, ReadersTyped
<1>9. Put' = Put /\ Taken' = Taken
    <2>1. Put' = Put
        BY <1>2, <1>4 DEF Put
    <2>2. ASSUME NEW i \in 1..Len(v1) + 1
          PROVE  ((\E k \in DOMAIN v6' : v6'[k] = i) \/ \E s \in Reader : v5'[s] = i)
                    <=> ((\E k \in DOMAIN v6 : v6[k] = i) \/ \E s \in Reader : v5[s] = i)
        <3>1. (\E k \in DOMAIN v6' : v6'[k] = i) <=> (i = v5[r] \/ \E k \in DOMAIN v6 : v6[k] = i)
            <4>1. \A k \in DOMAIN v6' : v6'[k] = i => (i = v5[r] \/ \E j \in DOMAIN v6 : v6[j] = i)
                BY <1>6, <1>7
            <4>2. \A k \in DOMAIN v6 : k \in DOMAIN v6'
                BY <1>6
            <4>3. Len(v6) + 1 \in DOMAIN v6'
                BY <1>6
            <4>4. i = v5[r] => \E k \in DOMAIN v6' : v6'[k] = i
                BY <1>6, <4>3
            <4>5. (\E k \in DOMAIN v6 : v6[k] = i) => \E k \in DOMAIN v6' : v6'[k] = i
                BY <1>6, <4>2
            <4> QED
                BY <4>1, <4>4, <4>5
        <3>2. (\E s \in Reader : v5[s] = i) <=> (i = v5[r] \/ \E s \in Reader : v5'[s] = i)
            BY <1>5
        <3> QED
            BY <3>1, <3>2
    <2> QED
        BY <1>2, <2>1, <2>2 DEF Taken
<1>10. ThreadPlaces'
    BY <1>1, <1>2, <1>3, <1>4, <1>5, ReadersTypes DEF ThreadPlaces, Reader
<1>11. BufferOrdered'
    BY <1>1, <1>2, <1>4, <1>9 DEF BufferOrdered
<1>12. TakenOnce'
    <2>1. \A i, j \in DOMAIN v6' : v6'[i] = v6'[j] => i = j
        BY <1>1, <1>6, <1>7 DEF TakenOnce
    <2>2. \A s \in Reader : \A i \in DOMAIN v6' : v6'[i] # v5'[s]
        <3>1. \A i \in DOMAIN v6' : v6'[i] # 0
            BY <1>6, LenProperties, ElementOfSeq
        <3>2. \A s \in Reader \ {r} : v5[s] # v5[r]
            BY <1>1, <1>3 DEF TakenOnce, Reader
        <3> QED
            BY <1>1, <1>5, <1>6, <1>7, <3>1, <3>2 DEF TakenOnce
    <2>3. v5'["reader1"] = v5'["reader2"] => v5'["reader1"] = 0
        BY <1>3, <1>5 DEF Reader
    <2> QED
        BY <1>1, <1>2, <1>8, <1>9, <2>1, <2>2, <2>3 DEF TakenOnce
<1>13. ReadersAwake'
    <2>1. \A s \in Reader : v2'[s] = "end" => v2[s] = "end"
        BY <1>4
    <2> QED
        BY <1>1, <1>2, <1>3, <1>4, <1>8, <2>1 DEF ReadersAwake
<1>14. FileWritten'
    BY <1>3, <1>4 DEF FileWritten
<1> QED
    BY <1>8, <1>10, <1>11, <1>12, <1>13, <1>14 DEF ReadersInv

LEMMA ReadersNext ==
    ASSUME ReadersInv, Milestone3!Next \/ UNCHANGED Milestone3!vars
    PROVE  ReadersInv'
<1>1. CASE Milestone3!Next
    BY <1>1, ReadersStart, ReadersFree, ReadersCopy, ReadersRemove, ReadersWrite,
       ReadersAccident DEF Milestone3!Next, Milestone3!Step, Milestone3!Reader, Reader
<1>2. CASE UNCHANGED Milestone3!vars
    <2>1. /\ v1' = v1 /\ v2' = v2 /\ v3' = v3 /\ v4' = v4 /\ v5' = v5 /\ v6' = v6 /\ v7' = v7
          /\ v8' = v8
        BY <1>2 DEF Milestone3!vars
    <2>2. v1' \in Seq({"sensor", "zero"}) /\ Milestone3!TypeOK' /\ Zeros' = Zeros
        BY <2>1 DEF ReadersInv, Milestone3!TypeOK, Milestone3!Eos, Zeros, Milestone3!IdOf
    <2>3. Put' = Put /\ Taken' = Taken
        BY <2>1 DEF Put, Taken
    <2> QED
        BY <2>1, <2>2, <2>3 DEF ReadersInv, ThreadPlaces, BufferOrdered, TakenOnce, ReadersAwake,
                                FileWritten
<1> QED
    BY <1>1, <1>2

(* The records are where they should be.                                   *)
LEMMA ReadersShare ==
    ASSUME ReadersInv
    PROVE  Milestone3!TypeOK /\ Milestone3!ReadersShareTheFile
<1>1. /\ ThreadPlaces /\ BufferOrdered /\ TakenOnce /\ ReadersAwake /\ FileWritten
    BY DEF ReadersInv
<1> DEFINE held  == {v5[r] : r \in Milestone3!Reader} \ {0}
           taken == Milestone3!Range(v6) \cup held
           zeros == {i \in 1..Milestone3!Eos : Milestone3!IdOf(i) = "zero"}
<1>2. zeros = Zeros
    BY DEF Zeros, Milestone3!Eos
<1>3. /\ \A i \in held : \E r \in Reader : v5[r] = i /\ i # 0
      /\ Milestone3!Reader = Reader
    BY DEF Milestone3!Reader, Reader
<1>4. taken = Taken
    <2>1. \A i : i \in held <=> i # 0 /\ \E r \in Reader : v5[r] = i
        BY <1>3
    <2>2. \A i : i \in Milestone3!Range(v6) <=> \E k \in DOMAIN v6 : v6[k] = i
        BY DEF Milestone3!Range
    <2>3. \A k \in DOMAIN v6 : v6[k] \in 1..Len(v1) + 1
        BY ReadersTypes, LenProperties, ElementOfSeq
    <2>4. \A r \in Reader : v5[r] = 0 \/ v5[r] \in 1..Len(v1) + 1
        BY ReadersTypes
    <2> HIDE DEF held
    <2> QED
        BY <2>1, <2>2, <2>3, <2>4 DEF Taken
<1>5. \A i, j \in DOMAIN v6 : v6[i] = v6[j] => i = j
    BY <1>1 DEF TakenOnce
<1>6. Milestone3!Range(v6) \cap held = {}
    BY <1>1, <1>3 DEF TakenOnce, Milestone3!Range
<1>7. taken \cap Milestone3!Range(v4) = {}
    <2>1. \A i \in Taken : i \in Nat /\ \A k \in DOMAIN v4 : i < v4[k]
        BY <1>1, ReadersTypes DEF BufferOrdered
    <2> QED
        BY <1>4, <2>1 DEF Milestone3!Range
<1>8. taken \cap zeros = {} /\ (~v7 => \A i \in taken, z \in zeros : i < z)
    BY <1>1, <1>2, <1>4 DEF TakenOnce
<1>9. (v4 # << >> /\ \E r \in Milestone3!Reader : v2[r] = "wait")
          => \E r \in Milestone3!Reader : v2[r] \in {"remove", "write"}
    BY <1>1, <1>3 DEF ReadersAwake
<1>10. (v2["main"] = "end" /\ ~v7) =>
          \A i \in 1..Len(v1) : (\A z \in zeros : i < z) => i \in Milestone3!Range(v6)
    BY <1>1, <1>2 DEF FileWritten, Milestone3!Range
<1> HIDE DEF zeros
<1> QED
    BY <1>5, <1>6, <1>7, <1>8, <1>9, <1>10
       DEF ReadersInv, Milestone3!ReadersShareTheFile, zeros
HIDE DEF Counters
-----------------------------------------------------------------------------
(* The first buffer, the first log and the servers.                        *)

AccountInv ==
    /\ program = "milestone3" => ReadersInv
    /\ program = "milestone2" => LogInv
    /\ program = "server" => ServerInv

LEMMA AccountNext ==
    ASSUME AccountInv, [Next]_vars
    PROVE  AccountInv'
<1>1. program' = program
    BY SameProgram
<1>2. ASSUME program = "milestone3" PROVE ReadersInv'
    <2>1. ReadersInv
        BY <1>2 DEF AccountInv
    <2>2. CASE UNCHANGED vars
        <3>1. UNCHANGED Milestone3!vars
            BY <2>2 DEF vars, Milestone3!vars
        <3> QED
            BY <2>1, <3>1, ReadersNext
    <2>3. CASE Next
        <3>1. \/ \E t \in {"main", "writer", "reader1", "reader2"} : Milestone3!Step(t)
              \/ Milestone3!Accident
            BY <1>2, <2>3 DEF Next, Step, Milestone3Step, Others, Accidents
        <3>2. DOMAIN v2 = {"reader1", "reader2", "main", "writer"}
            BY <2>1, ReadersTypes DEF Counters
        <3>3. Milestone3!Next
            BY <3>1, <3>2 DEF Milestone3!Next
        <3> QED
            BY <2>1, <3>3, ReadersNext
    <2> QED
        BY <2>2, <2>3
<1>3. ASSUME program = "milestone2" PROVE LogInv'
    <2>1. LogInv
        BY <1>3 DEF AccountInv
    <2>2. CASE UNCHANGED vars
        <3>1. UNCHANGED Milestone2!vars
            BY <2>2 DEF vars, Milestone2!vars
        <3> QED
            BY <2>1, <3>1, LogNext
    <2>3. CASE Next
        <3>1. \E t \in 0..4 : Milestone2!Step(t)
            BY <1>3, <2>3 DEF Next, Step, Milestone3Step, Others, Accidents
        <3>2. Milestone2!Next
            BY <3>1 DEF Milestone2!Next, Milestone2!Step
        <3> QED
            BY <2>1, <3>2, LogNext
    <2> QED
        BY <2>2, <2>3
<1>4. ASSUME program = "server" PROVE ServerInv'
    <2>1. ServerInv
        BY <1>4 DEF AccountInv
    <2>2. Server!Next \/ UNCHANGED Server!vars
        BY <1>4 DEF Next, Step, Milestone3Step, Others, Accidents, vars, Server!vars
    <2> QED
        BY <2>1, <2>2, ServerNext
<1> QED
    BY <1>1, <1>2, <1>3, <1>4 DEF AccountInv

(* Whatever the file, whichever of the two readers takes a record, and     *)
(* whichever insertions fail: each record is in one place, in its turn,    *)
(* nobody sleeps over one, and at the end all are written that should be.  *)
(* Whatever the outcome of fork, of the pipe and of every fprintf, a log   *)
(* that is whole tells what was stored.  However many sensors connect,     *)
(* whatever they send and however they leave, the descriptors and counts   *)
(* of the servers are right.                                               *)
THEOREM RecordsCorrect == Safety => []RecordsAreAccountedFor
<1>1. Init => AccountInv
    <2> SUFFICES ASSUME Init PROVE AccountInv
        OBVIOUS
    <2>1. program = "milestone3" => Milestone3!Init
        BY DEF Init
    <2>2. program = "milestone2" => Milestone2!Init
        BY DEF Init
    <2>3. program = "server" => Server!Init
        BY DEF Init
    <2> QED
        BY <2>1, <2>2, <2>3, ReadersInit, LogInit, ServerInit DEF AccountInv
<1>2. AccountInv /\ [Next]_vars => AccountInv'
    BY AccountNext
<1>3. AccountInv => RecordsAreAccountedFor
    BY ReadersShare, ServerAccounts DEF AccountInv, RecordsAreAccountedFor, LogInv, ServerInv
<1> QED
    BY <1>1, <1>2, <1>3, PTL DEF Safety
==============================================================================
