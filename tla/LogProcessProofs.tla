--------------------------- MODULE LogProcessProofs ---------------------------
(***************************************************************************)
(* Proofs about LogProcess: whatever the number of threads and messages,   *)
(* the lines are numbered without a gap and every message is logged once.  *)
(* The invariant says what pipeMutex protects: from the lock to the unlock *)
(* the shared wmsg and counter belong to the holder, and the counter is    *)
(* ahead of the lines by the one line that is formatted and not written.   *)
(***************************************************************************)
EXTENDS LogProcess, FiniteSetTheorems, SequenceTheorems, TLAPS

(* The holder of pipeMutex is the one thread between lock and unlock.      *)
MutexHeld ==
    \A t \in Threads : pc[t] \in {"format", "write", "unlock"} <=> pipeMutex = t

(* Between format and write the line waiting in wmsg has the next number,  *)
(* at any other time the counter has it.                                   *)
NextNumber ==
    /\ \A t \in Threads : pc[t] = "write" =>
            wmsg = <<Len(lines), t>> /\ counter = Len(lines) + 1
    /\ (\A t \in Threads : pc[t] # "write") => counter = Len(lines)

(* A thread between lock and write has begun a message.                    *)
Begun == \A t \in Threads : pc[t] \in {"format", "write"} => msgs[t] > 0

IInv == TypeOK /\ MutexHeld /\ NextNumber /\ Begun /\ LinesNumbered /\ MessagesComplete

(* The initial states satisfy the invariant.                               *)
LEMMA InitInv == Init => IInv
<1> SUFFICES ASSUME Init PROVE IInv
    OBVIOUS
<1>1. TypeOK
    BY LogAssumption DEF Init, TypeOK, LogAssumption
<1>2. MutexHeld /\ NextNumber /\ Begun /\ LinesNumbered
    BY LogAssumption DEF Init, MutexHeld, NextNumber, Begun, LinesNumbered, LogAssumption
<1>3. MessagesComplete
    <2>1. \A t : LinesOf(t) = {}
        BY DEF Init, LinesOf
    <2>2. Cardinality({}) = 0
        BY FS_EmptySet
    <2> QED
        BY <2>1, <2>2 DEF Init, MessagesComplete
<1> QED
    BY <1>1, <1>2, <1>3 DEF IInv

(* A step that leaves the lines alone keeps what is said of them alone.    *)
LEMMA LinesKept ==
    ASSUME UNCHANGED lines
    PROVE  /\ LinesNumbered => LinesNumbered'
           /\ \A t : LinesOf(t)' = LinesOf(t)
BY DEF LinesNumbered, LinesOf

(* A thread takes pipeMutex and begins a message.                          *)
LEMMA LockPipeInv ==
    ASSUME IInv, NEW t \in Threads, LockPipe(t)
    PROVE  IInv'
<1>1. /\ TypeOK /\ MutexHeld /\ NextNumber /\ Begun /\ LinesNumbered /\ MessagesComplete
      /\ pc[t] = "idle" /\ pipeMutex = NULL /\ pipeMutex' = t /\ msgs[t] < MaxMsgs
      /\ msgs' = [msgs EXCEPT ![t] = @ + 1] /\ pc' = [pc EXCEPT ![t] = "format"]
      /\ UNCHANGED <<wmsg, counter, mainpc, running, pipe, lpc, character, file, lines>>
    BY DEF IInv, LockPipe, logger
<1>2. /\ pc \in [Threads -> {"idle", "format", "write", "unlock", "ended"}]
      /\ msgs \in [Threads -> 0..MaxMsgs] /\ MaxMsgs \in Nat /\ NULL \notin Threads
    BY <1>1, LogAssumption DEF TypeOK, LogAssumption
<1>3. TypeOK'
    <2>1. msgs[t] + 1 \in 0..MaxMsgs
        BY <1>1, <1>2
    <2>2. /\ pc' \in [Threads -> {"idle", "format", "write", "unlock", "ended"}]
          /\ msgs' \in [Threads -> 0..MaxMsgs]
        BY <1>1, <1>2, <2>1
    <2> QED
        BY <1>1, <2>2 DEF TypeOK
<1>4. MutexHeld' /\ NextNumber' /\ Begun'
    BY <1>1, <1>2 DEF MutexHeld, NextNumber, Begun
<1>5. MessagesComplete'
    BY <1>1, <1>2, LinesKept DEF MessagesComplete
<1> QED
    BY <1>1, <1>3, <1>4, <1>5, LinesKept DEF IInv

(* The holder formats its line with the next number.                       *)
LEMMA FormatInv ==
    ASSUME IInv, NEW t \in Threads, Format(t)
    PROVE  IInv'
<1>1. /\ TypeOK /\ MutexHeld /\ NextNumber /\ Begun /\ LinesNumbered /\ MessagesComplete
      /\ pc[t] = "format" /\ wmsg' = <<counter, t>> /\ counter' = counter + 1
      /\ pc' = [pc EXCEPT ![t] = "write"]
      /\ UNCHANGED <<msgs, pipeMutex, mainpc, running, pipe, lpc, character, file, lines>>
    BY DEF IInv, Format, Number, logger
<1>2. /\ pc \in [Threads -> {"idle", "format", "write", "unlock", "ended"}]
      /\ counter \in Nat
    BY <1>1 DEF TypeOK
<1>3. \A u \in Threads : pc[u] = "write" => u = t
    BY <1>1 DEF MutexHeld
<1>4. TypeOK'
    <2>1. /\ pc' \in [Threads -> {"idle", "format", "write", "unlock", "ended"}]
          /\ counter' \in Nat /\ wmsg' \in Nat \X Threads
        BY <1>1, <1>2
    <2> QED
        BY <1>1, <2>1 DEF TypeOK
<1>5. MutexHeld' /\ Begun'
    BY <1>1, <1>2 DEF MutexHeld, Begun
<1>6. NextNumber'
    BY <1>1, <1>2, <1>3 DEF NextNumber
<1>7. MessagesComplete'
    BY <1>1, <1>2, LinesKept DEF MessagesComplete
<1> QED
    BY <1>1, <1>4, <1>5, <1>6, <1>7, LinesKept DEF IInv

(* The holder writes the line: it gets the number the counter had, and its *)
(* thread one message more.                                                *)
LEMMA WriteInv ==
    ASSUME IInv, NEW t \in Threads, Write(t)
    PROVE  IInv'
<1>1. /\ TypeOK /\ MutexHeld /\ NextNumber /\ Begun /\ LinesNumbered /\ MessagesComplete
      /\ pc[t] = "write" /\ Len(pipe) + LineLen <= PipeCap
      /\ pipe' = pipe \o Chars(wmsg) /\ lines' = Append(lines, wmsg)
      /\ pc' = [pc EXCEPT ![t] = "unlock"]
      /\ UNCHANGED <<msgs, pipeMutex, wmsg, counter, mainpc, running, lpc, character, file>>
    BY DEF IInv, Write, Room, logger
<1>2. /\ pc \in [Threads -> {"idle", "format", "write", "unlock", "ended"}]
      /\ msgs \in [Threads -> 0..MaxMsgs] /\ lines \in Seq(Nat \X Threads)
      /\ LineLen \in Nat \ {0} /\ PipeCap \in Nat /\ MaxMsgs \in Nat
      /\ pipe \in Seq(Characters) /\ Len(lines) \in Nat
    BY <1>1, LogAssumption DEF TypeOK, LogAssumption
<1>3. wmsg = <<Len(lines), t>> /\ counter = Len(lines) + 1
    BY <1>1 DEF NextNumber
<1>4. wmsg \in Nat \X Threads /\ wmsg[1] = Len(lines) /\ wmsg[2] = t
    BY <1>2, <1>3
<1>5. /\ lines' \in Seq(Nat \X Threads) /\ Len(lines') = Len(lines) + 1
      /\ lines'[Len(lines) + 1] = wmsg
      /\ \A i \in 1..Len(lines) : lines'[i] = lines[i]
    BY <1>1, <1>2, <1>4
<1>6. TypeOK'
    <2>1. Chars(wmsg) \in Seq(Characters) /\ Len(Chars(wmsg)) = LineLen
        <3>1. \A k \in 1..LineLen : <<wmsg, k>> \in Characters
            BY <1>4 DEF Characters
        <3> QED
            BY <1>2, <3>1 DEF Chars
    <2>2. pipe' \in Seq(Characters) /\ Len(pipe') = Len(pipe) + LineLen
        <3> DEFINE more == Chars(wmsg)
        <3>1. more \in Seq(Characters) /\ Len(more) = LineLen /\ pipe' = pipe \o more
            BY <1>1, <2>1
        <3> HIDE DEF more
        <3>2. pipe \o more \in Seq(Characters) /\ Len(pipe \o more) = Len(pipe) + Len(more)
            BY <1>2, <3>1, ConcatProperties
        <3> QED
            BY <3>1, <3>2
    <2>3. pc' \in [Threads -> {"idle", "format", "write", "unlock", "ended"}]
        BY <1>1, <1>2
    <2> QED
        BY <1>1, <1>5, <2>2, <2>3 DEF TypeOK
<1>7. MutexHeld' /\ Begun'
    BY <1>1, <1>2 DEF MutexHeld, Begun
<1>8. NextNumber'
    <2>1. \A u \in Threads : pc'[u] # "write"
        BY <1>1, <1>2 DEF MutexHeld
    <2> QED
        BY <1>1, <1>3, <1>5, <2>1 DEF NextNumber
<1>9. LinesNumbered'
    <2> SUFFICES ASSUME NEW i \in 1..Len(lines') PROVE lines'[i][1] = i - 1
        BY DEF LinesNumbered
    <2>1. CASE i = Len(lines) + 1
        BY <1>2, <1>4, <1>5, <2>1
    <2>2. CASE i \in 1..Len(lines)
        BY <1>1, <1>5, <2>2 DEF LinesNumbered
    <2> QED
        BY <1>2, <1>5, <2>1, <2>2
<1>10. MessagesComplete'
    <2> DEFINE n == Len(lines)
    <2>1. /\ n \in Nat /\ Len(lines') = n + 1 /\ lines'[n + 1][2] = t
          /\ \A i \in 1..n : lines'[i][2] = lines[i][2]
        BY <1>2, <1>4, <1>5
    <2> HIDE DEF n
    <2>2. \A u : /\ LinesOf(u) = {i \in 1..n : lines[i][2] = u}
                 /\ LinesOf(u)' = {i \in 1..(n + 1) : lines'[i][2] = u}
        BY <2>1 DEF LinesOf, n
    <2>3. 1..(n + 1) = 1..n \cup {n + 1}
        BY <2>1
    <2>4. LinesOf(t)' = LinesOf(t) \cup {n + 1}
        BY <2>1, <2>2, <2>3
    <2>5. Cardinality(LinesOf(t)') = Cardinality(LinesOf(t)) + 1
        <3>1. IsFiniteSet(LinesOf(t))
            <4>1. IsFiniteSet(1..Len(lines)) /\ LinesOf(t) \subseteq 1..Len(lines)
                BY <1>2, FS_Interval DEF LinesOf
            <4> QED
                BY <4>1, FS_Subset
        <3>2. n + 1 \notin LinesOf(t)
            BY <2>1, <2>2
        <3> QED
            BY <2>4, <3>1, <3>2, FS_AddElement
    <2>6. \A u \in Threads \ {t} : LinesOf(u)' = LinesOf(u)
        BY <2>1, <2>2, <2>3
    <2>7. Cardinality(LinesOf(t)) = msgs[t] - 1 /\ msgs[t] \in Nat
        BY <1>1, <1>2 DEF MessagesComplete
    <2> QED
        BY <1>1, <1>2, <2>5, <2>6, <2>7 DEF MessagesComplete
<1> QED
    BY <1>6, <1>7, <1>8, <1>9, <1>10 DEF IInv

(* The holder gives pipeMutex back.                                        *)
LEMMA UnlockPipeInv ==
    ASSUME IInv, NEW t \in Threads, UnlockPipe(t)
    PROVE  IInv'
<1>1. /\ TypeOK /\ MutexHeld /\ NextNumber /\ Begun /\ LinesNumbered /\ MessagesComplete
      /\ pc[t] = "unlock" /\ pipeMutex' = NULL /\ pc' = [pc EXCEPT ![t] = "idle"]
      /\ UNCHANGED <<msgs, wmsg, counter, mainpc, running, pipe, lpc, character, file, lines>>
    BY DEF IInv, UnlockPipe, logger
<1>2. /\ pc \in [Threads -> {"idle", "format", "write", "unlock", "ended"}]
      /\ NULL \notin Threads
    BY <1>1, LogAssumption DEF TypeOK, LogAssumption
<1>3. TypeOK'
    <2>1. pc' \in [Threads -> {"idle", "format", "write", "unlock", "ended"}]
        BY <1>1, <1>2
    <2> QED
        BY <1>1, <2>1 DEF TypeOK
<1>4. MutexHeld' /\ NextNumber' /\ Begun'
    BY <1>1, <1>2 DEF MutexHeld, NextNumber, Begun
<1>5. MessagesComplete'
    BY <1>1, <1>2, LinesKept DEF MessagesComplete
<1> QED
    BY <1>1, <1>3, <1>4, <1>5, LinesKept DEF IInv

(* A thread that ends holds nothing.                                       *)
LEMMA EndThreadInv ==
    ASSUME IInv, NEW t \in Threads, EndThread(t)
    PROVE  IInv'
<1>1. /\ TypeOK /\ MutexHeld /\ NextNumber /\ Begun /\ LinesNumbered /\ MessagesComplete
      /\ pc[t] = "idle" /\ pc' = [pc EXCEPT ![t] = "ended"]
      /\ UNCHANGED <<msgs, pipeMutex, wmsg, counter, mainpc, running, pipe, lpc,
                     character, file, lines>>
    BY DEF IInv, EndThread, logger
<1>2. pc \in [Threads -> {"idle", "format", "write", "unlock", "ended"}]
    BY <1>1 DEF TypeOK
<1>3. TypeOK'
    <2>1. pc' \in [Threads -> {"idle", "format", "write", "unlock", "ended"}]
        BY <1>1, <1>2
    <2> QED
        BY <1>1, <2>1 DEF TypeOK
<1>4. MutexHeld' /\ NextNumber' /\ Begun'
    BY <1>1, <1>2 DEF MutexHeld, NextNumber, Begun
<1>5. MessagesComplete'
    BY <1>1, <1>2, LinesKept DEF MessagesComplete
<1> QED
    BY <1>1, <1>3, <1>4, <1>5, LinesKept DEF IInv

(* What the main thread and the logger do concerns the pipe and the file.  *)
LEMMA OtherInv ==
    ASSUME IInv, MainStep \/ BrokenPipe \/ ExitFailure \/ LoggerStep \/ UNCHANGED vars
    PROVE  IInv'
<1>1. /\ TypeOK /\ MutexHeld /\ NextNumber /\ Begun /\ LinesNumbered /\ MessagesComplete
      /\ UNCHANGED <<pc, msgs, pipeMutex, wmsg, counter, lines>>
    BY DEF IInv, MainStep, JoinThreads, WriteDollar, WaitLogger, BrokenPipe,
           ExitFailure, LoggerStep, OpenLog, LoggerCrash, ReadByte, ReadWithoutFile,
           gateway, logger, vars
<1>2. /\ pipe \in Seq(Characters) /\ Len(pipe) <= PipeCap /\ PipeCap \in Nat
      /\ character \in Characters \cup {Garbage}
      /\ file \in Seq(Characters \cup {Garbage}) /\ Len(file) <= MaxFile /\ MaxFile \in Nat
    BY <1>1, LogAssumption DEF TypeOK, LogAssumption
<1>3. TypeOK'
    <2>1. CASE JoinThreads \/ WaitLogger \/ BrokenPipe \/ ExitFailure \/ OpenLog
               \/ LoggerCrash \/ UNCHANGED vars
        <3>1. /\ mainpc' \in {"join", "dollar", "wait", "done"}
              /\ running' \in BOOLEAN
              /\ lpc' \in {"start", "read", "noFile", "doomed", "ended", "crashed"}
              /\ UNCHANGED <<pipe, character, file>>
            BY <1>1, <2>1 DEF JoinThreads, WaitLogger, BrokenPipe, ExitFailure, OpenLog,
                              LoggerCrash, gateway, logger, vars, TypeOK
        <3> QED
            BY <1>1, <3>1 DEF TypeOK
    <2>2. CASE WriteDollar
        <3>1. pipe' \in Seq(Characters) /\ Len(pipe') <= PipeCap
            BY <1>2, <2>2 DEF WriteDollar, Room, Characters
        <3> QED
            BY <1>1, <2>2, <3>1 DEF TypeOK, WriteDollar, logger
    <2>3. CASE ReadByte \/ ReadWithoutFile
        <3>1. CharacterRead \in Characters \cup {Garbage}
            BY <1>2 DEF CharacterRead
        <3>2. pipe' \in Seq(Characters) /\ Len(pipe') <= PipeCap
            <4>1. CASE pipe = << >>
                BY <1>2, <2>3, <4>1 DEF ReadByte, ReadWithoutFile, ReadCharacter
            <4>2. CASE pipe # << >>
                <5>1. pipe' = Tail(pipe)
                    BY <2>3, <4>2 DEF ReadByte, ReadWithoutFile, ReadCharacter
                <5> QED
                    BY <1>2, <4>2, <5>1
            <4> QED
                BY <4>1, <4>2
        <3>3. file' \in Seq(Characters \cup {Garbage}) /\ Len(file') <= MaxFile
            BY <1>2, <2>3, <3>1 DEF ReadByte, ReadWithoutFile
        <3> QED
            BY <1>1, <2>3, <3>1, <3>2, <3>3
               DEF TypeOK, ReadByte, ReadWithoutFile, ReadCharacter, gateway
    <2> QED
        BY <2>1, <2>2, <2>3 DEF MainStep, LoggerStep
<1>4. MutexHeld' /\ NextNumber' /\ Begun'
    BY <1>1 DEF MutexHeld, NextNumber, Begun
<1>5. MessagesComplete'
    BY <1>1, LinesKept DEF MessagesComplete
<1> QED
    BY <1>1, <1>3, <1>4, <1>5, LinesKept DEF IInv

(* Every step keeps the invariant.                                         *)
LEMMA NextInv == IInv /\ [Next]_vars => IInv'
<1> SUFFICES ASSUME IInv, [Next]_vars PROVE IInv'
    OBVIOUS
<1>1. CASE \E t \in Threads : ThreadStep(t)
    BY <1>1, LockPipeInv, FormatInv, WriteInv, UnlockPipeInv, EndThreadInv DEF ThreadStep
<1>2. CASE MainStep \/ BrokenPipe \/ ExitFailure \/ LoggerStep \/ UNCHANGED vars
    BY <1>2, OtherInv
<1>3. CASE Terminated
    BY <1>3, OtherInv DEF Terminated
<1> QED
    BY <1>1, <1>2, <1>3 DEF Next

(* The invariant holds throughout.                                         *)
THEOREM Inductive == Safety => []IInv
    BY InitInv, NextInv, PTL DEF Safety

(* Every variable keeps its type; the pipe never holds more than it can.   *)
THEOREM TypeCorrect == Safety => []TypeOK
<1>1. IInv => TypeOK
    BY DEF IInv
<1> QED
    BY <1>1, Inductive, PTL

(* The one counter numbers the lines of all threads without gap or repeat. *)
THEOREM NumbersCorrect == Safety => []LinesNumbered
<1>1. IInv => LinesNumbered
    BY DEF IInv
<1> QED
    BY <1>1, Inductive, PTL

(* Although all threads share wmsg, no message is lost or logged twice, or *)
(* under another thread.                                                   *)
THEOREM MessagesCorrect == Safety => []MessagesComplete
<1>1. IInv => MessagesComplete
    BY DEF IInv
<1> QED
    BY <1>1, Inductive, PTL

-----------------------------------------------------------------------------
(* The way of the characters through the pipe into the file.               *)

(* A thread that has ended stays so, and main waits until all have.        *)
JoinedAll == mainpc # "join" => AllEnded

(* Nothing is lost on the way but what a dying logger has in hand.         *)
Sending ==
    /\ mainpc \in {"join", "dollar"} /\ lpc # "ended"
    /\ Taken \o pipe = AllChars

(* The $ is behind all lines.                                              *)
Closing ==
    /\ mainpc \in {"wait", "done"} /\ lpc \in {"start", "read", "noFile"}
    /\ \E rest \in Seq(Characters) : pipe = Append(rest, Dollar) /\ file \o rest = AllChars

Complete == lpc = "ended" /\ file = AllChars /\ pipe = << >>

(* The gateway has gone without a $: the last character comes for ever.    *)
Repeating == ~running /\ lpc # "ended" /\ pipe = << >> /\ character # Dollar

(* The write end is closed, and the logger dies for want of a file.        *)
Broken == ~WriteEndOpen /\ lpc \in {"doomed", "crashed"}

Way == Sending \/ Closing \/ Complete \/ Repeating \/ Broken

LInv == IInv /\ JoinedAll /\ Way

(* What is not written is next in the pipe: reading moves one character.   *)
LEMMA MoveOne ==
    ASSUME NEW S, NEW f \in Seq(S), NEW p \in Seq(S), p # << >>
    PROVE  Append(f, Head(p)) \o Tail(p) = f \o p
OBVIOUS

LEMMA HeadTailOfAppend ==
    ASSUME NEW S, NEW r \in Seq(S), NEW d \in S, r # << >>
    PROVE  /\ Head(Append(r, d)) = Head(r) /\ Tail(Append(r, d)) = Append(Tail(r), d)
           /\ Append(r, d) # << >>
OBVIOUS

LEMMA OneElement ==
    ASSUME NEW S, NEW d \in S
    PROVE  /\ Head(Append(<< >>, d)) = d /\ Tail(Append(<< >>, d)) = << >>
           /\ Append(<< >>, d) # << >>
OBVIOUS

LEMMA ConcatIs ==
    ASSUME NEW S, NEW f \in Seq(S), NEW g \in Seq(S)
    PROVE  f \o g = [i \in 1..Len(f) + Len(g) |-> IF i <= Len(f) THEN f[i] ELSE g[i - Len(f)]]
<1>1. /\ f \o g \in Seq(S) /\ Len(f \o g) = Len(f) + Len(g) /\ Len(f) + Len(g) \in Nat
      /\ \A i \in 1..Len(f) + Len(g) :
            (f \o g)[i] = IF i <= Len(f) THEN f[i] ELSE g[i - Len(f)]
    BY ConcatProperties
<1>2. f \o g \in [1..Len(f \o g) -> S]
    BY <1>1, LenProperties
<1> QED
    BY <1>1, <1>2

(* The line and the place in it of a character, from its place in the log. *)
LEMMA Place ==
    ASSUME NEW L \in Nat \ {0}, NEW n \in Nat, NEW i \in 1..n * L
    PROVE  /\ (i - 1) \div L \in 0..n - 1
           /\ (i - 1) % L \in 0..L - 1
OBVIOUS

LEMMA PlaceInLast ==
    ASSUME NEW L \in Nat \ {0}, NEW n \in Nat, NEW k \in 0..L - 1
    PROVE  (n * L + k) \div L = n /\ (n * L + k) % L = k
OBVIOUS

(* The characters of the lines are a sequence, and none of them is a $.    *)
LEMMA AllCharsType ==
    ASSUME TypeOK
    PROVE  /\ AllChars \in Seq((Nat \X Threads) \X (1..LineLen))
           /\ AllChars \in Seq(Characters)
           /\ Len(AllChars) = Len(lines) * LineLen
<1> DEFINE n == Len(lines)
           S == (Nat \X Threads) \X (1..LineLen)
<1>1. /\ LineLen \in Nat \ {0} /\ n \in Nat /\ n * LineLen \in Nat
      /\ lines \in Seq(Nat \X Threads)
    BY LogAssumption DEF LogAssumption, TypeOK
<1>2. ASSUME NEW i \in 1..n * LineLen
      PROVE  <<lines[((i - 1) \div LineLen) + 1], ((i - 1) % LineLen) + 1>> \in S
    <2>1. (i - 1) \div LineLen \in 0..n - 1 /\ (i - 1) % LineLen \in 0..LineLen - 1
        BY <1>1, Place
    <2>2. /\ ((i - 1) \div LineLen) + 1 \in 1..n
          /\ ((i - 1) % LineLen) + 1 \in 1..LineLen
        BY <1>1, <2>1
    <2>3. lines[((i - 1) \div LineLen) + 1] \in Nat \X Threads
        BY <1>1, <2>2
    <2> QED
        BY <2>2, <2>3
<1>3. AllChars \in [1..n * LineLen -> S]
    BY <1>2 DEF AllChars
<1>4. AllChars \in Seq(S) /\ Len(AllChars) = n * LineLen
    <2> HIDE DEF S, n
    <2> QED
        BY <1>1, <1>3
<1>5. AllChars \in Seq(Characters)
    BY <1>4 DEF Characters
<1> QED
    BY <1>4, <1>5

(* A line more has its characters behind those of the others.              *)
LEMMA OneLineMore ==
    ASSUME TypeOK, NEW line \in Nat \X Threads, lines' = Append(lines, line)
    PROVE  AllChars' = AllChars \o Chars(line)
<1> DEFINE n == Len(lines)
           L == LineLen
           more == AllChars \o Chars(line)
           C(i) == <<lines[((i - 1) \div L) + 1], ((i - 1) % L) + 1>>
           D(i) == <<lines'[((i - 1) \div L) + 1], ((i - 1) % L) + 1>>
<1>1. /\ L \in Nat \ {0} /\ n \in Nat /\ n * L \in Nat /\ (n + 1) * L = n * L + L
      /\ lines \in Seq(Nat \X Threads)
    BY LogAssumption DEF LogAssumption, TypeOK
<1>2. /\ Len(lines') = n + 1 /\ lines'[n + 1] = line
      /\ \A i \in 1..n : lines'[i] = lines[i]
    BY <1>1
<1>3. AllChars' = [i \in 1..n * L + L |-> D(i)]
    BY <1>1, <1>2 DEF AllChars
<1>4. AllChars = [i \in 1..n * L |-> C(i)] /\ Len(AllChars) = n * L
    BY AllCharsType DEF AllChars
<1>5. Chars(line) \in Seq({line} \X (1..L)) /\ Len(Chars(line)) = L
    BY <1>1 DEF Chars
<1>6. more = [i \in 1..n * L + L |-> IF i <= n * L THEN AllChars[i] ELSE Chars(line)[i - n * L]]
    <2>1. AllChars \in Seq(Characters \cup ({line} \X (1..L)))
        BY AllCharsType
    <2>2. Chars(line) \in Seq(Characters \cup ({line} \X (1..L)))
        BY <1>5
    <2>3. more = [i \in 1..Len(AllChars) + Len(Chars(line)) |->
                    IF i <= Len(AllChars) THEN AllChars[i] ELSE Chars(line)[i - Len(AllChars)]]
        BY <2>1, <2>2, ConcatIs
    <2> HIDE DEF more
    <2> QED
        BY <1>4, <1>5, <2>3
<1>7. ASSUME NEW i \in 1..n * L + L
      PROVE  D(i) = IF i <= n * L THEN AllChars[i] ELSE Chars(line)[i - n * L]
    <2>1. CASE i <= n * L
        <3>1. i \in 1..n * L
            BY <1>1, <2>1
        <3>2. (i - 1) \div L \in 0..n - 1
            BY <1>1, <3>1, Place
        <3>3. ((i - 1) \div L) + 1 \in 1..n
            BY <1>1, <3>2
        <3>4. lines'[((i - 1) \div L) + 1] = lines[((i - 1) \div L) + 1]
            BY <1>2, <3>3
        <3> QED
            BY <1>4, <2>1, <3>1, <3>4
    <2>2. CASE ~(i <= n * L)
        <3> DEFINE k == i - 1 - n * L
        <3>1. k \in 0..L - 1 /\ i - 1 = n * L + k /\ i - n * L = k + 1 /\ k + 1 \in 1..L
            BY <1>1, <2>2
        <3>2. (n * L + k) \div L = n /\ (n * L + k) % L = k
            <4> HIDE DEF k
            <4> QED
                BY <1>1, <3>1, PlaceInLast
        <3>3. (i - 1) \div L = n /\ (i - 1) % L = k
            BY <3>1, <3>2
        <3>4. D(i) = <<line, k + 1>>
            BY <1>2, <3>3
        <3>5. Chars(line)[i - n * L] = <<line, k + 1>>
            BY <3>1 DEF Chars
        <3> QED
            BY <2>2, <3>4, <3>5
    <2> QED
        BY <2>1, <2>2
<1> HIDE DEF C, D, more
<1> QED
    BY <1>3, <1>6, <1>7 DEF more

(* What has been taken out of the pipe is characters, and is the file      *)
(* unless the logger is about to crash.                                    *)
LEMMA TakenType ==
    ASSUME TypeOK
    PROVE  /\ Taken \in Seq(Characters \cup {Garbage})
           /\ lpc \notin {"doomed", "crashed"} => Taken = file
           /\ lpc = "ended" => Taken = file
<1> DEFINE S == Characters \cup {Garbage}
<1>1. file \in Seq(S) /\ character \in S
    BY DEF TypeOK
<1>2. InHand \in Seq(S)
    <2>1. <<character>> \in Seq(S) /\ << >> \in Seq(S)
        BY <1>1
    <2> QED
        BY <2>1 DEF InHand
<1>3. Taken \in Seq(S)
    <2> HIDE DEF S
    <2>1. \A f, g \in Seq(S) : f \o g \in Seq(S)
        BY ConcatProperties
    <2> QED
        BY <1>1, <1>2, <2>1 DEF Taken
<1>4. ASSUME lpc \notin {"doomed", "crashed"} PROVE Taken = file
    <2>1. InHand = << >>
        BY <1>4 DEF InHand
    <2> HIDE DEF S
    <2> QED
        BY <1>1, <2>1, ConcatEmptySeq DEF Taken
<1> QED
    BY <1>3, <1>4

(* Steps that leave the pipe, the file and the lines alone.                *)
LEMMA WayKept ==
    ASSUME Way, UNCHANGED <<pipe, character, file, lines>>,
           \/ lpc' = lpc
           \/ lpc = "start" /\ lpc' \in {"read", "noFile"}
           \/ lpc = "doomed" /\ lpc' = "crashed",
           \/ mainpc' = mainpc
           \/ mainpc = "join" /\ mainpc' = "dollar"
           \/ mainpc = "wait" /\ mainpc' = "done",
           running' => running
    PROVE  Way'
<1>1. AllChars' = AllChars /\ Taken' = Taken
    BY DEF AllChars, Taken, InHand
<1>2. CASE Sending
    <2>1. CASE mainpc \in {"join", "dollar"} /\ mainpc' \in {"join", "dollar"}
        BY <1>1, <1>2, <2>1 DEF Sending, Way
    <2> QED
        BY <1>2, <2>1 DEF Sending
<1>3. CASE Closing
    BY <1>1, <1>3 DEF Closing, Way
<1>4. CASE Complete
    BY <1>1, <1>4 DEF Complete, Way
<1>5. CASE Repeating
    BY <1>5 DEF Repeating, Way
<1>6. CASE Broken
    BY <1>6 DEF Broken, WriteEndOpen, Way
<1> QED
    BY <1>2, <1>3, <1>4, <1>5, <1>6 DEF Way

(* A line goes into the pipe behind the others, while main joins.          *)
LEMMA WriteWay ==
    ASSUME LInv, NEW t \in Threads, Write(t)
    PROVE  Way'
<1>1. /\ TypeOK /\ running /\ pc[t] = "write" /\ lpc \notin {"ended", "crashed"}
      /\ pipe' = pipe \o Chars(wmsg) /\ lines' = Append(lines, wmsg)
      /\ UNCHANGED <<mainpc, running, lpc, character, file>>
    BY DEF LInv, IInv, Write, logger
<1>2. mainpc = "join"
    BY <1>1 DEF LInv, JoinedAll, AllEnded
<1>3. Sending
    BY <1>1, <1>2 DEF LInv, Way, Closing, Complete, Repeating, Broken, WriteEndOpen
<1>4. wmsg \in Nat \X Threads
    BY <1>1 DEF LInv, IInv, NextNumber, TypeOK
<1>5. AllChars' = AllChars \o Chars(wmsg)
    BY <1>1, <1>4, OneLineMore
<1>6. Taken' \o pipe' = AllChars'
    <2> DEFINE S == Characters \cup {Garbage}
    <2>1. Chars(wmsg) \in Seq(S)
        <3>1. LineLen \in Nat \ {0}
            BY LogAssumption DEF LogAssumption
        <3>2. \A k \in 1..LineLen : <<wmsg, k>> \in S
            BY <1>4 DEF Characters
        <3> QED
            BY <3>1, <3>2 DEF Chars
    <2>2. pipe \in Seq(S) /\ Taken \in Seq(S)
        <3>1. pipe \in Seq(Characters) /\ Taken \in Seq(S)
            BY <1>1, TakenType DEF TypeOK
        <3> QED
            BY <3>1
    <2>3. (Taken \o pipe) \o Chars(wmsg) = Taken \o (pipe \o Chars(wmsg))
        <3> HIDE DEF S
        <3>1. \A c \in Seq(S) : (Taken \o pipe) \o c = Taken \o (pipe \o c)
            BY <2>2, ConcatAssociative
        <3> QED
            BY <2>1, <3>1
    <2>4. Taken' = Taken
        BY <1>1 DEF Taken, InHand
    <2> QED
        BY <1>1, <1>3, <1>5, <2>3, <2>4 DEF Sending
<1> QED
    BY <1>1, <1>2, <1>3, <1>6 DEF Sending, Way

(* The $ goes behind the last line.                                        *)
LEMMA WriteDollarWay ==
    ASSUME LInv, WriteDollar
    PROVE  Way'
<1>1. /\ TypeOK /\ running /\ mainpc = "dollar" /\ lpc \notin {"ended", "crashed"}
      /\ pipe' = Append(pipe, Dollar) /\ mainpc' = "wait"
      /\ UNCHANGED <<running, lpc, character, file, lines>>
    BY DEF LInv, IInv, WriteDollar, logger
<1>2. Sending
    BY <1>1 DEF LInv, Way, Closing, Complete, Repeating, Broken, WriteEndOpen
<1>3. AllChars' = AllChars /\ pipe \in Seq(Characters)
    BY <1>1 DEF AllChars, TypeOK
<1>4. CASE lpc = "doomed"
    BY <1>1, <1>4 DEF Broken, WriteEndOpen, Way
<1>5. CASE lpc # "doomed"
    <2>1. lpc \in {"start", "read", "noFile"} /\ Taken = file
        BY <1>1, <1>5, TakenType DEF TypeOK
    <2>2. Closing'
        BY <1>1, <1>2, <1>3, <2>1 DEF Closing, Sending
    <2> QED
        BY <2>2 DEF Way
<1> QED
    BY <1>4, <1>5

(* The logger takes one character out of the pipe, or has nothing to take. *)
LEMMA ReadByteWay ==
    ASSUME LInv, ReadByte
    PROVE  Way'
<1> DEFINE S == Characters \cup {Garbage}
<1>1. /\ TypeOK /\ lpc = "read" /\ (pipe # << >> \/ ~WriteEndOpen)
      /\ character' = CharacterRead
      /\ pipe' = IF pipe # << >> THEN Tail(pipe) ELSE pipe
      /\ IF CharacterRead = Dollar
         THEN lpc' = "ended" /\ UNCHANGED file
         ELSE file' = Append(file, CharacterRead) /\ UNCHANGED lpc
      /\ UNCHANGED <<mainpc, running, lines>>
    BY DEF LInv, IInv, ReadByte, ReadCharacter, gateway
<1>2. /\ pipe \in Seq(Characters) /\ pipe \in Seq(S) /\ file \in Seq(S)
      /\ Dollar \in Characters /\ Dollar \notin (Nat \X Threads) \X (1..LineLen)
    <2>1. pipe \in Seq(Characters) /\ file \in Seq(S)
        BY <1>1 DEF TypeOK
    <2>2. pipe \in Seq(S)
        BY <2>1
    <2>3. Dollar \in Characters /\ Dollar \notin (Nat \X Threads) \X (1..LineLen)
        BY LogAssumption DEF Characters, LogAssumption
    <2> QED
        BY <2>1, <2>2, <2>3
<1>3. /\ AllChars' = AllChars
      /\ AllChars \in Seq((Nat \X Threads) \X (1..LineLen))
      /\ \A i \in 1..Len(AllChars) : AllChars[i] # Dollar
    <2>1. AllChars' = AllChars
        BY <1>1 DEF AllChars
    <2>2. AllChars \in Seq((Nat \X Threads) \X (1..LineLen))
        BY <1>1, AllCharsType
    <2>3. \A i \in 1..Len(AllChars) : AllChars[i] \in (Nat \X Threads) \X (1..LineLen)
        BY <2>2, ElementOfSeq
    <2> QED
        BY <1>2, <2>1, <2>2, <2>3
<1>4. ASSUME NEW p \in Seq(Characters), p # << >>, file \o p = AllChars
      PROVE  Head(p) # Dollar
    <2>1. /\ Len(file) \in Nat /\ Len(p) \in Nat \ {0}
          /\ Len(AllChars) = Len(file) + Len(p)
          /\ AllChars[Len(file) + 1] = p[1]
        BY <1>2, <1>4
    <2>2. Len(file) + 1 \in 1..Len(AllChars)
        BY <2>1
    <2>3. AllChars[Len(file) + 1] # Dollar
        BY <1>3, <2>2
    <2>4. Head(p) = p[1]
        BY <1>4
    <2> QED
        BY <2>1, <2>3, <2>4
<1>9. Taken = file /\ (lpc' \notin {"doomed", "crashed"} => Taken' = file')
    <2>1. Taken = file /\ TypeOK'
        BY <1>1, TakenType, NextInv DEF LInv, Next, LoggerStep, IInv
    <2>2. lpc' \notin {"doomed", "crashed"} => InHand' = << >> /\ file' \in Seq(S)
        BY <2>1 DEF InHand, TypeOK
    <2> HIDE DEF S
    <2> QED
        BY <2>1, <2>2, ConcatEmptySeq DEF Taken
<1>5. CASE Sending
    <2>1. CASE pipe # << >>
        <3>1. Head(pipe) # Dollar
            BY <1>2, <1>4, <1>5, <1>9, <2>1 DEF Sending
        <3>2. /\ file' = Append(file, Head(pipe)) /\ pipe' = Tail(pipe)
              /\ UNCHANGED lpc /\ character' = Head(pipe)
            BY <1>1, <2>1, <3>1 DEF CharacterRead
        <3>3. file' \o pipe' = file \o pipe
            BY <1>2, <2>1, <3>2, MoveOne
        <3> QED
            BY <1>1, <1>3, <1>5, <1>9, <3>1, <3>2, <3>3 DEF Sending, Way
    <2>2. CASE pipe = << >>
        <3>1. ~running
            BY <1>1, <1>5, <2>2 DEF Sending, WriteEndOpen
        <3>2. file = AllChars
            BY <1>2, <1>5, <1>9, <2>2, ConcatEmptySeq DEF Sending
        <3>3. CASE character = Dollar
            <4>1. lpc' = "ended" /\ file' = file /\ pipe' = << >>
                BY <1>1, <2>2, <3>3 DEF CharacterRead
            <4> QED
                BY <1>3, <3>2, <4>1 DEF Complete, Way
        <3>4. CASE character # Dollar
            BY <1>1, <2>2, <3>1, <3>4 DEF CharacterRead, Repeating, Way
        <3> QED
            BY <3>3, <3>4
    <2> QED
        BY <2>1, <2>2
<1>6. CASE Closing
    <2>1. PICK rest \in Seq(Characters) : pipe = Append(rest, Dollar) /\ file \o rest = AllChars
        BY <1>6 DEF Closing
    <2>2. CASE rest = << >>
        <3>1. Head(pipe) = Dollar /\ Tail(pipe) = << >> /\ pipe # << >>
            BY <1>2, <2>1, <2>2, OneElement
        <3>2. lpc' = "ended" /\ file' = file /\ pipe' = << >>
            BY <1>1, <3>1 DEF CharacterRead
        <3>3. file = AllChars
            BY <1>2, <2>1, <2>2, ConcatEmptySeq
        <3> QED
            BY <1>3, <3>2, <3>3 DEF Complete, Way
    <2>3. CASE rest # << >>
        <3>1. /\ Head(pipe) = Head(rest) /\ Tail(pipe) = Append(Tail(rest), Dollar)
              /\ pipe # << >>
            BY <1>2, <2>1, <2>3, HeadTailOfAppend
        <3>2. Head(rest) # Dollar
            BY <1>4, <2>1, <2>3
        <3>3. file' = Append(file, Head(rest)) /\ pipe' = Tail(pipe) /\ UNCHANGED lpc
            BY <1>1, <3>1, <3>2 DEF CharacterRead
        <3>4. rest \in Seq(S) /\ Tail(rest) \in Seq(Characters)
            BY <2>1, <2>3
        <3>5. file' \o Tail(rest) = AllChars
            BY <1>2, <2>1, <2>3, <3>3, <3>4, MoveOne
        <3>6. Closing'
            BY <1>1, <1>3, <1>6, <3>1, <3>3, <3>4, <3>5 DEF Closing
        <3> QED
            BY <3>6 DEF Way
    <2> QED
        BY <2>2, <2>3
<1>7. CASE Complete
    BY <1>1, <1>7 DEF Complete
<1>8. CASE Repeating
    BY <1>1, <1>8 DEF Repeating, CharacterRead, Way
<1>10. CASE Broken
    BY <1>1, <1>10 DEF Broken
<1> QED
    BY <1>5, <1>6, <1>7, <1>8, <1>10 DEF LInv, Way

(* Without a file the character is lost, and with it the logger.           *)
LEMMA WithoutFileWay ==
    ASSUME LInv, ReadWithoutFile
    PROVE  Way'
<1> DEFINE S == Characters \cup {Garbage}
<1>1. /\ TypeOK /\ lpc = "noFile" /\ (pipe # << >> \/ ~WriteEndOpen)
      /\ character' = CharacterRead /\ lpc' = "doomed"
      /\ pipe' = IF pipe # << >> THEN Tail(pipe) ELSE pipe
      /\ UNCHANGED <<mainpc, running, file, lines>>
    BY DEF LInv, IInv, ReadWithoutFile, ReadCharacter, gateway
<1>2. CASE ~WriteEndOpen
    BY <1>1, <1>2 DEF Broken, WriteEndOpen, Way
<1>3. CASE WriteEndOpen
    <2>1. /\ Sending /\ file \in Seq(S) /\ Taken = file /\ pipe # << >>
          /\ pipe \in Seq(Characters)
        BY <1>1, <1>3, TakenType
           DEF LInv, Way, Closing, Complete, Repeating, Broken, WriteEndOpen, TypeOK
    <2>2. pipe \in Seq(S)
        BY <2>1
    <2>3. Taken' = Append(file, Head(pipe)) /\ pipe' = Tail(pipe)
        <3>1. InHand' = <<Head(pipe)>> /\ file' = file
            BY <1>1, <2>1 DEF InHand, CharacterRead
        <3>2. Taken' = file \o <<Head(pipe)>>
            BY <3>1 DEF Taken
        <3>3. Head(pipe) \in S
            BY <2>1
        <3>4. file \o <<Head(pipe)>> = Append(file, Head(pipe))
            BY <2>1, <3>3
        <3> QED
            BY <1>1, <2>1, <3>2, <3>4
    <2>4. Taken' \o pipe' = file \o pipe
        <3> HIDE DEF S
        <3> QED
            BY <2>1, <2>2, <2>3, MoveOne
    <2>5. AllChars' = AllChars
        BY <1>1 DEF AllChars
    <2> QED
        BY <1>1, <2>1, <2>4, <2>5 DEF Sending, Way
<1> QED
    BY <1>2, <1>3

(* Every step keeps the larger invariant.                                  *)
LEMMA NextLInv == LInv /\ [Next]_vars => LInv'
<1> SUFFICES ASSUME LInv, [Next]_vars PROVE LInv'
    OBVIOUS
<1>1. IInv'
    BY NextInv DEF LInv
<1>2. JoinedAll'
    BY LogAssumption
       DEF LInv, IInv, TypeOK, JoinedAll, AllEnded, Next, ThreadStep, MainStep, LoggerStep,
           LockPipe, Format, Write, UnlockPipe, EndThread, JoinThreads, WriteDollar,
           WaitLogger, BrokenPipe, ExitFailure, OpenLog, LoggerCrash, ReadByte,
           ReadWithoutFile, Terminated, gateway, vars, LogAssumption
<1>3. CASE \E t \in Threads : ThreadStep(t)
    <2>1. PICK t \in Threads : ThreadStep(t)
        BY <1>3
    <2>2. CASE Write(t)
        BY <1>1, <1>2, <2>2, WriteWay DEF LInv
    <2>3. CASE LockPipe(t) \/ Format(t) \/ UnlockPipe(t) \/ EndThread(t)
        <3>1. Way'
            BY <2>3, WayKept DEF LInv, LockPipe, Format, UnlockPipe, EndThread, logger
        <3> QED
            BY <1>1, <1>2, <3>1 DEF LInv
    <2> QED
        BY <2>1, <2>2, <2>3 DEF ThreadStep
<1>4. CASE WriteDollar \/ ReadByte \/ ReadWithoutFile
    BY <1>1, <1>2, <1>4, WriteDollarWay, ReadByteWay, WithoutFileWay DEF LInv
<1>5. CASE JoinThreads \/ WaitLogger \/ BrokenPipe \/ ExitFailure \/ OpenLog \/ LoggerCrash
           \/ UNCHANGED vars
    <2>1. Way'
        BY <1>5, WayKept DEF LInv, JoinThreads, WaitLogger, BrokenPipe, ExitFailure, OpenLog,
                             LoggerCrash, gateway, logger, vars
    <2> QED
        BY <1>1, <1>2, <2>1 DEF LInv
<1> QED
    BY <1>3, <1>4, <1>5 DEF Next, MainStep, LoggerStep, Terminated

(* The larger invariant holds throughout.                                  *)
THEOREM WayInductive == Safety => []LInv
<1>1. Init => LInv
    <2> SUFFICES ASSUME Init PROVE LInv
        OBVIOUS
    <2>1. IInv
        BY InitInv
    <2>2. /\ lines = << >> /\ file = << >> /\ pipe = << >> /\ mainpc = "join" /\ lpc = "start"
        BY DEF Init
    <2>3. AllChars = << >>
        <3>1. 0 * LineLen = 0
            BY LogAssumption DEF LogAssumption
        <3>2. Len(AllChars) = 0 /\ AllChars \in Seq(Characters)
            BY <2>1, <2>2, <3>1, AllCharsType DEF IInv
        <3> QED
            BY <3>2
    <2>4. << >> \o << >> = << >>
        BY ConcatEmptySeq, << >> \in Seq({})
    <2>5. Sending /\ JoinedAll
        BY <2>2, <2>3, <2>4 DEF Sending, Taken, InHand, JoinedAll
    <2> QED
        BY <2>1, <2>5 DEF LInv, Way
<1> QED
    BY <1>1, NextLInv, PTL DEF Safety

(* main.c:33, write_to_log_process: until the pipe runs dry the file is    *)
(* what was sent and the rest is in the pipe; nothing is doubled or        *)
(* interleaved, and nothing lost but the one character that a logger       *)
(* without a file has read when it crashes, for any number of threads and  *)
(* messages and any pipe.                                                  *)
THEOREM PipeCorrect == Safety => []FileThenPipe
<1>1. LInv => FileThenPipe
    <2> SUFFICES ASSUME LInv, WriteEndOpen PROVE Taken \o pipe = AllChars
        BY DEF FileThenPipe
    <2>1. Sending \/ Complete
        BY DEF LInv, Way, Closing, Repeating, Broken, WriteEndOpen
    <2>2. file \in Seq(Characters \cup {Garbage}) /\ (lpc = "ended" => Taken = file)
        BY TakenType DEF LInv, IInv, TypeOK
    <2> QED
        BY <2>1, <2>2, ConcatEmptySeq DEF Sending, Complete
<1> QED
    BY <1>1, WayInductive, PTL

(* main.c:76, the logger that stops at the $ has copied every line.        *)
THEOREM LogCorrect == Safety => []LogComplete
<1>1. LInv => LogComplete
    BY DEF LInv, Way, Sending, Closing, Complete, Repeating, Broken, LogComplete
<1> QED
    BY <1>1, WayInductive, PTL
=============================================================================
