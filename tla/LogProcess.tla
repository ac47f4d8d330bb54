----------------------------- MODULE LogProcess -----------------------------
(***************************************************************************)
(* The log of the gateway, src/project/main.c: the threads of the gateway  *)
(* process format their lines into the one global wmsg and write them to a *)
(* pipe, both under pipeMutex; a child process, the logger, copies the     *)
(* pipe byte by byte to gateway.log until it meets the character $, which  *)
(* the main thread writes when all threads have been joined.               *)
(*                                                                         *)
(* A line is the pair <<number, thread>> and has LineLen characters; the   *)
(* k-th character of a line is the pair <<line, k>>.  No line holds a $.   *)
(***************************************************************************)
EXTENDS Naturals, Sequences, FiniteSets

CONSTANTS Threads,      \* the threads that call write_to_log_process
          LineLen,      \* characters of a line
          PipeCap,      \* capacity of the pipe
          MaxMsgs,      \* bound: messages of one thread
          MaxFile,      \* bound: characters in gateway.log
          NULL,         \* no holder of pipeMutex, nothing formatted yet
          Dollar,       \* the character $
          Garbage,      \* an uninitialised character
          Failures      \* may the gateway exit early, or fopen fail?

ASSUME LogAssumption ==
    /\ LineLen \in Nat \ {0}
    /\ PipeCap \in Nat /\ PipeCap >= LineLen
    /\ MaxMsgs \in Nat /\ MaxFile \in Nat
    /\ NULL \notin Threads
    /\ Failures \in BOOLEAN
    /\ Dollar \notin (Nat \X Threads) \X (1..LineLen)

VARIABLES
    pc,          \* of each thread: idle, format, write, unlock, ended
    msgs,        \* messages the thread has begun
    pipeMutex, wmsg, counter,
    mainpc,      \* main: join, dollar, wait, done
    running,     \* the gateway process exists, and so does its write end
    pipe,        \* characters in the pipe
    lpc,         \* logger: start, read, noFile, doomed, ended, crashed
    character,   \* the logger's local character
    file,        \* gateway.log
    lines        \* history: the lines written to the pipe, in order

gateway == <<pc, msgs, pipeMutex, wmsg, counter, mainpc, running>>
logger  == <<lpc, character, file>>
vars    == <<gateway, pipe, logger, lines>>

Init ==
    /\ pc = [t \in Threads |-> "idle"]
    /\ msgs = [t \in Threads |-> 0]
    /\ pipeMutex = NULL
    /\ wmsg = NULL
    /\ counter = 0
    /\ mainpc = "join"
    /\ running = TRUE
    /\ pipe = << >>
    /\ lpc = "start"
    /\ character = Garbage
    /\ file = << >>
    /\ lines = << >>

Characters  == ((Nat \X Threads) \X (1..LineLen)) \cup {Dollar}

(* Fault: write is given strlen(wmsg) + 1.                                 *)
CharsAndNul(line) == [k \in 1..LineLen + 1 |-> <<line, k>>]

Chars(line) == [k \in 1..LineLen |-> <<line, k>>]

-----------------------------------------------------------------------------
(* write_to_log_process.                                                   *)

(* Fault: pipeMutex is not locked.                                         *)
LockNothing(t) ==
    /\ running
    /\ pc[t] = "idle"
    /\ msgs[t] < MaxMsgs
    /\ msgs' = [msgs EXCEPT ![t] = @ + 1]
    /\ pc' = [pc EXCEPT ![t] = "format"]
    /\ UNCHANGED <<pipeMutex, wmsg, counter, mainpc, running, pipe, logger, lines>>

LockPipe(t) ==
    /\ running
    /\ pc[t] = "idle"
    /\ msgs[t] < MaxMsgs
    /\ pipeMutex = NULL
    /\ pipeMutex' = t
    /\ msgs' = [msgs EXCEPT ![t] = @ + 1]
    /\ pc' = [pc EXCEPT ![t] = "format"]
    /\ UNCHANGED <<wmsg, counter, mainpc, running, pipe, logger, lines>>

(* Fault: ++counter.                                                       *)
NumberFromOne == counter + 1

Number == counter

(* snprintf(wmsg, ..., counter++, ...)                                     *)
Format(t) ==
    /\ running
    /\ pc[t] = "format"
    /\ wmsg' = <<Number, t>>
    /\ counter' = counter + 1
    /\ pc' = [pc EXCEPT ![t] = "write"]
    /\ UNCHANGED <<msgs, pipeMutex, mainpc, running, pipe, logger, lines>>

Room(n) == Len(pipe) + n <= PipeCap

(* The line is shorter than PIPE_BUF: it is written whole or not yet.      *)
Write(t) ==
    /\ running
    /\ pc[t] = "write"
    /\ lpc \notin {"ended", "crashed"}
    /\ Room(LineLen)
    /\ pipe' = pipe \o Chars(wmsg)
    /\ lines' = Append(lines, wmsg)
    /\ pc' = [pc EXCEPT ![t] = "unlock"]
    /\ UNCHANGED <<msgs, pipeMutex, wmsg, counter, mainpc, running, logger>>

(* Nobody has the read end open any more: SIGPIPE kills the gateway.       *)
BrokenPipe ==
    /\ running
    /\ lpc \in {"ended", "crashed"}
    /\ (\E t \in Threads : pc[t] = "write") \/ mainpc = "dollar"
    /\ running' = FALSE
    /\ UNCHANGED <<pc, msgs, pipeMutex, wmsg, counter, mainpc, pipe, logger, lines>>

UnlockPipe(t) ==
    /\ running
    /\ pc[t] = "unlock"
    /\ pipeMutex' = NULL
    /\ pc' = [pc EXCEPT ![t] = "idle"]
    /\ UNCHANGED <<msgs, wmsg, counter, mainpc, running, pipe, logger, lines>>

(* The thread's function returns.                                          *)
EndThread(t) ==
    /\ running
    /\ pc[t] = "idle"
    /\ pc' = [pc EXCEPT ![t] = "ended"]
    /\ UNCHANGED <<msgs, pipeMutex, wmsg, counter, mainpc, running, pipe, logger, lines>>

-----------------------------------------------------------------------------
(* main.                                                                   *)

(* Fault: the threads are not joined.                                      *)
NothingToJoin == TRUE

AllEnded == \A t \in Threads : pc[t] = "ended"

JoinThreads ==
    /\ running
    /\ mainpc = "join"
    /\ AllEnded
    /\ mainpc' = "dollar"
    /\ UNCHANGED <<pc, msgs, pipeMutex, wmsg, counter, running, pipe, logger, lines>>

WriteDollar ==
    /\ running
    /\ mainpc = "dollar"
    /\ lpc \notin {"ended", "crashed"}
    /\ Room(1)
    /\ pipe' = Append(pipe, Dollar)
    /\ mainpc' = "wait"
    /\ UNCHANGED <<pc, msgs, pipeMutex, wmsg, counter, running, logger, lines>>

WaitLogger ==
    /\ running
    /\ mainpc = "wait"
    /\ lpc \in {"ended", "crashed"}
    /\ mainpc' = "done"
    /\ UNCHANGED <<pc, msgs, pipeMutex, wmsg, counter, running, pipe, logger, lines>>

(* exit(EXIT_FAILURE) by any thread, at any point: connmgr.c:33, 39, 48.   *)
ExitFailure ==
    /\ Failures
    /\ running
    /\ mainpc = "join"
    /\ running' = FALSE
    /\ UNCHANGED <<pc, msgs, pipeMutex, wmsg, counter, mainpc, pipe, logger, lines>>

-----------------------------------------------------------------------------
(* The logger.                                                             *)

WriteEndOpen == running /\ mainpc \in {"join", "dollar"}

(* fopen may fail; nobody looks at logFile.                                *)
OpenLog ==
    /\ lpc = "start"
    /\ \/ lpc' = "read"
       \/ Failures /\ lpc' = "noFile"
    /\ UNCHANGED <<gateway, pipe, character, file, lines>>

(* Fault: the byte read before is written.                                 *)
CharacterBefore == character

(* What character is after read(logPipe[0], &character, 1), whose return   *)
(* value is not looked at: at the end of the pipe, what it was before.     *)
CharacterRead == IF pipe # << >> THEN Head(pipe) ELSE character

(* read returns when there is something in the pipe, or nobody has the     *)
(* write end any more.                                                     *)
ReadCharacter ==
    /\ pipe # << >> \/ ~WriteEndOpen
    /\ character' = CharacterRead
    /\ pipe' = IF pipe # << >> THEN Tail(pipe) ELSE pipe

ReadByte ==
    /\ lpc = "read"
    /\ Len(file) < MaxFile
    /\ ReadCharacter
    /\ IF CharacterRead = Dollar
       THEN lpc' = "ended" /\ UNCHANGED file
       ELSE file' = Append(file, CharacterRead) /\ UNCHANGED lpc
    /\ UNCHANGED <<gateway, lines>>

(* Without a file the first character is taken out of the pipe all the     *)
(* same; what follows it, fwrite or fclose through NULL, crashes, but      *)
(* writers that wait for room in the pipe may be quicker.                  *)
ReadWithoutFile ==
    /\ lpc = "noFile"
    /\ ReadCharacter
    /\ lpc' = "doomed"
    /\ UNCHANGED <<gateway, file, lines>>

LoggerCrash ==
    /\ lpc = "doomed"
    /\ lpc' = "crashed"
    /\ UNCHANGED <<gateway, pipe, character, file, lines>>

Terminated ==
    /\ mainpc = "done" \/ ~running
    /\ lpc \in {"ended", "crashed"} \/ Len(file) = MaxFile
    /\ UNCHANGED vars

ThreadStep(t) ==
    \/ LockPipe(t)
    \/ Format(t)
    \/ Write(t)
    \/ UnlockPipe(t)
    \/ EndThread(t)

MainStep   == JoinThreads \/ WriteDollar \/ WaitLogger
LoggerStep == OpenLog \/ ReadByte \/ ReadWithoutFile \/ LoggerCrash

Next ==
    \/ \E t \in Threads : ThreadStep(t)
    \/ MainStep
    \/ BrokenPipe
    \/ ExitFailure
    \/ LoggerStep
    \/ Terminated

Safety == Init /\ [][Next]_vars

(* Every thread and process that can run does; a thread may log for ever   *)
(* in the program, here at most MaxMsgs times.                             *)
Fairness ==
    /\ \A t \in Threads : WF_vars(ThreadStep(t))
    /\ WF_vars(MainStep)
    /\ WF_vars(BrokenPipe)
    /\ WF_vars(LoggerStep)

Spec == Safety /\ Fairness

-----------------------------------------------------------------------------
(* Types of every variable.                                                *)
TypeOK ==
    /\ pc \in [Threads -> {"idle", "format", "write", "unlock", "ended"}]
    /\ msgs \in [Threads -> 0..MaxMsgs]
    /\ pipeMutex \in Threads \cup {NULL}
    /\ wmsg = NULL \/ (wmsg \in Nat \X Threads)
    /\ counter \in Nat
    /\ mainpc \in {"join", "dollar", "wait", "done"}
    /\ running \in BOOLEAN
    /\ pipe \in Seq(Characters)
    /\ Len(pipe) <= PipeCap
    /\ lpc \in {"start", "read", "noFile", "doomed", "ended", "crashed"}
    /\ character \in Characters \cup {Garbage}
    /\ file \in Seq(Characters \cup {Garbage})
    /\ Len(file) <= MaxFile
    /\ lines \in Seq(Nat \X Threads)

(* Although all threads format into the one wmsg, the lines in the pipe    *)
(* are numbered 0, 1, 2, ... in the order they were written.               *)
LinesNumbered == \A i \in 1..Len(lines) : lines[i][1] = i - 1

LinesOf(t) == {i \in 1..Len(lines) : lines[i][2] = t}

(* Every message that was begun and is not between lock and write is in    *)
(* the log once, under its own thread.                                     *)
MessagesComplete ==
    \A t \in Threads :
        Cardinality(LinesOf(t))
            = IF pc[t] \in {"format", "write"} THEN msgs[t] - 1 ELSE msgs[t]

(* The characters of all lines written so far.                             *)
AllChars ==
    [i \in 1..Len(lines) * LineLen |->
        <<lines[((i - 1) \div LineLen) + 1], ((i - 1) % LineLen) + 1>>]

(* A logger without a file has taken one character and put it nowhere.     *)
InHand == IF lpc \in {"doomed", "crashed"} THEN <<character>> ELSE << >>

Taken == file \o InHand

(* Until the pipe runs dry without a $ the file is what was sent, and the  *)
(* rest is still in the pipe: nothing is doubled or interleaved, and       *)
(* nothing is lost but the one character that the logger holds when it     *)
(* crashes at a file that could not be opened.                             *)
FileThenPipe ==
    WriteEndOpen => Taken \o pipe = AllChars

(* main.c:71, "read the pipe byte by byte": the log file only ever holds   *)
(* bytes that went through the pipe.                                       *)
FileIsPrefix ==
    Len(file) <= Len(AllChars) /\ \A i \in 1..Len(file) : file[i] = AllChars[i]

(* When the logger stops regularly the log is complete, with every line of *)
(* every thread: $ is the last thing in the pipe.                          *)
LogComplete == lpc = "ended" => file = AllChars /\ pipe = << >>

(* Both processes end with the whole log in the file, unless the gateway   *)
(* has exited early or the logger has crashed: the threads, the mutex and  *)
(* a pipe that is too small for all lines never wait for each other.       *)
BothEnd == <>(~running \/ lpc = "crashed" \/ (mainpc = "done" /\ lpc = "ended" /\ file = AllChars))
=============================================================================
