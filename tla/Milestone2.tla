----------------------------- MODULE Milestone2 -----------------------------
(***************************************************************************)
(* milestone2/milestone2: main.c stores four readings with sensor_db.c.    *)
(* open_db forks a child that writes the first line of the log; all other  *)
(* lines are written by main itself, through logger.c, into a buffer that  *)
(* is flushed when the process ends, and not when it is killed.            *)
(***************************************************************************)
EXTENDS Naturals, Sequences, Functions

CONSTANT NumReadings      \* the four calls of insert_sensor in main

VARIABLES
    parent,     \* where main is
    child,      \* where the child is
    logFile,    \* open or NULL, in both processes
    logPipe,    \* messages in the pipe; the pipe may also have failed
    csvFile,    \* open or NULL
    called,     \* calls of insert_sensor
    stored,     \* the readings that were printed
    unflushed,  \* log lines in the memory of each
    log         \* log lines in the file

vars == <<parent, child, logFile, logPipe, csvFile, called, stored, unflushed, log>>

Init ==
    /\ parent = "create" /\ child = "none"
    /\ logFile \in {"open", "NULL"}
    /\ logPipe \in {"empty", "failed"}
    /\ csvFile = "NULL"
    /\ called = 0 /\ stored = << >>
    /\ unflushed = [parent |-> << >>, child |-> << >>] /\ log = << >>

Flush(p) ==
    /\ log' = log \o unflushed[p]
    /\ unflushed' = [unflushed EXCEPT ![p] = << >>]

-----------------------------------------------------------------------------
(* fork; when it fails open_db returns NULL at once.                       *)
Fork ==
    /\ parent = "create"
    /\ \/ parent' = "bericht" /\ child' = "read"
       \/ parent' = "insert" /\ UNCHANGED child
    /\ UNCHANGED <<logFile, logPipe, csvFile, called, stored, unflushed, log>>

WriteBericht ==
    /\ parent = "bericht"
    /\ parent' = "open"
    /\ logPipe' = IF logPipe = "failed" THEN "failed" ELSE "Bericht"
    /\ UNCHANGED <<child, logFile, csvFile, called, stored, unflushed, log>>

OpenCsv ==
    /\ parent = "open"
    /\ csvFile' \in {"open", "NULL"}
    /\ parent' = "result"
    /\ UNCHANGED <<child, logFile, logPipe, called, stored, unflushed, log>>

(* Mislukt or Gelukt, which nobody reads; main is killed when the child    *)
(* has closed its end already.                                             *)
WriteResult ==
    /\ parent = "result"
    /\ parent' = IF logPipe # "failed" /\ child \in {"exit", "end", "crashed"} THEN "killed" ELSE "wait"
    /\ UNCHANGED <<child, logFile, logPipe, csvFile, called, stored, unflushed, log>>

WaitChild ==
    /\ parent = "wait"
    /\ child \in {"end", "crashed"}
    /\ parent' = "insert"
    /\ UNCHANGED <<child, logFile, logPipe, csvFile, called, stored, unflushed, log>>

(* write_to_log_process: fprintf to NULL crashes.                          *)
WriteToLog(line, next) ==
    /\ unflushed' = [unflushed EXCEPT !.parent = Append(@, line)]
    /\ parent' = IF logFile = "NULL" THEN "killed" ELSE next

(* Fault: a failed fprintf is logged like a good one.                      *)
insert_result_ignored(f) ==
    \/ f = "NULL" /\ WriteToLog("invalid", "insert") /\ UNCHANGED stored
    \/ f = "open" /\ WriteToLog("inserted", "insert") /\ UNCHANGED stored
    \/ f = "open" /\ WriteToLog("inserted", "insert") /\ stored' = Append(stored, called + 1)

insert_sensor(f) ==
    \/ f = "NULL" /\ WriteToLog("invalid", "insert") /\ UNCHANGED stored
    \/ f = "open" /\ WriteToLog("error", "insert") /\ UNCHANGED stored
    \/ f = "open" /\ WriteToLog("inserted", "insert") /\ stored' = Append(stored, called + 1)

Insert ==
    /\ parent = "insert" /\ called < NumReadings
    /\ insert_sensor(csvFile)
    /\ called' = called + 1
    /\ UNCHANGED <<child, logFile, logPipe, csvFile, log>>

close_db ==
    /\ parent = "insert" /\ called = NumReadings
    /\ WriteToLog(IF csvFile = "NULL" THEN "invalid" ELSE "closed", "exit")
    /\ UNCHANGED <<child, logFile, logPipe, csvFile, called, stored, log>>

(* end_log_process, or else the exit of main, flushes the log.             *)
Exit ==
    /\ parent = "exit"
    /\ parent' = "end"
    /\ Flush("parent")
    /\ UNCHANGED <<child, logFile, logPipe, csvFile, called, stored>>

-----------------------------------------------------------------------------
(* The child.  From a pipe that failed it reads nothing, and compares what *)
(* was in its memory.                                                      *)
ReadPipe ==
    /\ child = "read"
    /\ logPipe # "empty"
    /\ child' \in IF logPipe = "failed" THEN {"logOpened", "logFailed"} ELSE {"logOpened"}
    /\ UNCHANGED <<parent, logFile, logPipe, csvFile, called, stored, unflushed, log>>

(* The line, and the close of the read end.                                *)
LogAndClose ==
    /\ child \in {"logOpened", "logFailed"}
    /\ child' = IF logFile = "NULL" THEN "crashed" ELSE "exit"
    /\ unflushed' = [unflushed EXCEPT !.child = <<child>>]
    /\ UNCHANGED <<parent, logFile, logPipe, csvFile, called, stored, log>>

ChildExit ==
    /\ child = "exit"
    /\ child' = "end"
    /\ Flush("child")
    /\ UNCHANGED <<parent, logFile, logPipe, csvFile, called, stored>>

Main  == Fork \/ WriteBericht \/ OpenCsv \/ WriteResult \/ WaitChild \/ Insert \/ close_db \/ Exit
Child == ReadPipe \/ LogAndClose \/ ChildExit

Step(t) == (t = 0 /\ Main) \/ (t = 1 /\ Child)
Next    == \E t \in {0, 1} : Step(t)

Spec == Init /\ [][Next]_vars /\ WF_vars(Main) /\ WF_vars(Child)
-----------------------------------------------------------------------------
(* What the lines of the child, of insert_sensor and of close_db say.      *)
Line == {"logOpened", "logFailed", "inserted", "error", "invalid", "closed"}

(* Types of every variable.                                                *)
TypeOK ==
    /\ parent \in {"create", "bericht", "open", "result", "wait", "insert", "exit", "end", "killed"}
    /\ child \in {"none", "read", "logOpened", "logFailed", "exit", "end", "crashed"}
    /\ logFile \in {"open", "NULL"} /\ csvFile \in {"open", "NULL"}
    /\ logPipe \in {"empty", "Bericht", "failed"}
    /\ called \in 0..NumReadings /\ stored \in Seq(1..NumReadings)
    /\ log \in Seq(Line) /\ unflushed \in [{"parent", "child"} -> Seq(Line)]

(* A run that ends has a log that tells what is in the csv file: after the *)
(* line of the child, if there was one, one line for each reading in order *)
(* and "inserted" for those that are stored.  A run that is killed leaves  *)
(* no line about a reading; with a log file it is killed only before the   *)
(* first one, because it lost the race for its second message.             *)
LogTellsWhatIsStored ==
    LET own == IF child = "none" THEN 0 ELSE 1
    IN  /\ parent = "end" =>
              /\ Len(log) = own + NumReadings + 1
              /\ \A j, k \in DOMAIN stored : j < k => stored[j] < stored[k]
              /\ Range(stored) = {i \in 1..NumReadings : log[own + i] = "inserted"}
        /\ parent = "killed" =>
              /\ Len(log) <= own
              /\ logFile = "open" => called = 0 /\ child \in {"exit", "end"}
=============================================================================
