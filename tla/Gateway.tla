------------------------------ MODULE Gateway ------------------------------
(***************************************************************************)
(* The gateway as a whole: main of src/project/main.c starts and joins the *)
(* connection manager, the data manager and the storage manager, which     *)
(* meet in the shared buffer.  The buffer is SensorFeed, which Sbuffer is  *)
(* shown to implement; the handlers of Connmgr are the action Serve, and   *)
(* the logger of LogProcess is alive, has crashed or has ended.  Here are  *)
(* the things that only the composition has: the start and the end, the    *)
(* csv file of sensor_db.c, the ways the process dies early, and what is   *)
(* then left of the readings.                                              *)
(***************************************************************************)
EXTENDS Naturals, Sequences

CONSTANTS Items, EOS,     \* readings, as in SensorFeed
          MaxReadings     \* bound: readings the handlers insert

ASSUME GatewayAssumption == EOS \notin Items /\ MaxReadings \in Nat

VARIABLES
    stream, seen, stored, stopped,   \* the buffer, see SensorFeed
    pc,         \* where main and the threads it starts are
    buffer,     \* the sbuffer_t: none, live or freed
    csvFile,    \* the FILE of data.csv: none, open, NULL or closed
    csv,        \* what was printed to it, by place in the stream
    onDisk,     \* how much of that has left the buffer of stdio
    logger,     \* the child: reading, or without its file (then fed once there
                \* is a byte for it in the pipe, and crashed), or ended
    process,    \* the parent: running, exited or killed by a signal
    failures    \* history: the calls on data.csv that failed

feed   == <<stream, seen, stored, stopped>>
file   == <<csvFile, csv, onDisk, failures>>
vars   == <<feed, pc, buffer, file, logger, process>>

Feed == INSTANCE SensorFeed

Init ==
    /\ Feed!Init
    /\ pc = [main |-> "init", connmgr |-> "none", datamgr |-> "none", storagemgr |-> "none"]
    /\ buffer = "none"
    /\ csvFile = "none"
    /\ csv = << >>
    /\ onDisk = 0
    /\ logger \in {"reading", "noFile"}
    /\ process = "running"
    /\ failures = {}

-----------------------------------------------------------------------------
(* Thread t goes from one place to another.                                *)
Go(t, from, to) ==
    /\ process = "running"
    /\ pc[t] = from
    /\ pc' = [pc EXCEPT ![t] = to]

(* write_to_log_process: without a reader the pipe kills the process.      *)
Log ==
    /\ process' = IF logger = "crashed" THEN "killed" ELSE process
    /\ logger' = IF logger = "noFile" THEN "fed" ELSE logger

NoLog == UNCHANGED <<process, logger>>

(* exit(EXIT_FAILURE) in any thread; it flushes the open files.            *)
ExitFailure ==
    /\ process' = "exited"
    /\ onDisk' = IF csvFile = "open" THEN Len(csv) ELSE onDisk
    /\ UNCHANGED <<feed, pc, buffer, csvFile, csv, failures, logger>>

(* A child that could not open gateway.log crashes at its first fwrite.    *)
LoggerCrash ==
    /\ logger = "fed"
    /\ logger' = "crashed"
    /\ UNCHANGED <<feed, pc, buffer, file, process>>

-----------------------------------------------------------------------------
(* main.                                                                   *)

(* sbuffer_init, then the three threads; or it fails and main returns -1.  *)
StartThreads ==
    /\ process = "running"
    /\ pc.main = "init"
    /\ \/ /\ buffer' = "live"
          /\ pc' = [main |-> "joinConnmgr", connmgr |-> "open", datamgr |-> "map",
                    storagemgr |-> "open"]
          /\ UNCHANGED process
       \/ /\ process' = "exited"
          /\ UNCHANGED <<buffer, pc>>
    /\ UNCHANGED <<feed, file, logger>>

(* Fault: the storage manager is not waited for.                           *)
JoinTwo ==
    \/ pc.connmgr = "done" /\ Go("main", "joinConnmgr", "joinDatamgr")
    \/ pc.datamgr = "done" /\ Go("main", "joinDatamgr", "dollar")

JoinOne ==
    \/ pc.connmgr = "done"    /\ Go("main", "joinConnmgr", "joinDatamgr")
    \/ pc.datamgr = "done"    /\ Go("main", "joinDatamgr", "joinStoragemgr")
    \/ pc.storagemgr = "done" /\ Go("main", "joinStoragemgr", "dollar")

Join == JoinOne /\ UNCHANGED <<feed, buffer, file, logger, process>>

(* The $ and the close of the pipe; wait; sbuffer_free and return.         *)
WriteDollar ==
    /\ Go("main", "dollar", "wait")
    /\ Log
    /\ UNCHANGED <<feed, buffer, file>>

LoggerEnds ==
    /\ logger = "reading"
    /\ pc.main = "wait"
    /\ logger' = "ended"
    /\ UNCHANGED <<feed, pc, buffer, file, process>>

FreeBuffer ==
    /\ logger \in {"ended", "crashed"}
    /\ Go("main", "wait", "end")
    /\ buffer' = "freed"
    /\ UNCHANGED <<feed, file, logger, process>>

-----------------------------------------------------------------------------
(* The connection manager.  It opens its port, serves connections, joins   *)
(* its handlers and adds the end-of-stream reading; it exits when a socket *)
(* call fails, and is killed when the malloc for that reading does.        *)

OpenPort ==
    /\ Go("connmgr", "open", "serve")
    /\ UNCHANGED <<feed, buffer, file, logger, process>>

SocketFails ==
    /\ process = "running"
    /\ pc.connmgr \in {"open", "serve"}
    /\ ExitFailure

(* A handler logs, or inserts a reading, which a sensor may have given the *)
(* id 0; it does not see when sbuffer_insert fails.                        *)
Serve ==
    /\ process = "running"
    /\ pc.connmgr = "serve"
    /\ \/ /\ Len(stream) < MaxReadings
          /\ \E d \in Items \cup {EOS} : Feed!Accept(d)
          /\ NoLog
       \/ Log /\ UNCHANGED feed
    /\ UNCHANGED <<pc, buffer, file>>

JoinHandlers ==
    /\ Go("connmgr", "serve", "eos")
    /\ UNCHANGED <<feed, buffer, file, logger, process>>

AddEos ==
    /\ Go("connmgr", "eos", "done")
    /\ \/ Feed!Accept(EOS) /\ UNCHANGED process
       \/ UNCHANGED <<feed, process>>
       \/ process' = "killed" /\ UNCHANGED feed
    /\ UNCHANGED <<buffer, file, logger>>

-----------------------------------------------------------------------------
(* The data manager.                                                       *)

ReadMap ==
    /\ Go("datamgr", "map", "peek")
    /\ UNCHANGED <<feed, buffer, file, logger, process>>

(* No map, or an allocation failed: ERROR_HANDLER.                         *)
MapFails ==
    /\ process = "running"
    /\ pc.datamgr = "map"
    /\ ExitFailure

(* Fault: the end-of-stream reading is skipped like any unknown sensor.     *)
AnalysisGoesOn == UNCHANGED pc

AnalysisReturns == pc' = [pc EXCEPT !.datamgr = "done"]

Analyse ==
    /\ process = "running"
    /\ pc.datamgr = "peek"
    /\ Feed!Analyse
    /\ IF stream[seen + 1] = EOS
       THEN AnalysisReturns /\ NoLog
       ELSE (Log \/ NoLog) /\ UNCHANGED pc
    /\ UNCHANGED <<buffer, file>>

-----------------------------------------------------------------------------
(* The storage manager.                                                    *)

OpenDb ==
    /\ Go("storagemgr", "open", "remove")
    /\ Log
    /\ \/ csvFile' = "open" /\ UNCHANGED failures
       \/ csvFile' = "NULL" /\ failures' = failures \cup {"fopen"}
    /\ UNCHANGED <<feed, buffer, csv, onDisk>>

RemoveReading ==
    /\ Go("storagemgr", "remove", "insert")
    /\ Feed!Store
    /\ UNCHANGED <<buffer, file, logger, process>>

(* Fault: the reading that is next in the buffer is printed.               *)
WriteNextReading == csv' = Append(csv, stored + 1)

WriteReading == csv' = Append(csv, stored)

(* insert_sensor.  What is printed reaches the file with this call or a    *)
(* later one.  Its errors are reported and the loop goes on.               *)
InsertSensor ==
    /\ Go("storagemgr", "insert", "remove")
    /\ Log
    /\ \/ /\ csvFile = "open"
          /\ WriteReading
          /\ onDisk' \in {onDisk, Len(csv')}
          /\ UNCHANGED failures
       \/ /\ csvFile = "open"
          /\ failures' = failures \cup {"fprintf"}
          /\ UNCHANGED <<csv, onDisk>>
       \/ /\ csvFile = "NULL"
          /\ UNCHANGED <<csv, onDisk, failures>>
    /\ UNCHANGED <<feed, buffer, csvFile>>

EndOfData ==
    /\ Go("storagemgr", "remove", "close")
    /\ Feed!Stop
    /\ UNCHANGED <<buffer, file, logger, process>>

(* close_db does not look at what fclose returns.                          *)
CloseDb ==
    /\ Go("storagemgr", "close", "done")
    /\ Log
    /\ IF csvFile = "NULL"
       THEN UNCHANGED <<csvFile, onDisk, failures>>
       ELSE /\ csvFile' = "closed"
            /\ \/ onDisk' = Len(csv) /\ UNCHANGED failures
               \/ failures' = failures \cup {"fclose"} /\ UNCHANGED onDisk
    /\ UNCHANGED <<feed, buffer, csv>>

-----------------------------------------------------------------------------
Main       == StartThreads \/ Join \/ WriteDollar \/ FreeBuffer
Connmgr    == OpenPort \/ SocketFails \/ Serve \/ JoinHandlers \/ AddEos
Datamgr    == ReadMap \/ MapFails \/ Analyse
Storagemgr == OpenDb \/ RemoveReading \/ InsertSensor \/ EndOfData \/ CloseDb

Next == Main \/ Connmgr \/ Datamgr \/ Storagemgr \/ LoggerCrash \/ LoggerEnds

Safety == Init /\ [][Next]_vars

(* The threads are scheduled and the logger reads its pipe; nothing        *)
(* obliges a sensor to connect, to send or to leave.                       *)
Fairness ==
    /\ WF_vars(Main)
    /\ WF_vars(OpenPort) /\ WF_vars(AddEos)
    /\ WF_vars(Datamgr)
    /\ WF_vars(Storagemgr)
    /\ WF_vars(LoggerEnds) /\ WF_vars(LoggerCrash)

Spec == Safety /\ Fairness
-----------------------------------------------------------------------------
(* Types of every variable.                                                *)
TypeOK ==
    /\ Feed!TypeOK
    /\ pc \in [main : {"init", "joinConnmgr", "joinDatamgr", "joinStoragemgr", "dollar",
                       "wait", "end"},
              connmgr : {"none", "open", "serve", "eos", "done"},
              datamgr : {"none", "map", "peek", "done"},
              storagemgr : {"none", "open", "remove", "insert", "close", "done"}]
    /\ buffer \in {"none", "live", "freed"}
    /\ csvFile \in {"none", "open", "NULL", "closed"}
    /\ csv \in Seq(1..Len(stream))
    /\ onDisk \in 0..Len(csv)
    /\ logger \in {"reading", "noFile", "fed", "crashed", "ended"}
    /\ process \in {"running", "exited", "killed"}
    /\ failures \subseteq {"fopen", "fprintf", "fclose"}

(* The csv file follows the feed: it has readings that were analysed and   *)
(* removed, in their order, none twice; and as long as no call on it has   *)
(* failed, all of them but the one the storage manager has in its hands.   *)
CsvFollowsFeed ==
    /\ \A i \in 1..Len(csv) : csv[i] \in 1..stored
    /\ \A i \in 1..Len(csv) - 1 : csv[i] < csv[i + 1]
    /\ failures = {} =>
          Len(csv) = IF pc.storagemgr = "insert" THEN stored - 1 ELSE stored

(* When main has freed the buffer nobody uses it any more, and the work is *)
(* done: both readers have met the first end-of-stream reading, so there   *)
(* is one (the gateway never ends without it, it waits for ever), and all  *)
(* readings in front of it are in the file on the disk, unless a call on   *)
(* that file has failed.  What a sensor with the id 0 leaves behind its    *)
(* own readings is lost.                                                   *)
EndIsComplete ==
    buffer = "freed" =>
        /\ \A t \in {"connmgr", "datamgr", "storagemgr"} : pc[t] = "done"
        /\ stopped /\ seen = stored + 1 /\ stream[seen] = EOS
        /\ \A i \in 1..stored : stream[i] # EOS
        /\ failures = {} => csvFile = "closed" /\ onDisk = stored

(* Once the connection manager has returned and the end-of-stream reading  *)
(* is in the buffer, the gateway ends, whatever fails in the csv file or   *)
(* the logger.                                                             *)
GatewayEnds ==
    (pc.connmgr = "done" /\ \E i \in 1..Len(stream) : stream[i] = EOS)
        ~> (pc.main = "end" \/ process # "running")
=============================================================================
