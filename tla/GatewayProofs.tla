--------------------------- MODULE GatewayProofs ---------------------------
(***************************************************************************)
(* Proofs about Gateway: whatever fails, and however many readings come,   *)
(* the csv file follows the feed, and when main has freed the buffer the   *)
(* work is done.  The invariant says how the two readers of the buffer are *)
(* apart by at most one reading, what the storage manager knows at each of *)
(* its places, and whom main has joined at each of its own.                *)
(***************************************************************************)
EXTENDS Gateway, TLAPS

(* The readers of the buffer are at most one reading apart, and neither    *)
(* passes an end-of-stream reading.                                        *)
FeedOrder ==
    /\ stored <= seen /\ seen <= stored + 1 /\ seen <= Len(stream)
    /\ \A i \in 1..stored : stream[i] # EOS
    /\ stopped => seen = stored + 1 /\ stream[seen] = EOS

(* What main has joined, and that nobody runs before main starts him.      *)
Joined ==
    /\ pc.main = "init" => pc.storagemgr = "none"
    /\ pc.main \in {"joinDatamgr", "joinStoragemgr", "dollar", "wait", "end"}
          => pc.connmgr = "done"
    /\ pc.main \in {"joinStoragemgr", "dollar", "wait", "end"} => pc.datamgr = "done"
    /\ pc.main \in {"dollar", "wait", "end"} => pc.storagemgr = "done"
    /\ buffer = "freed" => pc.main = "end"

(* What the storage manager knows of the feed and of its file.             *)
StorageState ==
    /\ pc.storagemgr = "insert" => \A i \in 1..Len(csv) : csv[i] < stored
    /\ pc.storagemgr = "insert" => stored > 0
    /\ pc.storagemgr \in {"close", "done"} => stopped
    /\ pc.storagemgr \in {"remove", "insert", "close"} => csvFile \in {"open", "NULL"}
    /\ csvFile = "NULL" => failures # {}
    /\ pc.storagemgr = "done" /\ failures = {} => csvFile = "closed" /\ onDisk = Len(csv)

IInv == TypeOK /\ FeedOrder /\ Joined /\ StorageState /\ CsvFollowsFeed

Places == [main : {"init", "joinConnmgr", "joinDatamgr", "joinStoragemgr", "dollar",
                   "wait", "end"},
           connmgr : {"none", "open", "serve", "eos", "done"},
           datamgr : {"none", "map", "peek", "done"},
           storagemgr : {"none", "open", "remove", "insert", "close", "done"}]

(* The initial states satisfy the invariant.                               *)
LEMMA InitInv == Init => IInv
<1> SUFFICES ASSUME Init PROVE IInv
    OBVIOUS
<1>1. TypeOK
    <2>1. Feed!TypeOK
        <3>1. << >> \in Seq(Items \cup {EOS})
            OBVIOUS
        <3>2. stream = << >> /\ seen = 0 /\ stored = 0 /\ stopped = FALSE
            BY DEF Init, Feed!Init
        <3> QED
            BY <3>1, <3>2 DEF Feed!TypeOK
    <2>2. csv \in Seq(1..Len(stream)) /\ Len(csv) = 0 /\ onDisk = 0
        BY DEF Init
    <2>3. pc \in Places
        BY DEF Init, Places
    <2> QED
        BY <2>1, <2>2, <2>3 DEF Init, TypeOK, Places
<1>2. FeedOrder /\ Joined /\ StorageState /\ CsvFollowsFeed
    BY DEF Init, Feed!Init, FeedOrder, Joined, StorageState, CsvFollowsFeed
<1> QED
    BY <1>1, <1>2 DEF IInv

(* A thread other than the storage manager moves, and nothing else does:   *)
(* the joins of main are the only moves that say more than they did.       *)
LEMMA MoveInv ==
    ASSUME IInv, pc' \in Places, UNCHANGED <<feed, file>>,
           pc'.storagemgr = pc.storagemgr, Joined',
           buffer' \in {"none", "live", "freed"},
           logger' \in {"reading", "noFile", "fed", "crashed", "ended"},
           process' \in {"running", "exited", "killed"}
    PROVE  IInv'
<1>1. UNCHANGED <<stream, seen, stored, stopped, csvFile, csv, onDisk, failures>>
    BY DEF feed, file
<1>2. TypeOK'
    BY <1>1 DEF IInv, TypeOK, Feed!TypeOK, Places
<1>3. FeedOrder' /\ StorageState' /\ CsvFollowsFeed'
    BY <1>1 DEF IInv, FeedOrder, StorageState, CsvFollowsFeed
<1> QED
    BY <1>2, <1>3 DEF IInv

(* What a call of write_to_log_process can do.                             *)
LEMMA LogType ==
    ASSUME TypeOK, Log \/ NoLog
    PROVE  /\ logger' \in {"reading", "noFile", "fed", "crashed", "ended"}
           /\ process' \in {"running", "exited", "killed"}
BY DEF TypeOK, Log, NoLog

(* A thread that moves stays within its places.                            *)
LEMMA GoType ==
    ASSUME TypeOK
    PROVE  /\ pc \in Places
           /\ pc = [main |-> pc.main, connmgr |-> pc.connmgr, datamgr |-> pc.datamgr,
                    storagemgr |-> pc.storagemgr]
BY DEF TypeOK, Places

(* Every step of main keeps the invariant.                                 *)
LEMMA MainInv ==
    ASSUME IInv, Main
    PROVE  IInv'
<1> USE GoType DEF IInv
<1>1. CASE StartThreads
    <2>1. CASE process' = "exited" /\ UNCHANGED <<buffer, pc>>
        BY <1>1, <2>1, MoveInv DEF StartThreads, TypeOK, Joined
    <2>2. CASE /\ buffer' = "live"
               /\ pc' = [main |-> "joinConnmgr", connmgr |-> "open", datamgr |-> "map",
                         storagemgr |-> "open"]
               /\ UNCHANGED process
        <3>1. UNCHANGED <<stream, seen, stored, stopped, csvFile, csv, onDisk, failures, logger>>
            BY <1>1 DEF StartThreads, feed, file
        <3>2. TypeOK'
            BY <2>2, <3>1 DEF TypeOK, Feed!TypeOK
        <3>3. FeedOrder' /\ Joined'
            BY <2>2, <3>1 DEF FeedOrder, Joined
        <3>4. pc.storagemgr = "none"
            BY <1>1 DEF StartThreads, Joined
        <3>5. StorageState' /\ CsvFollowsFeed'
            BY <2>2, <3>1, <3>4 DEF StorageState, CsvFollowsFeed
        <3> QED
            BY <3>2, <3>3, <3>5
    <2> QED
        BY <1>1, <2>1, <2>2 DEF StartThreads
<1>2. CASE Join
    <2>1. pc' \in Places /\ pc'.storagemgr = pc.storagemgr /\ Joined'
        BY <1>2 DEF Join, JoinOne, Go, Joined, Places
    <2> QED
        BY <1>2, <2>1, MoveInv DEF Join, TypeOK
<1>3. CASE WriteDollar
    <2>1. pc' \in Places /\ pc'.storagemgr = pc.storagemgr /\ Joined'
        BY <1>3 DEF WriteDollar, Go, Joined, Places
    <2> QED
        BY <1>3, <2>1, MoveInv, LogType DEF WriteDollar, TypeOK
<1>4. CASE FreeBuffer
    <2>1. pc' \in Places /\ pc'.storagemgr = pc.storagemgr /\ Joined'
        BY <1>4 DEF FreeBuffer, Go, Joined, Places
    <2> QED
        BY <1>4, <2>1, MoveInv DEF FreeBuffer, TypeOK
<1> QED
    BY <1>1, <1>2, <1>3, <1>4 DEF Main

(* exit(EXIT_FAILURE) keeps the invariant.                                 *)
LEMMA ExitInv ==
    ASSUME IInv, ExitFailure
    PROVE  IInv'
<1>1. /\ UNCHANGED <<stream, seen, stored, stopped, pc, buffer, csvFile, csv, failures, logger>>
      /\ process' = "exited"
      /\ onDisk' = IF csvFile = "open" THEN Len(csv) ELSE onDisk
    BY DEF ExitFailure, feed
<1>2. Len(csv) \in Nat
    BY DEF IInv, TypeOK
<1>3. TypeOK'
    BY <1>1, <1>2 DEF IInv, TypeOK, Feed!TypeOK
<1>4. FeedOrder' /\ Joined' /\ StorageState' /\ CsvFollowsFeed'
    BY <1>1 DEF IInv, FeedOrder, Joined, StorageState, CsvFollowsFeed
<1> QED
    BY <1>3, <1>4 DEF IInv

(* A reading joins the stream: what was said of the others still holds.    *)
LEMMA AcceptInv ==
    ASSUME IInv, NEW d \in Items \cup {EOS}, Feed!Accept(d),
           pc' \in Places, pc'.storagemgr = pc.storagemgr, Joined',
           UNCHANGED file, UNCHANGED <<buffer, logger>>,
           process' \in {"running", "exited", "killed"}
    PROVE  IInv'
<1>1. /\ stream' = Append(stream, d) /\ UNCHANGED <<seen, stored, stopped>>
      /\ UNCHANGED <<csvFile, csv, onDisk, failures>>
    BY DEF Feed!Accept, file
<1>2. /\ stream \in Seq(Items \cup {EOS}) /\ csv \in Seq(1..Len(stream))
      /\ seen \in Nat /\ stored \in Nat /\ seen <= Len(stream) /\ stored <= seen
    BY DEF IInv, TypeOK, Feed!TypeOK, FeedOrder
<1>3. /\ stream' \in Seq(Items \cup {EOS}) /\ Len(stream') = Len(stream) + 1
      /\ \A i \in 1..Len(stream) : stream'[i] = stream[i]
    BY <1>1, <1>2
<1>4. csv' \in Seq(1..Len(stream'))
    <2>1. Len(stream) \in Nat
        BY <1>2
    <2>2. 1..Len(stream) \subseteq 1..Len(stream')
        BY <1>3, <2>1
    <2> QED
        BY <1>1, <1>2, <2>2
<1>5. TypeOK'
    BY <1>1, <1>3, <1>4 DEF IInv, TypeOK, Feed!TypeOK, Places
<1>6. FeedOrder'
    <2>1. (\A i \in 1..stored : stream[i] # EOS)'
        BY <1>1, <1>2, <1>3 DEF IInv, FeedOrder
    <2>2. (stopped => seen = stored + 1 /\ stream[seen] = EOS)'
        BY <1>1, <1>2, <1>3 DEF IInv, FeedOrder
    <2> QED
        BY <1>1, <1>2, <1>3, <2>1, <2>2 DEF IInv, FeedOrder
<1>7. StorageState' /\ CsvFollowsFeed'
    BY <1>1 DEF IInv, StorageState, CsvFollowsFeed
<1> QED
    BY <1>5, <1>6, <1>7 DEF IInv

(* Every step of the connection manager keeps the invariant.               *)
LEMMA ConnmgrInv ==
    ASSUME IInv, Connmgr
    PROVE  IInv'
<1> USE GoType DEF IInv
<1>1. CASE OpenPort \/ JoinHandlers
    <2>1. pc' \in Places /\ pc'.storagemgr = pc.storagemgr /\ Joined'
        BY <1>1 DEF OpenPort, JoinHandlers, Go, Joined, Places
    <2> QED
        BY <1>1, <2>1, MoveInv DEF OpenPort, JoinHandlers, TypeOK
<1>2. CASE SocketFails
    BY <1>2, ExitInv DEF SocketFails
<1>3. CASE Serve
    <2>1. UNCHANGED <<pc, buffer, file>> /\ Joined'
        BY <1>3 DEF Serve, Joined
    <2>2. ASSUME NEW d \in Items \cup {EOS}, Feed!Accept(d), NoLog
          PROVE  IInv'
        BY <2>1, <2>2, AcceptInv DEF NoLog, TypeOK
    <2>3. CASE Log /\ UNCHANGED feed
        BY <2>1, <2>3, MoveInv, LogType DEF TypeOK
    <2> QED
        BY <1>3, <2>2, <2>3 DEF Serve
<1>4. CASE AddEos
    <2>1. pc' \in Places /\ pc'.storagemgr = pc.storagemgr /\ Joined'
        BY <1>4 DEF AddEos, Go, Joined, Places
    <2>2. CASE Feed!Accept(EOS) /\ UNCHANGED process
        BY <1>4, <2>1, <2>2, AcceptInv DEF AddEos, TypeOK
    <2>3. CASE UNCHANGED feed /\ (process' = "killed" \/ UNCHANGED process)
        BY <1>4, <2>1, <2>3, MoveInv DEF AddEos, TypeOK
    <2> QED
        BY <1>4, <2>2, <2>3 DEF AddEos
<1> QED
    BY <1>1, <1>2, <1>3, <1>4 DEF Connmgr

(* Every step of the data manager keeps the invariant: it goes no further  *)
(* than one reading ahead, and not past an end-of-stream reading.          *)
LEMMA DatamgrInv ==
    ASSUME IInv, Datamgr
    PROVE  IInv'
<1> USE GoType DEF IInv
<1>1. CASE ReadMap
    <2>1. pc' \in Places /\ pc'.storagemgr = pc.storagemgr /\ Joined'
        BY <1>1 DEF ReadMap, Go, Joined, Places
    <2> QED
        BY <1>1, <2>1, MoveInv DEF ReadMap, TypeOK
<1>2. CASE MapFails
    BY <1>2, ExitInv DEF MapFails
<1>3. CASE Analyse
    <2>1. /\ seen = stored /\ seen < Len(stream) /\ seen' = seen + 1
          /\ UNCHANGED <<stream, stored, stopped, csvFile, csv, onDisk, failures, buffer>>
        BY <1>3 DEF Analyse, Feed!Analyse, file
    <2>2. /\ pc' \in Places /\ pc'.main = pc.main /\ pc'.connmgr = pc.connmgr
          /\ pc'.storagemgr = pc.storagemgr /\ pc'.datamgr \in {pc.datamgr, "done"}
        BY <1>3 DEF Analyse, AnalysisReturns, Places
    <2>3. Joined'
        BY <2>1, <2>2 DEF Joined
    <2>4. Log \/ NoLog
        BY <1>3 DEF Analyse
    <2>5. TypeOK'
        BY <2>1, <2>2, <2>4, LogType DEF TypeOK, Feed!TypeOK, Places
    <2>6. FeedOrder'
        BY <2>1 DEF FeedOrder, TypeOK, Feed!TypeOK
    <2>7. StorageState' /\ CsvFollowsFeed'
        BY <2>1, <2>2 DEF StorageState, CsvFollowsFeed
    <2> QED
        BY <2>3, <2>5, <2>6, <2>7
<1> QED
    BY <1>1, <1>2, <1>3 DEF Datamgr

(* Every step of the storage manager keeps the invariant.                  *)
LEMMA StoragemgrInv ==
    ASSUME IInv, Storagemgr
    PROVE  IInv'
<1> USE GoType DEF IInv
<1> DEFINE Step(from, to) ==
        /\ pc.storagemgr = from /\ pc'.storagemgr = to
        /\ pc'.main = pc.main /\ pc'.connmgr = pc.connmgr /\ pc'.datamgr = pc.datamgr
<1>0. ASSUME NEW from, NEW to \in {"open", "remove", "insert", "close", "done"},
             Go("storagemgr", from, to), UNCHANGED buffer, from # "done", from # "none"
      PROVE  pc' \in Places /\ Step(from, to) /\ Joined'
    <2>1. pc' \in Places /\ Step(from, to)
        BY <1>0 DEF Go, Places
    <2> QED
        BY <1>0, <2>1 DEF Joined
<1>1. CASE OpenDb
    <2>1. pc' \in Places /\ Step("open", "remove") /\ Joined'
        BY <1>0, <1>1 DEF OpenDb
    <2>2. /\ UNCHANGED <<stream, seen, stored, stopped, buffer, csv, onDisk>>
          /\ \/ csvFile' = "open" /\ UNCHANGED failures
             \/ csvFile' = "NULL" /\ failures' = failures \cup {"fopen"}
        BY <1>1 DEF OpenDb, feed
    <2>3. TypeOK'
        BY <1>1, <2>1, <2>2, LogType DEF OpenDb, TypeOK, Feed!TypeOK, Places
    <2>4. FeedOrder'
        BY <2>2 DEF FeedOrder
    <2>5. StorageState' /\ CsvFollowsFeed'
        BY <2>1, <2>2 DEF StorageState, CsvFollowsFeed
    <2> QED
        BY <2>1, <2>3, <2>4, <2>5
<1>2. CASE RemoveReading
    <2>1. pc' \in Places /\ Step("remove", "insert") /\ Joined'
        BY <1>0, <1>2 DEF RemoveReading
    <2>2. /\ stored < seen /\ stream[stored + 1] # EOS /\ stored' = stored + 1
          /\ UNCHANGED <<stream, seen, stopped, buffer, csvFile, csv, onDisk, failures>>
          /\ UNCHANGED <<logger, process>>
        BY <1>2 DEF RemoveReading, Feed!Store, file
    <2>3. TypeOK'
        BY <2>1, <2>2 DEF TypeOK, Feed!TypeOK, Places
    <2>4. FeedOrder'
        BY <2>2 DEF FeedOrder, TypeOK, Feed!TypeOK
    <2>5. /\ stored \in Nat /\ csv \in Seq(1..Len(stream)) /\ Len(csv) \in Nat
          /\ \A i \in 1..Len(csv) : csv[i] \in 1..stored
        BY DEF TypeOK, Feed!TypeOK, CsvFollowsFeed
    <2>6. StorageState'
        BY <2>1, <2>2, <2>5 DEF StorageState
    <2>7. CsvFollowsFeed'
        BY <2>1, <2>2, <2>5 DEF CsvFollowsFeed
    <2> QED
        BY <2>1, <2>3, <2>4, <2>6, <2>7
<1>3. CASE InsertSensor
    <2>1. pc' \in Places /\ Step("insert", "remove") /\ Joined'
        BY <1>0, <1>3 DEF InsertSensor
    <2>2. /\ UNCHANGED <<stream, seen, stored, stopped, buffer, csvFile>>
          /\ logger' \in {"reading", "noFile", "fed", "crashed", "ended"}
          /\ process' \in {"running", "exited", "killed"}
        BY <1>3, LogType DEF InsertSensor, feed
    <2>3. FeedOrder'
        BY <2>2 DEF FeedOrder
    <2>4. /\ stored \in Nat /\ stored > 0 /\ stored <= Len(stream)
          /\ csv \in Seq(1..Len(stream)) /\ Len(csv) \in Nat /\ onDisk \in 0..Len(csv)
          /\ Len(stream) \in Nat
          /\ \A i \in 1..Len(csv) : csv[i] \in 1..stored /\ csv[i] < stored
          /\ failures \subseteq {"fopen", "fprintf", "fclose"}
        BY <2>1 DEF TypeOK, Feed!TypeOK, CsvFollowsFeed, StorageState, FeedOrder
    <2>5. CASE /\ csvFile = "open" /\ csv' = Append(csv, stored)
               /\ onDisk' \in {onDisk, Len(csv')} /\ UNCHANGED failures
        <3>1. /\ csv' \in Seq(1..Len(stream)) /\ Len(csv') = Len(csv) + 1
              /\ \A i \in 1..Len(csv) : csv'[i] = csv[i]
              /\ csv'[Len(csv) + 1] = stored
            BY <2>4, <2>5
        <3>2. onDisk' \in 0..Len(csv')
            BY <2>4, <2>5, <3>1
        <3>3. TypeOK'
            BY <2>1, <2>2, <2>5, <3>1, <3>2 DEF TypeOK, Feed!TypeOK, Places
        <3>4. StorageState'
            BY <2>1, <2>2, <2>5 DEF StorageState
        <3>5. \A i \in 1..Len(csv') : csv'[i] \in 1..stored
            <4> SUFFICES ASSUME NEW i \in 1..Len(csv') PROVE csv'[i] \in 1..stored
                OBVIOUS
            <4>1. i \in 1..Len(csv) \/ i = Len(csv) + 1
                BY <2>4, <3>1
            <4>2. csv'[i] = stored \/ csv'[i] \in 1..stored
                BY <2>4, <3>1, <4>1
            <4> QED
                BY <2>4, <4>2
        <3>6. \A i \in 1..Len(csv') - 1 : csv'[i] < csv'[i + 1]
            <4> SUFFICES ASSUME NEW i \in 1..Len(csv') - 1 PROVE csv'[i] < csv'[i + 1]
                OBVIOUS
            <4>1. CASE i = Len(csv)
                <5>1. i \in 1..Len(csv)
                    BY <2>4, <3>1, <4>1
                <5> QED
                    BY <2>4, <3>1, <4>1, <5>1
            <4>2. CASE i # Len(csv)
                <5>1. /\ i \in 1..Len(csv) - 1
                      /\ i \in 1..Len(csv) /\ i + 1 \in 1..Len(csv)
                    <6>1. i \in Nat /\ i > 0 /\ i <= Len(csv) /\ i # Len(csv)
                        BY <2>4, <3>1, <4>2
                    <6> QED
                        BY <2>4, <6>1
                <5>2. \A k \in 1..Len(csv) - 1 : csv[k] < csv[k + 1]
                    BY DEF CsvFollowsFeed
                <5>3. csv[i] < csv[i + 1]
                    BY <5>1, <5>2
                <5> QED
                    BY <3>1, <5>1, <5>3
            <4> QED
                BY <4>1, <4>2
        <3>7. failures' = {} => Len(csv') = stored
            BY <2>1, <2>4, <2>5, <3>1 DEF CsvFollowsFeed
        <3>8. CsvFollowsFeed'
            BY <2>1, <2>2, <3>5, <3>6, <3>7 DEF CsvFollowsFeed
        <3> QED
            BY <2>1, <2>3, <3>3, <3>4, <3>8
    <2>6. CASE /\ UNCHANGED <<csv, onDisk>>
               /\ \/ failures' = failures \cup {"fprintf"}
                  \/ csvFile = "NULL" /\ UNCHANGED failures
        <3>1. failures' # {}
            BY <2>6 DEF StorageState
        <3>2. TypeOK'
            BY <2>1, <2>2, <2>6 DEF TypeOK, Feed!TypeOK, Places
        <3>3. StorageState'
            BY <2>1, <2>2, <2>6, <3>1 DEF StorageState
        <3>4. CsvFollowsFeed'
            BY <2>1, <2>2, <2>6, <3>1 DEF CsvFollowsFeed
        <3> QED
            BY <2>1, <2>3, <3>2, <3>3, <3>4
    <2> QED
        BY <1>3, <2>5, <2>6 DEF InsertSensor, WriteReading
<1>4. CASE EndOfData
    <2>1. pc' \in Places /\ Step("remove", "close") /\ Joined'
        BY <1>0, <1>4 DEF EndOfData
    <2>2. /\ stored < seen /\ stream[stored + 1] = EOS /\ stopped' = TRUE
          /\ UNCHANGED <<stream, seen, stored, buffer, csvFile, csv, onDisk, failures>>
          /\ UNCHANGED <<logger, process>>
        BY <1>4 DEF EndOfData, Feed!Stop, file
    <2>3. TypeOK'
        BY <2>1, <2>2 DEF TypeOK, Feed!TypeOK, Places
    <2>4. FeedOrder'
        BY <2>2 DEF FeedOrder, TypeOK, Feed!TypeOK
    <2>5. StorageState' /\ CsvFollowsFeed'
        BY <2>1, <2>2 DEF StorageState, CsvFollowsFeed
    <2> QED
        BY <2>1, <2>3, <2>4, <2>5
<1>5. CASE CloseDb
    <2>1. pc' \in Places /\ Step("close", "done") /\ Joined'
        BY <1>0, <1>5 DEF CloseDb
    <2>2. /\ UNCHANGED <<stream, seen, stored, stopped, buffer, csv>>
          /\ IF csvFile = "NULL"
             THEN UNCHANGED <<csvFile, onDisk, failures>>
             ELSE /\ csvFile' = "closed"
                  /\ \/ onDisk' = Len(csv) /\ UNCHANGED failures
                     \/ failures' = failures \cup {"fclose"} /\ UNCHANGED onDisk
        BY <1>5 DEF CloseDb, feed
    <2>3. onDisk' \in 0..Len(csv)
        BY <2>2 DEF TypeOK
    <2>4. TypeOK'
        BY <1>5, <2>1, <2>2, <2>3, LogType DEF CloseDb, TypeOK, Feed!TypeOK, Places
    <2>5. FeedOrder'
        BY <2>2 DEF FeedOrder
    <2>6. StorageState' /\ CsvFollowsFeed'
        BY <2>1, <2>2 DEF StorageState, CsvFollowsFeed
    <2> QED
        BY <2>1, <2>4, <2>5, <2>6
<1> QED
    BY <1>1, <1>2, <1>3, <1>4, <1>5 DEF Storagemgr

(* The invariant holds in every reachable state.                           *)
THEOREM Invariant == Spec => []IInv
<1>1. Init => IInv
    BY InitInv
<1>2. IInv /\ [Next]_vars => IInv'
    <2> SUFFICES ASSUME IInv, [Next]_vars PROVE IInv'
        OBVIOUS
    <2>1. CASE LoggerCrash \/ LoggerEnds
        <3>1. /\ UNCHANGED <<feed, file, pc, buffer, process>>
              /\ logger' \in {"reading", "noFile", "fed", "crashed", "ended"}
            BY <2>1 DEF LoggerCrash, LoggerEnds
        <3>2. Joined' /\ pc' \in Places
            BY <3>1, GoType DEF IInv, Joined
        <3> QED
            BY <3>1, <3>2, MoveInv DEF IInv, TypeOK
    <2>2. CASE UNCHANGED vars
        <3>1. UNCHANGED <<feed, file, pc, buffer, process, logger>>
            BY <2>2 DEF vars
        <3>2. Joined' /\ pc' \in Places
            BY <3>1, GoType DEF IInv, Joined
        <3> QED
            BY <3>1, <3>2, MoveInv DEF IInv, TypeOK
    <2> QED
        BY <2>1, <2>2, MainInv, ConnmgrInv, DatamgrInv, StoragemgrInv DEF Next
<1> QED
    BY <1>1, <1>2, PTL DEF Spec, Safety

(* The variables keep their types.                                         *)
THEOREM TypeCorrect == Spec => []TypeOK
<1>1. IInv => TypeOK
    BY DEF IInv
<1> QED
    BY <1>1, Invariant, PTL

(* What storagemgr has printed to data.csv is what both readers of the     *)
(* buffer have had, in order, nothing twice and, if no call on the file    *)
(* has failed, nothing left out.                                           *)
THEOREM CsvCorrect == Spec => []CsvFollowsFeed
<1>1. IInv => CsvFollowsFeed
    BY DEF IInv
<1> QED
    BY <1>1, Invariant, PTL

(* When main frees the buffer all threads are done with it, the readers    *)
(* have met the end of the stream, and the file on the disk is complete    *)
(* unless a call on it has failed.                                         *)
THEOREM EndCorrect == Spec => []EndIsComplete
<1>1. IInv => EndIsComplete
    <2> SUFFICES ASSUME IInv, buffer = "freed"
                 PROVE  /\ \A t \in {"connmgr", "datamgr", "storagemgr"} : pc[t] = "done"
                        /\ stopped /\ seen = stored + 1 /\ stream[seen] = EOS
                        /\ \A i \in 1..stored : stream[i] # EOS
                        /\ failures = {} => csvFile = "closed" /\ onDisk = stored
        BY DEF EndIsComplete
    <2>1. pc.connmgr = "done" /\ pc.datamgr = "done" /\ pc.storagemgr = "done"
        BY DEF IInv, Joined
    <2>2. /\ stopped /\ seen = stored + 1 /\ stream[seen] = EOS
          /\ \A i \in 1..stored : stream[i] # EOS
        BY <2>1 DEF IInv, StorageState, FeedOrder
    <2>3. failures = {} => csvFile = "closed" /\ onDisk = stored
        BY <2>1 DEF IInv, StorageState, CsvFollowsFeed
    <2> QED
        BY <2>1, <2>2, <2>3
<1> QED
    BY <1>1, Invariant, PTL
=============================================================================
