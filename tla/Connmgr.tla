------------------------------- MODULE Connmgr -------------------------------
(***************************************************************************)
(* The connection manager of the gateway, src/project/connmgr.c with the   *)
(* receiving half of src/project/lib/tcpsock.c: the accept loop, one       *)
(* handler thread per accepted connection, the record protocol             *)
(* <sensor_id><temperature><timestamp> read field by field, the join of    *)
(* the handlers and the end-of-stream reading added after it.              *)
(*                                                                         *)
(* The loop passes every handler the address of the SAME stack variable    *)
(* threadArgs, so argClient below is one shared slot, read by a handler    *)
(* whenever it first runs.  Sockets are heap structures named by address:  *)
(* the address of a closed one may be handed out again by a later accept.  *)
(* The sensors and the TCP connections are the environment.                *)
(***************************************************************************)
EXTENDS Naturals, Sequences, FiniteSets, Functions

CONSTANTS Sensors,          \* sensor nodes; each connects at most once
          Addrs,            \* heap addresses of tcpsock_t structures
          NULL,
          MAX_CONN,         \* second argument of the program
          IdLen, ValLen, TsLen,   \* sizes of the three fields, scaled
          MaxRecords,       \* bound: records a sensor sends
          MaxTotal,         \* bound: units all sensors send together
          PartialDelivery,  \* may recv return less than what was asked for?
          Torn,             \* a reading that no sensor sent
          EOS               \* the reading with id 0

ASSUME ConnmgrAssumption ==
    /\ MAX_CONN \in Nat \ {0}
    /\ {IdLen, ValLen, TsLen} \subseteq Nat \ {0}
    /\ MaxRecords \in Nat /\ MaxTotal \in Nat
    /\ PartialDelivery \in BOOLEAN
    /\ NULL \notin Addrs \cup Sensors
    /\ Torn \notin Sensors \X Nat
    /\ EOS \notin (Sensors \X Nat) \cup {Torn}

Handlers == 1..MAX_CONN
RecLen   == IdLen + ValLen + TsLen
MaxUnits == MaxRecords * RecLen

(* A reading is named by the sensor it came from and the place of its      *)
(* first unit in that sensor's byte stream.                                *)
Readings == (Sensors \X (0..MaxUnits)) \cup {Torn}

VARIABLES
    link,        \* of each sensor: none, open, closed (FIN), reset (RST),
                 \* reported (a receive has told the error of the reset), shut
    sent,        \* units the sensor has sent, less what a reset threw away
    got,         \* units the gateway has received
    mpc,         \* connmgr_main: accept, join, eos, done
    conn_counter,
    argClient,   \* threadArgs.client
    fresh,       \* the tcpsock_t that the pending accept will fill, or NULL
    allocated,   \* the addresses the allocator has given away
    sockAt,      \* tcpsock_t: the connection behind an address, NULL if its
                 \* cookie is not valid (not bound yet, or closed and freed)
    hpc,         \* where each handler is
    client,      \* handle_client's local client
    pending,     \* the connection whose descriptor a blocked recv waits on
    piece,       \* handle_client's local data: what its fields came from
    closeLogged, \* the connection of which the handler has logged that it "has
                 \* closed the connection", NULL if it has not
    stream,      \* readings given to sbuffer_insert, in order
    lost,        \* history: readings sbuffer_insert could not allocate
    readers,     \* history: the handlers that received from a connection
    accepted,    \* history: the sensors in the order their handlers were made
    raced,       \* history: a handler read another handler's argument
    running      \* the process has neither exited nor been aborted

wire == <<link, sent, got>>
main == <<mpc, conn_counter, argClient>>
heap == <<fresh, allocated, sockAt>>
handler == <<hpc, client, pending, piece, closeLogged>>
race == <<accepted, raced>>
vars == <<wire, main, handler, heap, stream, lost, readers, race, running>>

Init ==
    /\ link = [c \in Sensors |-> "none"]
    /\ sent = [c \in Sensors |-> 0]
    /\ got = [c \in Sensors |-> 0]
    /\ mpc = "accept"
    /\ conn_counter = 0
    /\ argClient = NULL
    /\ fresh = NULL
    /\ allocated = {}
    /\ sockAt = [a \in Addrs |-> NULL]
    /\ hpc = [h \in Handlers |-> "none"]
    /\ client = [h \in Handlers |-> NULL]
    /\ pending = [h \in Handlers |-> NULL]
    /\ piece = [h \in Handlers |-> Torn]
    /\ closeLogged = [h \in Handlers |-> NULL]
    /\ stream = << >>
    /\ lost = [c \in Sensors |-> 0]
    /\ readers = [c \in Sensors |-> {}]
    /\ accepted = << >>
    /\ raced = FALSE
    /\ running = TRUE

-----------------------------------------------------------------------------
(* The sensors (sensor_node.c) and the network.                            *)

Connect(c) ==
    /\ link[c] = "none"
    /\ mpc = "accept"
    /\ link' = [link EXCEPT ![c] = "open"]
    /\ UNCHANGED <<sent, got, main, handler, heap, stream, lost, readers, race, running>>

(* The length of the field that begins at unit p of a sensor's stream.     *)
FieldLen(p) ==
    CASE p % RecLen = 0     -> IdLen
      [] p % RecLen = IdLen -> ValLen
      [] OTHER              -> TsLen

(* One tcp_send: a field, in the order id, temperature, timestamp.         *)
SendField(c) ==
    /\ link[c] = "open"
    /\ sent[c] < MaxUnits /\ SumFunction(sent) < MaxTotal
    /\ sent' = [sent EXCEPT ![c] = @ + FieldLen(@)]
    /\ UNCHANGED <<link, got, main, handler, heap, stream, lost, readers, race, running>>

FieldEnd(n) == n % RecLen \in {0, IdLen, IdLen + ValLen}

(* The sensor closes, or is killed and its connection reset, between any   *)
(* two fields.  A reset may throw away any part of what was not received   *)
(* yet; where fields arrive whole, any number of whole fields.             *)
Disconnect(c) ==
    /\ link[c] = "open"
    /\ \/ link' = [link EXCEPT ![c] = "closed"] /\ UNCHANGED sent
       \/ /\ link' = [link EXCEPT ![c] = "reset"]
          /\ \E n \in got[c]..sent[c] :
                /\ PartialDelivery \/ FieldEnd(n)
                /\ sent' = [sent EXCEPT ![c] = n]
    /\ UNCHANGED <<got, main, handler, heap, stream, lost, readers, race, running>>

-----------------------------------------------------------------------------
(* connmgr_main.                                                           *)

(* Fault: tcp_sock_create returns the same structure each time.            *)
SameStructure(a) ==
    /\ running
    /\ mpc = "accept"
    /\ fresh = NULL
    /\ fresh' = a
    /\ allocated' = allocated \cup {a}
    /\ sockAt' = [sockAt EXCEPT ![a] = NULL]
    /\ UNCHANGED <<wire, main, handler, stream, lost, readers, race, running>>

(* tcp_wait_for_connection first makes the structure, with no valid cookie *)
(* yet: any address that the allocator has not given away.                 *)
MakeSocket(a) ==
    /\ running
    /\ mpc = "accept"
    /\ fresh = NULL
    /\ a \notin allocated
    /\ fresh' = a
    /\ allocated' = allocated \cup {a}
    /\ sockAt' = [sockAt EXCEPT ![a] = NULL]
    /\ UNCHANGED <<wire, main, handler, stream, lost, readers, race, running>>

Accepted(c) == c \in Range(accepted)

(* It then waits in accept and fills the structure; the assignments to     *)
(* threadArgs, pthread_create and conn_counter++; the loop ends at         *)
(* MAX_CONN.                                                               *)
Accept(c) ==
    /\ running
    /\ mpc = "accept"
    /\ fresh # NULL
    /\ link[c] \in {"open", "closed", "reset"}
    /\ ~Accepted(c)
    /\ sockAt' = [sockAt EXCEPT ![fresh] = c]
    /\ argClient' = fresh
    /\ fresh' = NULL
    /\ accepted' = Append(accepted, c)
    /\ conn_counter' = conn_counter + 1
    /\ hpc' = [hpc EXCEPT ![conn_counter + 1] = "start"]
    /\ mpc' = IF conn_counter + 1 < MAX_CONN THEN "accept" ELSE "join"
    /\ UNCHANGED <<wire, allocated, client, pending, piece, closeLogged, stream, lost,
                   readers, raced, running>>

(* malloc, accept or pthread_create fails: exit of the whole process.      *)
AcceptFail ==
    /\ running
    /\ mpc = "accept"
    /\ running' = FALSE
    /\ UNCHANGED <<wire, main, handler, heap, stream, lost, readers, race>>

(* Fault: the handlers are not joined.                                     *)
NothingToJoin == TRUE

AllEnded == \A h \in Handlers : hpc[h] = "ended"

(* tcp_close(&server), then pthread_join of every handler.                 *)
JoinAll ==
    /\ running
    /\ mpc = "join"
    /\ AllEnded
    /\ mpc' = "eos"
    /\ UNCHANGED <<wire, conn_counter, argClient, handler, heap, stream, lost,
                   readers, race, running>>

(* The end-of-stream reading is inserted; sbuffer_insert may fail unseen,  *)
(* and the unchecked malloc before it kills the process when it fails.     *)
AddEos ==
    /\ running
    /\ mpc = "eos"
    /\ mpc' = "done"
    /\ \/ stream' = Append(stream, EOS) /\ UNCHANGED running
       \/ UNCHANGED <<stream, running>>
       \/ running' = FALSE /\ UNCHANGED stream
    /\ UNCHANGED <<wire, conn_counter, argClient, handler, heap, lost, readers, race>>

-----------------------------------------------------------------------------
(* handle_client.                                                          *)

(* The connection a receive of h is about: the one it blocked on, or else  *)
(* the one that is now behind the structure, NULL if that is freed.        *)
Conn(h) == IF pending[h] # NULL THEN pending[h] ELSE sockAt[client[h]]

Gone == {"closed", "reset", "reported", "shut"}

Outcome(res, n, p) == [res |-> res, n |-> n, p |-> p]

(* Fault: the 0 that recv returns on a closed connection counts as success.*)
ZeroIsSuccess(h, len) ==
    LET c == Conn(h)
    IN  CASE c = NULL -> {Outcome("socketError", 0, 0)}
          [] c # NULL /\ (sent[c] > got[c] \/ link[c] \in Gone) ->
                {Outcome("ok", len, got[c])}
          [] OTHER -> {}

(* What tcp_receive of len units may return to handler h: the result, the  *)
(* number of units and the place of the first one; nothing as long as it   *)
(* blocks.  A freed structure has no valid cookie any more; recv returns 0 *)
(* on a closed connection, on one that was shut down under it, and on one  *)
(* that was reset once the error has been told.                            *)
ReceiveOutcomes(h, len) ==
    LET c     == Conn(h)
        avail == sent[c] - got[c]
        most  == IF len < avail THEN len ELSE avail
    IN  CASE c = NULL -> {Outcome("socketError", 0, 0)}
          [] c # NULL /\ avail > 0 ->
                {Outcome("ok", n, got[c]) :
                    n \in IF PartialDelivery THEN 1..most ELSE {most}}
          [] c # NULL /\ avail = 0 /\ link[c] \in {"closed", "reported", "shut"} ->
                {Outcome("closed", 0, 0)}
          [] c # NULL /\ avail = 0 /\ link[c] = "reset" ->
                {Outcome("sockopError", 0, 0)}
          [] OTHER -> {}

(* Its effect on the connection; the error of a reset is reported once.    *)
Received(h, o) ==
    LET c == Conn(h)
    IN  /\ pending' = [pending EXCEPT ![h] = NULL]
        /\ IF c = NULL
           THEN UNCHANGED <<wire, readers>>
           ELSE /\ got' = [got EXCEPT ![c] = @ + o.n]
                /\ link' = [link EXCEPT ![c] = IF o.res = "sockopError" THEN "reported" ELSE @]
                /\ readers' = [readers EXCEPT ![c] = @ \cup {h}]
                /\ UNCHANGED sent

(* The outcome is the whole field of len units that lies offset behind the *)
(* beginning of what h has received of its reading.                        *)
Continues(h, o, len, offset) ==
    /\ piece[h] # Torn
    /\ piece[h][1] = Conn(h)
    /\ o.res = "ok" /\ o.n = len /\ o.p = piece[h][2] + offset

StartHandler(h) ==
    /\ running
    /\ hpc[h] = "start"
    /\ client' = [client EXCEPT ![h] = argClient]
    /\ raced' = (raced \/ sockAt[argClient] # accepted[h])
    /\ hpc' = [hpc EXCEPT ![h] = "recvId"]
    /\ UNCHANGED <<wire, main, pending, piece, closeLogged, heap, stream, lost, readers,
                   accepted, running>>

(* There is nothing to return: recv blocks on the descriptor it was given. *)
BlockRecv(h) ==
    /\ running
    /\ hpc[h] \in {"recvId", "recvValue", "recvTs"}
    /\ pending[h] = NULL
    /\ ReceiveOutcomes(h, 1) = {}
    /\ pending' = [pending EXCEPT ![h] = Conn(h)]
    /\ UNCHANGED <<wire, main, hpc, client, piece, closeLogged, heap, stream, lost,
                   readers, race, running>>

(* Whatever the results of the first two receives, the third follows.      *)
RecvId(h) ==
    /\ running
    /\ hpc[h] = "recvId"
    /\ \E o \in ReceiveOutcomes(h, IdLen) :
          /\ Received(h, o)
          /\ piece' = [piece EXCEPT ![h] =
                IF o.res = "ok" /\ o.n = IdLen /\ o.p % RecLen = 0
                THEN <<Conn(h), o.p>> ELSE Torn]
    /\ hpc' = [hpc EXCEPT ![h] = "recvValue"]
    /\ UNCHANGED <<main, client, closeLogged, heap, stream, lost, race, running>>

RecvValue(h) ==
    /\ running
    /\ hpc[h] = "recvValue"
    /\ \E o \in ReceiveOutcomes(h, ValLen) :
          /\ Received(h, o)
          /\ piece' = [piece EXCEPT ![h] =
                IF Continues(h, o, ValLen, IdLen) THEN @ ELSE Torn]
    /\ hpc' = [hpc EXCEPT ![h] = "recvTs"]
    /\ UNCHANGED <<main, client, closeLogged, heap, stream, lost, race, running>>

(* Fault: the end of the connection is not told from data.                 *)
InsertAtClose(o) == IF o.res \in {"ok", "closed"} THEN "insert" ELSE "close"

(* Fault: after an error the loop goes on.                                 *)
RetryOnError(o) ==
    CASE o.res = "ok"     -> "insert"
      [] o.res = "closed" -> "close"
      [] OTHER            -> "recvId"

AfterTs(o) == IF o.res = "ok" THEN "insert" ELSE "close"

(* Only the result of the last receive decides whether the reading counts  *)
(* and whether the loop goes on.                                           *)
RecvTs(h) ==
    /\ running
    /\ hpc[h] = "recvTs"
    /\ \E o \in ReceiveOutcomes(h, TsLen) :
          /\ Received(h, o)
          /\ piece' = [piece EXCEPT ![h] =
                IF Continues(h, o, TsLen, IdLen + ValLen) THEN @ ELSE Torn]
          /\ hpc' = [hpc EXCEPT ![h] = AfterTs(o)]
          /\ closeLogged' = [closeLogged EXCEPT ![h] =
                IF o.res = "closed" THEN Conn(h) ELSE NULL]
    /\ UNCHANGED <<main, client, heap, stream, lost, race, running>>

From(reading, c) == \E p \in 0..MaxUnits : reading = <<c, p>>

(* Fault: the newest reading is put in front.                              *)
InsertedInFront(r) == <<r>> \o stream

Inserted(r) == Append(stream, r)

(* sbuffer_insert; a failure is ignored and the loop goes on.              *)
InsertReading(h) ==
    /\ running
    /\ hpc[h] = "insert"
    /\ \/ stream' = Inserted(piece[h]) /\ UNCHANGED lost
       \/ /\ lost' = [c \in Sensors |-> lost[c] + (IF From(piece[h], c) THEN 1 ELSE 0)]
          /\ UNCHANGED stream
    /\ hpc' = [hpc EXCEPT ![h] = "recvId"]
    /\ UNCHANGED <<wire, main, client, pending, piece, closeLogged, heap, readers,
                   race, running>>

(* Fault: the loop is not left behind tcp_close.                           *)
CloseAndGoOn(h) ==
    /\ running
    /\ hpc[h] = "close"
    /\ hpc' = [hpc EXCEPT ![h] = "recvId"]
    /\ LET a == client[h]
       IN  /\ sockAt[a] # NULL
           /\ sockAt' = [sockAt EXCEPT ![a] = NULL]
           /\ link' = [link EXCEPT ![sockAt[a]] = "shut"]
           /\ allocated' = allocated \ {a}
    /\ UNCHANGED <<sent, got, main, client, pending, piece, closeLogged, fresh, stream,
                   lost, readers, race, running>>

(* tcp_close(&client): the connection behind the structure, if there is    *)
(* one, is shut, and the structure is freed.  One that is free already is  *)
(* freed again: the allocator aborts the process or does not notice.       *)
CloseClient(h) ==
    /\ running
    /\ hpc[h] = "close"
    /\ hpc' = [hpc EXCEPT ![h] = "ended"]
    /\ LET a == client[h]
       IN  /\ sockAt' = [sockAt EXCEPT ![a] = NULL]
           /\ link' = [c \in Sensors |-> IF c = sockAt[a] THEN "shut" ELSE link[c]]
           /\ allocated' = allocated \ {a}
           /\ a \in allocated => UNCHANGED running
           /\ running' \in BOOLEAN
    /\ UNCHANGED <<sent, got, main, client, pending, piece, closeLogged, fresh, stream,
                   lost, readers, race>>

HandlerStep(h) ==
    \/ StartHandler(h)
    \/ BlockRecv(h)
    \/ RecvId(h)
    \/ RecvValue(h)
    \/ RecvTs(h)
    \/ InsertReading(h)
    \/ CloseClient(h)

MainStep ==
    \/ \E a \in Addrs : MakeSocket(a)
    \/ \E c \in Sensors : Accept(c)
    \/ JoinAll
    \/ AddEos

Environment == \E c \in Sensors : Connect(c) \/ SendField(c) \/ Disconnect(c)

Next == MainStep \/ AcceptFail \/ (\E h \in Handlers : HandlerStep(h)) \/ Environment

Safety == Init /\ [][Next]_vars

(* The threads of the gateway are scheduled; the sensors promise nothing.  *)
Fairness == WF_vars(MainStep) /\ \A h \in Handlers : WF_vars(HandlerStep(h))

Spec == Safety /\ Fairness
-----------------------------------------------------------------------------
(* Types of every variable.                                                *)
TypeOK ==
    /\ link \in [Sensors -> {"none", "open"} \cup Gone]
    /\ sent \in [Sensors -> 0..MaxUnits]
    /\ got \in [Sensors -> 0..MaxUnits]
    /\ \A c \in Sensors : got[c] <= sent[c]
    /\ mpc \in {"accept", "join", "eos", "done"}
    /\ conn_counter \in 0..MAX_CONN
    /\ argClient \in Addrs \cup {NULL}
    /\ fresh \in Addrs \cup {NULL}
    /\ allocated \subseteq Addrs
    /\ sockAt \in [Addrs -> Sensors \cup {NULL}]
    /\ hpc \in [Handlers -> {"none", "start", "recvId", "recvValue", "recvTs",
                             "insert", "close", "ended"}]
    /\ client \in [Handlers -> Addrs \cup {NULL}]
    /\ pending \in [Handlers -> Sensors \cup {NULL}]
    /\ piece \in [Handlers -> Readings]
    /\ closeLogged \in [Handlers -> Sensors \cup {NULL}]
    /\ stream \in Seq(Readings \cup {EOS})
    /\ lost \in [Sensors -> Nat]
    /\ readers \in [Sensors -> SUBSET Handlers]
    /\ accepted \in Seq(Sensors)
    /\ Len(accepted) = conn_counter
    /\ raced \in BOOLEAN
    /\ running \in BOOLEAN

(* The end-of-stream reading ends the stream: no handler has anything left *)
(* to insert behind it, where nobody would ever read it.                   *)
EosEndsStream ==
    \A i \in 1..Len(stream) : stream[i] = EOS =>
        /\ i = Len(stream)
        /\ \A h \in Handlers : hpc[h] = "ended"

Shared(c)    == Cardinality(readers[c]) > 1
Delivered(c) == {i \in 1..Len(stream) : From(stream[i], c)}
InFlight(c)  == Cardinality({h \in Handlers : hpc[h] = "insert" /\ From(piece[h], c)})

(* connmgr.c:41, "make a thread for every client": no two handlers read    *)
(* from the same connection.                                               *)
ThreadPerClient == \A c \in Sensors : ~Shared(c)

(* connmgr.c:85, 94, 97 read a sensor id, a temperature and a timestamp:   *)
(* what is inserted is a record some sensor sent.                          *)
EveryReadingWasSent == \A i \in 1..Len(stream) : stream[i] # Torn

(* If each handler copies threadArgs before the loop accepts again, then   *)
(* no two handlers meet on a connection, although sockets are freed and    *)
(* their addresses handed out again while others still run.                *)
TimelyStartsSuffice == ~raced => ThreadPerClient

(* The overwritten argument is then the only thing that puts together a    *)
(* record nobody sent, as long as every field arrives whole.               *)
WholeRecordsOnly == ~raced => EveryReadingWasSent

(* Only the handler that was made for connection c has received from it.   *)
Undisturbed(c) == \A h \in readers[c] : accepted[h] = c

(* An undisturbed connection delivers its records in the order sent, each  *)
(* of them once, none of them partial: every whole record received is in   *)
(* the stream, on its way there, or was dropped by a failed malloc.        *)
ExclusiveExact ==
    \A c \in Sensors : Undisturbed(c) =>
        /\ \A i \in Delivered(c) : stream[i][2] % RecLen = 0
        /\ \A i, j \in Delivered(c) : i < j => stream[i][2] < stream[j][2]
        /\ Cardinality(Delivered(c)) + lost[c] + InFlight(c) = got[c] \div RecLen

(* As long as the arguments were copied in time, a handler between its     *)
(* first receive and its tcp_close holds the structure of its own          *)
(* connection: nobody has freed it, and no later accept has taken its      *)
(* memory (tcpsock.c:150, connmgr.c:122).                                  *)
SocketsStayAlive ==
    ~raced => \A h \in Handlers :
        hpc[h] \in {"recvId", "recvValue", "recvTs", "insert", "close"}
            => client[h] \in allocated /\ sockAt[client[h]] = accepted[h]

(* connmgr.c:113, "Peer has closed connection", against connmgr.c:118,     *)
(* "Error occured on connection to peer": "has closed the connection" is   *)
(* not logged of a connection that a receive has told to be reset.         *)
ClosedByPeer ==
    \A h \in Handlers, c \in Sensors : closeLogged[h] = c => link[c] # "reported"

(* connmgr.c:65, "end of stream marker toevoegen": connmgr_main does not   *)
(* return without having added the end-of-stream reading.                  *)
EosIsAdded == mpc = "done" /\ running => \E i \in 1..Len(stream) : stream[i] = EOS

(* Once MAX_CONN sensors were accepted and all of these have disconnected, *)
(* the handlers end, are joined and the end-of-stream reading is tried,    *)
(* unless a double free has stopped the process.                           *)
EosAfterDisconnects ==
    (mpc # "accept" /\ \A c \in Sensors : Accepted(c) => link[c] \in Gone)
        ~> (mpc = "done" \/ ~running)
=============================================================================
