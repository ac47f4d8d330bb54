---------------------------- MODULE ConnmgrProofs ----------------------------
(***************************************************************************)
(* Proofs about Connmgr for any number of sensors, addresses and handlers, *)
(* with whole or partial delivery.  Nothing follows the end-of-stream      *)
(* reading because it is added when all handlers have ended and none of    *)
(* them holds it.  No two handlers meet on a connection if each has copied *)
(* its argument in time, because the loop never accepts a sensor twice:    *)
(* a handler that copied its argument in time owns the memory of its       *)
(* socket, which nobody else frees and no later accept is given.           *)
(*                                                                         *)
(* The second half needs to know where the records lie in what a sensor    *)
(* sends.  First the types with their bounds.  Then that a record nobody   *)
(* sent is put together in one way only, by two handlers that meet on a    *)
(* connection: the invariant follows each handler through the fields of    *)
(* its own connection.  Last, that a connection only its own handler has   *)
(* read is accounted for record by record, whatever the others do: the     *)
(* invariant counts what is in the stream, dropped and in flight, and      *)
(* knows that a handler which has lost its connection never gets it back.  *)
(***************************************************************************)
EXTENDS Connmgr, Integers, FiniteSetTheorems, SequenceTheorems, TLAPS

MakesSocket == \E a \in Addrs : MakeSocket(a)

Whole  == (Sensors \X Nat) \cup {Torn}
Links  == {"none", "open"} \cup Gone
Recvs  == {"recvId", "recvValue", "recvTs"}
Active == Recvs \cup {"insert", "close"}
Places == {"none", "start", "ended"} \cup Active

(* The types the arguments need, without the bounds of TypeOK.             *)
Typed ==
    /\ link \in [Sensors -> Links]
    /\ sent \in [Sensors -> Nat]
    /\ got \in [Sensors -> Nat]
    /\ mpc \in {"accept", "join", "eos", "done"}
    /\ conn_counter \in 0..MAX_CONN
    /\ argClient \in Addrs \cup {NULL}
    /\ fresh \in Addrs \cup {NULL}
    /\ allocated \subseteq Addrs
    /\ sockAt \in [Addrs -> Sensors \cup {NULL}]
    /\ hpc \in [Handlers -> Places]
    /\ client \in [Handlers -> Addrs \cup {NULL}]
    /\ pending \in [Handlers -> Sensors \cup {NULL}]
    /\ piece \in [Handlers -> Whole]
    /\ stream \in Seq(Whole \cup {EOS})
    /\ readers \in [Sensors -> SUBSET Handlers]
    /\ accepted \in Seq(Sensors)
    /\ Len(accepted) = conn_counter

(* Only handlers that were made run, and only with an argument.            *)
Control ==
    /\ mpc = "accept" => conn_counter < MAX_CONN
    /\ conn_counter > 0 => argClient \in Addrs
    /\ \A h \in Handlers :
        /\ hpc[h] # "none" => h <= conn_counter
        /\ hpc[h] \in {"none", "start"} => pending[h] = NULL
        /\ hpc[h] \in Active => client[h] \in Addrs

(* The end-of-stream reading is added last, behind all handlers.           *)
EosLast ==
    /\ mpc \in {"eos", "done"} => AllEnded
    /\ mpc # "done" => \A i \in 1..Len(stream) : stream[i] # EOS
    /\ \A i \in 1..Len(stream) : stream[i] = EOS => i = Len(stream)

(* No sensor is accepted twice.                                            *)
AcceptedOnce ==
    \A i, j \in 1..Len(accepted) : accepted[i] = accepted[j] => i = j

(* Every connection lies in memory that is given away, and not in the      *)
(* structure which the next accept will fill.                              *)
MemoryOwned ==
    ~raced =>
        /\ fresh # NULL => fresh \in allocated
        /\ \A a \in Addrs : sockAt[a] # NULL => a \in allocated /\ a # fresh

(* A handler that copied its argument in time works on its own connection. *)
OwnConnection ==
    ~raced => \A h \in Handlers : hpc[h] \in Active =>
        sockAt[client[h]] = accepted[h] /\ pending[h] \in {NULL, accepted[h]}

ReadersOwn ==
    ~raced => \A c \in Sensors : \A h \in readers[c] :
        h \in 1..Len(accepted) /\ accepted[h] = c

IInv ==
    Typed /\ Control /\ EosLast /\ AcceptedOnce /\ MemoryOwned /\ OwnConnection /\ ReadersOwn

(* The initial states satisfy the invariant.                               *)
LEMMA InitInv == Init => IInv
<1> SUFFICES ASSUME Init PROVE IInv
    OBVIOUS
<1>1. Typed
    BY ConnmgrAssumption DEF Init, Typed, Whole, Links, Places, ConnmgrAssumption
<1>2. Control /\ EosLast /\ AcceptedOnce /\ MemoryOwned /\ OwnConnection /\ ReadersOwn
    BY ConnmgrAssumption DEF Init, Control, EosLast, AcceptedOnce, MemoryOwned, OwnConnection,
        ReadersOwn, Active, Recvs, ConnmgrAssumption
<1> QED
    BY <1>1, <1>2 DEF IInv

(* The length of a field is a number.                                      *)
LEMMA FieldLenNat == \A p \in Nat : FieldLen(p) \in Nat
BY ConnmgrAssumption DEF FieldLen, ConnmgrAssumption

(* The sensors move their own counters and links, and never open one that  *)
(* was shut.                                                               *)
LEMMA EnvironmentInv ==
    ASSUME IInv, NEW c \in Sensors, Connect(c) \/ SendField(c) \/ Disconnect(c)
    PROVE  IInv'
<1>1. /\ Typed /\ Control /\ EosLast /\ AcceptedOnce /\ MemoryOwned /\ OwnConnection
      /\ ReadersOwn
      /\ UNCHANGED <<got, mpc, conn_counter, argClient, fresh, allocated, sockAt,
                     hpc, client, pending, piece, stream, readers, accepted, raced>>
    BY DEF IInv, Connect, SendField, Disconnect, main, handler, heap, race
<1>2. link' \in [Sensors -> Links]
    <2>1. link \in [Sensors -> Links]
        BY <1>1 DEF Typed
    <2> QED
        BY <2>1 DEF Links, Gone, Connect, SendField, Disconnect
<1>3. sent' \in [Sensors -> Nat]
    <2>1. /\ sent \in [Sensors -> Nat] /\ FieldLen(sent[c]) \in Nat
          /\ sent[c] \in Nat /\ got[c] \in Nat
        BY <1>1, FieldLenNat DEF Typed
    <2>2. CASE SendField(c)
        <3>1. sent' = [sent EXCEPT ![c] = sent[c] + FieldLen(sent[c])]
            BY <2>2 DEF SendField
        <3> QED
            BY <2>1, <3>1
    <2>3. CASE Connect(c) \/ Disconnect(c)
        <3>1. UNCHANGED sent \/ \E n \in got[c]..sent[c] : sent' = [sent EXCEPT ![c] = n]
            BY <2>3 DEF Connect, Disconnect
        <3> QED
            BY <2>1, <3>1
    <2> QED
        BY <2>2, <2>3
<1>4. Typed'
    BY <1>1, <1>2, <1>3 DEF Typed
<1>5. /\ Control' /\ EosLast' /\ AcceptedOnce' /\ MemoryOwned' /\ OwnConnection'
      /\ ReadersOwn'
    BY <1>1 DEF Control, EosLast, AllEnded, AcceptedOnce, MemoryOwned, OwnConnection,
        ReadersOwn
<1> QED
    BY <1>4, <1>5 DEF IInv

(* New memory is nobody's connection.                                      *)
LEMMA MakeSocketInv ==
    ASSUME IInv, NEW a \in Addrs, MakeSocket(a)
    PROVE  IInv'
<1>1. /\ Typed /\ Control /\ EosLast /\ AcceptedOnce /\ MemoryOwned /\ OwnConnection
      /\ ReadersOwn
      /\ a \notin allocated /\ fresh' = a /\ allocated' = allocated \cup {a}
      /\ sockAt' = [sockAt EXCEPT ![a] = NULL]
      /\ UNCHANGED <<link, sent, got, mpc, conn_counter, argClient, hpc, client, pending,
                     piece, stream, readers, accepted, raced>>
    BY DEF IInv, MakeSocket, wire, main, handler, race
<1>2. sockAt \in [Addrs -> Sensors \cup {NULL}] /\ allocated \subseteq Addrs
    BY <1>1 DEF Typed
<1>3. /\ sockAt' \in [Addrs -> Sensors \cup {NULL}] /\ sockAt'[a] = NULL
      /\ \A b \in Addrs \ {a} : sockAt'[b] = sockAt[b]
    BY <1>1, <1>2
<1>4. Typed'
    BY <1>1, <1>2, <1>3 DEF Typed
<1>5. MemoryOwned'
    BY <1>1, <1>2, <1>3 DEF MemoryOwned
<1>6. OwnConnection'
    <2> SUFFICES ASSUME ~raced, NEW h \in Handlers, hpc[h] \in Active
                 PROVE  sockAt'[client[h]] = accepted[h] /\ pending[h] \in {NULL, accepted[h]}
        BY <1>1 DEF OwnConnection
    <2>1. /\ sockAt[client[h]] = accepted[h] /\ pending[h] \in {NULL, accepted[h]}
          /\ client[h] \in Addrs
        BY <1>1 DEF OwnConnection, Control
    <2>2. sockAt[client[h]] # NULL
        BY <1>1, <2>1, ConnmgrAssumption
           DEF Typed, Control, Active, Recvs, Handlers, ConnmgrAssumption
    <2>3. client[h] # a
        BY <1>1, <2>1, <2>2 DEF MemoryOwned
    <2> QED
        BY <1>3, <2>1, <2>3
<1>7. Control' /\ EosLast' /\ AcceptedOnce' /\ ReadersOwn'
    BY <1>1 DEF Control, EosLast, AllEnded, AcceptedOnce, ReadersOwn
<1> QED
    BY <1>4, <1>5, <1>6, <1>7 DEF IInv

(* A connection that was not accepted before gets the new memory and the   *)
(* next handler.                                                           *)
LEMMA AcceptInv ==
    ASSUME IInv, NEW c \in Sensors, Accept(c)
    PROVE  IInv'
<1> DEFINE n == conn_counter + 1
           a == fresh
<1>1. /\ Typed /\ Control /\ EosLast /\ AcceptedOnce /\ MemoryOwned /\ OwnConnection
      /\ ReadersOwn
      /\ mpc = "accept" /\ ~Accepted(c) /\ a # NULL
      /\ sockAt' = [sockAt EXCEPT ![a] = c] /\ argClient' = a
      /\ fresh' = NULL /\ UNCHANGED allocated
      /\ accepted' = Append(accepted, c) /\ conn_counter' = n
      /\ hpc' = [hpc EXCEPT ![n] = "start"]
      /\ mpc' = IF n < MAX_CONN THEN "accept" ELSE "join"
      /\ UNCHANGED <<link, sent, got, client, pending, piece, stream, readers, raced>>
    BY DEF IInv, Accept, wire
<1>2. /\ conn_counter \in Nat /\ n \in Handlers /\ MAX_CONN \in Nat /\ NULL \notin Sensors
      /\ accepted \in Seq(Sensors) /\ Len(accepted) = conn_counter
      /\ hpc \in [Handlers -> Places] /\ sockAt \in [Addrs -> Sensors \cup {NULL}]
      /\ a \in Addrs
    <2>1. MAX_CONN \in Nat /\ NULL \notin Sensors
        BY ConnmgrAssumption DEF ConnmgrAssumption
    <2>2. conn_counter \in Nat /\ conn_counter < MAX_CONN
        BY <1>1, <2>1 DEF Typed, Control
    <2>3. n \in Handlers
        BY <2>1, <2>2 DEF Handlers
    <2> QED
        BY <1>1, <2>1, <2>2, <2>3 DEF Typed
<1>3. /\ accepted' \in Seq(Sensors) /\ Len(accepted') = n /\ accepted'[n] = c
      /\ \A i \in 1..Len(accepted) : accepted'[i] = accepted[i] /\ accepted[i] \in Sensors
    BY <1>1, <1>2
<1>4. hpc[n] = "none" /\ hpc'[n] = "start" /\ \A h \in Handlers \ {n} : hpc'[h] = hpc[h]
    BY <1>1, <1>2 DEF Control, Handlers
<1> HIDE DEF n, a
<1>5. Typed'
    <2>1. /\ hpc' \in [Handlers -> Places] /\ sockAt' \in [Addrs -> Sensors \cup {NULL}]
          /\ mpc' \in {"accept", "join"}
        BY <1>1, <1>2 DEF Places
    <2>2. conn_counter' \in 0..MAX_CONN
        BY <1>1, <1>2 DEF Handlers
    <2> QED
        BY <1>1, <1>3, <2>1, <2>2 DEF Typed
<1>6. Control'
    <2>1. \A h \in Handlers : h <= conn_counter => h <= n
        BY <1>2 DEF n, Handlers
    <2> QED
        <3>1. mpc' = "accept" => conn_counter' < MAX_CONN
            BY <1>1
        <3>2. argClient' \in Addrs
            BY <1>1, <1>2
        <3>3. ASSUME NEW h \in Handlers
              PROVE  /\ hpc'[h] # "none" => h <= n
                     /\ hpc'[h] \in {"none", "start"} => pending[h] = NULL
                     /\ hpc'[h] \in Active => client[h] \in Addrs
            <4>1. CASE h = n
                BY <1>1, <1>2, <1>4, <4>1 DEF Control, Active, Recvs, Handlers
            <4>2. CASE h # n
                BY <1>1, <1>4, <2>1, <4>2 DEF Control
            <4> QED
                BY <4>1, <4>2
        <3> QED
            BY <1>1, <3>1, <3>2, <3>3 DEF Control
<1>7. EosLast'
    BY <1>1 DEF EosLast
<1>8. AcceptedOnce'
    <2>1. \A i \in 1..Len(accepted) : accepted[i] # c
        BY <1>1, <1>2 DEF Accepted, Range
    <2>2. 1..Len(accepted') = 1..Len(accepted) \cup {n}
        BY <1>2, <1>3 DEF n
    <2> QED
        BY <1>1, <1>3, <2>1, <2>2 DEF AcceptedOnce
<1>9. OwnConnection'
    <2> SUFFICES ASSUME ~raced, NEW h \in Handlers, hpc'[h] \in Active
                 PROVE  sockAt'[client'[h]] = accepted'[h] /\ pending'[h] \in {NULL, accepted'[h]}
        BY <1>1 DEF OwnConnection
    <2>1. h # n /\ hpc[h] \in Active /\ h \in 1..Len(accepted) /\ client[h] \in Addrs
        <3>1. h # n
            BY <1>4 DEF Active, Recvs
        <3>2. hpc[h] \in Active
            BY <1>4, <3>1
        <3>3. hpc[h] # "none"
            BY <3>2 DEF Active, Recvs
        <3>4. h <= conn_counter /\ client[h] \in Addrs
            BY <1>1, <3>2, <3>3 DEF Control
        <3>5. h \in 1..Len(accepted)
            BY <1>2, <3>4 DEF Handlers
        <3> QED
            BY <3>1, <3>2, <3>4, <3>5
    <2>2. sockAt[client[h]] = accepted[h] /\ pending[h] \in {NULL, accepted[h]}
        BY <1>1, <2>1 DEF OwnConnection
    <2>3. client[h] # a
        <3>1. accepted[h] # NULL
            BY <1>2, <1>3, <2>1
        <3> QED
            BY <1>1, <2>1, <2>2, <3>1 DEF MemoryOwned, a
    <2> QED
        BY <1>1, <1>2, <1>3, <2>1, <2>2, <2>3
<1>10. ReadersOwn'
    BY <1>1, <1>2, <1>3 DEF ReadersOwn, n
<1>11. MemoryOwned'
    <2>1. \A b \in Addrs : sockAt'[b] = IF b = a THEN c ELSE sockAt[b]
        BY <1>1, <1>2
    <2>2. ~raced => a \in allocated
        BY <1>1 DEF MemoryOwned, a
    <2>3. \A b \in Addrs : b # NULL
        BY ConnmgrAssumption DEF ConnmgrAssumption
    <2> QED
        BY <1>1, <2>1, <2>2, <2>3 DEF MemoryOwned
<1> QED
    BY <1>5, <1>6, <1>7, <1>8, <1>9, <1>10, <1>11 DEF IInv

(* The end-of-stream reading is added when no handler runs any more.       *)
LEMMA EndInv ==
    ASSUME IInv, JoinAll \/ AddEos \/ AcceptFail
    PROVE  IInv'
<1>1. /\ Typed /\ Control /\ EosLast /\ AcceptedOnce /\ MemoryOwned /\ OwnConnection
      /\ ReadersOwn
      /\ UNCHANGED <<link, sent, got, conn_counter, argClient, fresh, allocated, sockAt,
                     hpc, client, pending, piece, readers, accepted, raced>>
    BY DEF IInv, JoinAll, AddEos, AcceptFail, wire, main, handler, heap, race
<1>2. /\ mpc' \in {"accept", "join", "eos", "done"}
      /\ mpc' = "accept" => mpc = "accept"
      /\ stream \in Seq(Whole \cup {EOS})
    BY <1>1 DEF Typed, JoinAll, AddEos, AcceptFail, main
<1>3. stream' \in Seq(Whole \cup {EOS}) /\ EosLast'
    <2>1. CASE JoinAll \/ AcceptFail
        BY <1>1, <1>2, <2>1 DEF EosLast, JoinAll, AcceptFail, AllEnded, main
    <2>2. CASE AddEos /\ UNCHANGED stream
        BY <1>1, <1>2, <2>2 DEF EosLast, AddEos, AllEnded
    <2>3. CASE AddEos /\ stream' = Append(stream, EOS)
        <3>1. /\ stream' \in Seq(Whole \cup {EOS}) /\ Len(stream') = Len(stream) + 1
              /\ \A i \in 1..Len(stream) : stream'[i] = stream[i]
              /\ Len(stream) \in Nat
            BY <1>2, <2>3
        <3>2. \A i \in 1..Len(stream) : stream[i] # EOS
            BY <1>1, <2>3 DEF EosLast, AddEos
        <3>3. \A i \in 1..Len(stream') : stream'[i] = EOS => i = Len(stream')
            BY <3>1, <3>2
        <3> QED
            BY <1>1, <2>3, <3>1, <3>3 DEF EosLast, AddEos, AllEnded
    <2> QED
        BY <2>1, <2>2, <2>3 DEF AddEos
<1>4. Typed' /\ Control'
    BY <1>1, <1>2, <1>3 DEF Typed, Control
<1>5. AcceptedOnce' /\ MemoryOwned' /\ OwnConnection' /\ ReadersOwn'
    BY <1>1 DEF AcceptedOnce, MemoryOwned, OwnConnection, ReadersOwn
<1> QED
    BY <1>3, <1>4, <1>5 DEF IInv

(* A handler takes the argument it finds.                                  *)
LEMMA StartHandlerInv ==
    ASSUME IInv, NEW h \in Handlers, StartHandler(h)
    PROVE  IInv'
<1>1. /\ Typed /\ Control /\ EosLast /\ AcceptedOnce /\ MemoryOwned /\ OwnConnection
      /\ ReadersOwn
      /\ hpc[h] = "start" /\ client' = [client EXCEPT ![h] = argClient]
      /\ raced' = (raced \/ sockAt[argClient] # accepted[h])
      /\ hpc' = [hpc EXCEPT ![h] = "recvId"]
      /\ UNCHANGED <<link, sent, got, mpc, conn_counter, argClient, fresh, allocated, sockAt,
                     pending, piece, stream, readers, accepted>>
    BY DEF IInv, StartHandler, wire, main, heap
<1>2. /\ hpc \in [Handlers -> Places] /\ client \in [Handlers -> Addrs \cup {NULL}]
      /\ argClient \in Addrs /\ pending[h] = NULL /\ h <= conn_counter
    BY <1>1, ConnmgrAssumption DEF Typed, Control, Handlers, ConnmgrAssumption
<1>3. /\ hpc' \in [Handlers -> Places] /\ client' \in [Handlers -> Addrs \cup {NULL}]
      /\ hpc'[h] = "recvId" /\ client'[h] = argClient
      /\ \A g \in Handlers \ {h} : hpc'[g] = hpc[g] /\ client'[g] = client[g]
    BY <1>1, <1>2 DEF Places, Active, Recvs
<1>4. Typed'
    BY <1>1, <1>3 DEF Typed
<1>5. Control'
    BY <1>1, <1>2, <1>3 DEF Control
<1>6. EosLast'
    <2>1. ~AllEnded
        BY <1>1 DEF AllEnded
    <2> QED
        BY <1>1, <2>1 DEF EosLast
<1>7. AcceptedOnce' /\ MemoryOwned'
    BY <1>1 DEF AcceptedOnce, MemoryOwned
<1>8. ~raced' => ~raced /\ sockAt[argClient] = accepted[h]
    BY <1>1
<1>9. OwnConnection'
    BY <1>1, <1>2, <1>3, <1>8 DEF OwnConnection
<1>10. ReadersOwn'
    BY <1>1, <1>8 DEF ReadersOwn
<1> QED
    BY <1>4, <1>5, <1>6, <1>7, <1>9, <1>10 DEF IInv

(* What a handler's receive is about is a connection or nothing, and its   *)
(* own connection if it started in time.                                   *)
LEMMA ConnType ==
    ASSUME IInv, NEW h \in Handlers, hpc[h] \in Recvs
    PROVE  /\ Conn(h) \in Sensors \cup {NULL}
           /\ client[h] \in Addrs /\ h \in 1..Len(accepted) /\ accepted[h] \in Sensors
           /\ ~raced => Conn(h) = accepted[h]
<1>1. /\ client[h] \in Addrs /\ h \in 1..Len(accepted) /\ accepted[h] \in Sensors
    BY ConnmgrAssumption DEF IInv, Typed, Control, Active, Recvs, Handlers, ConnmgrAssumption
<1>2. Conn(h) \in Sensors \cup {NULL}
    BY <1>1 DEF IInv, Typed, Conn
<1>3. ~raced => Conn(h) = accepted[h]
    BY DEF IInv, OwnConnection, Active, Conn
<1> QED
    BY <1>1, <1>2, <1>3

(* A recv with nothing to return blocks on the handler's connection.       *)
LEMMA BlockRecvInv ==
    ASSUME IInv, NEW h \in Handlers, BlockRecv(h)
    PROVE  IInv'
<1>1. /\ Typed /\ Control /\ EosLast /\ AcceptedOnce /\ MemoryOwned /\ OwnConnection
      /\ ReadersOwn
      /\ hpc[h] \in Recvs /\ pending' = [pending EXCEPT ![h] = Conn(h)]
      /\ UNCHANGED <<link, sent, got, mpc, conn_counter, argClient, fresh, allocated, sockAt,
                     hpc, client, piece, stream, readers, accepted, raced>>
    BY DEF IInv, BlockRecv, Recvs, wire, main, heap, race
<1>2. /\ pending \in [Handlers -> Sensors \cup {NULL}] /\ Conn(h) \in Sensors \cup {NULL}
      /\ ~raced => Conn(h) = accepted[h]
    BY <1>1, ConnType DEF Typed
<1>3. /\ pending' \in [Handlers -> Sensors \cup {NULL}] /\ pending'[h] = Conn(h)
      /\ \A g \in Handlers \ {h} : pending'[g] = pending[g]
    BY <1>1, <1>2
<1>4. Typed'
    BY <1>1, <1>3 DEF Typed
<1>5. Control'
    BY <1>1, <1>3 DEF Control, Recvs
<1>6. OwnConnection'
    BY <1>1, <1>2, <1>3 DEF OwnConnection
<1>7. EosLast' /\ AcceptedOnce' /\ MemoryOwned' /\ ReadersOwn'
    BY <1>1 DEF EosLast, AllEnded, AcceptedOnce, MemoryOwned, ReadersOwn
<1> QED
    BY <1>4, <1>5, <1>6, <1>7 DEF IInv

(* What a receive may return.                                              *)
LEMMA OutcomeType ==
    ASSUME IInv, NEW h \in Handlers, hpc[h] \in Recvs, NEW len \in Nat,
           NEW o \in ReceiveOutcomes(h, len)
    PROVE  /\ o.n \in Nat /\ o.p \in Nat
           /\ o.res = "sockopError" => Conn(h) \in Sensors /\ link[Conn(h)] = "reset"
           /\ o.res = "ok" => Conn(h) \in Sensors
<1>1. Conn(h) \in Sensors \cup {NULL}
    BY ConnType
<1>2. CASE Conn(h) = NULL
    BY <1>2 DEF ReceiveOutcomes, Outcome
<1>3. CASE Conn(h) \in Sensors
    <2> DEFINE c == Conn(h)
    <2>1. c # NULL /\ sent[c] \in Nat /\ got[c] \in Nat /\ c \in Sensors
        BY <1>3, ConnmgrAssumption DEF IInv, Typed, ConnmgrAssumption
    <2>2. CASE sent[c] - got[c] > 0
        BY <2>1, <2>2 DEF ReceiveOutcomes, Outcome
    <2>3. CASE ~(sent[c] - got[c] > 0)
        BY <2>1, <2>3 DEF ReceiveOutcomes, Outcome
    <2> QED
        BY <2>2, <2>3
<1> QED
    BY <1>1, <1>2, <1>3

(* Every receive concerns the handler's own connection and fields.         *)
LEMMA ReceivedInv ==
    ASSUME IInv, NEW h \in Handlers, hpc[h] \in Recvs, NEW len \in Nat,
           NEW o \in ReceiveOutcomes(h, len), Received(h, o),
           NEW q \in Active, hpc' = [hpc EXCEPT ![h] = q],
           piece' \in [Handlers -> Whole],
           UNCHANGED <<main, client, heap, stream, race>>
    PROVE  IInv'
<1> DEFINE c == Conn(h)
<1>1. /\ Typed /\ Control /\ EosLast /\ AcceptedOnce /\ MemoryOwned /\ OwnConnection
      /\ ReadersOwn
      /\ UNCHANGED <<mpc, conn_counter, argClient, fresh, allocated, client, sockAt, stream,
                     accepted, raced>>
      /\ pending' = [pending EXCEPT ![h] = NULL] /\ UNCHANGED sent
    BY DEF IInv, Received, main, heap, race, wire
<1>2. /\ hpc \in [Handlers -> Places] /\ pending \in [Handlers -> Sensors \cup {NULL}]
      /\ link \in [Sensors -> Links] /\ got \in [Sensors -> Nat]
      /\ readers \in [Sensors -> SUBSET Handlers]
    BY <1>1 DEF Typed
<1>3. /\ c \in Sensors \cup {NULL} /\ client[h] \in Addrs /\ h \in 1..Len(accepted)
      /\ ~raced => c = accepted[h]
    BY ConnType
<1>4. o.n \in Nat /\ (o.res = "sockopError" => c \in Sensors /\ link[c] = "reset")
    BY OutcomeType
<1>5. /\ hpc' \in [Handlers -> Places] /\ pending' \in [Handlers -> Sensors \cup {NULL}]
      /\ hpc'[h] = q /\ pending'[h] = NULL
      /\ \A g \in Handlers \ {h} : hpc'[g] = hpc[g] /\ pending'[g] = pending[g]
    BY <1>1, <1>2 DEF Places
<1> HIDE DEF c
<1>6. /\ link' \in [Sensors -> Links] /\ got' \in [Sensors -> Nat]
      /\ readers' \in [Sensors -> SUBSET Handlers]
      /\ \A d \in Sensors : readers'[d] = readers[d] \/ (d = c /\ readers'[d] = readers[d] \cup {h})
    <2>1. CASE c = NULL
        BY <1>2, <2>1 DEF Received, c, wire
    <2>2. CASE c \in Sensors
        <3>1. /\ got' = [got EXCEPT ![c] = @ + o.n]
              /\ link' = [link EXCEPT ![c] = IF o.res = "sockopError" THEN "reported" ELSE @]
              /\ readers' = [readers EXCEPT ![c] = @ \cup {h}]
            BY <2>2, ConnmgrAssumption DEF Received, c, ConnmgrAssumption
        <3>2. link' \in [Sensors -> Links]
            BY <1>2, <2>2, <3>1 DEF Links, Gone
        <3> QED
            BY <1>2, <1>4, <2>2, <3>1, <3>2
    <2> QED
        BY <1>3, <2>1, <2>2
<1>7. Typed'
    BY <1>1, <1>5, <1>6 DEF Typed
<1>8. Control'
    BY <1>1, <1>3, <1>5 DEF Control, Active, Recvs
<1>9. EosLast'
    <2>1. ~AllEnded
        BY DEF AllEnded, Recvs
    <2> QED
        BY <1>1, <2>1 DEF EosLast
<1>10. AcceptedOnce' /\ MemoryOwned'
    BY <1>1 DEF AcceptedOnce, MemoryOwned
<1>11. OwnConnection'
    BY <1>1, <1>5 DEF OwnConnection, Active
<1>12. ReadersOwn'
    BY <1>1, <1>3, <1>6 DEF ReadersOwn
<1> QED
    BY <1>7, <1>8, <1>9, <1>10, <1>11, <1>12 DEF IInv

(* The three receives of a record.                                         *)
LEMMA RecvInv ==
    ASSUME IInv, NEW h \in Handlers, RecvId(h) \/ RecvValue(h) \/ RecvTs(h)
    PROVE  IInv'
<1>1. piece \in [Handlers -> Whole] /\ Torn \in Whole
    BY DEF IInv, Typed, Whole
<1>2. CASE RecvId(h)
    <2>1. PICK o \in ReceiveOutcomes(h, IdLen) :
            /\ Received(h, o)
            /\ piece' = [piece EXCEPT ![h] =
                IF o.res = "ok" /\ o.n = IdLen /\ o.p % RecLen = 0
                THEN <<Conn(h), o.p>> ELSE Torn]
        BY <1>2 DEF RecvId
    <2>2. /\ hpc[h] \in Recvs /\ "recvValue" \in Active /\ hpc' = [hpc EXCEPT ![h] = "recvValue"]
          /\ UNCHANGED <<main, client, heap, stream, race>> /\ IdLen \in Nat
        BY <1>2, ConnmgrAssumption DEF RecvId, Recvs, Active, ConnmgrAssumption
    <2>3. o.p \in Nat /\ (o.res = "ok" => Conn(h) \in Sensors)
        BY <2>2, OutcomeType
    <2>4. piece' \in [Handlers -> Whole]
        BY <1>1, <2>1, <2>3 DEF Whole
    <2> QED
        BY <2>1, <2>2, <2>4, ReceivedInv
<1>3. CASE RecvValue(h)
    <2>1. PICK o \in ReceiveOutcomes(h, ValLen) :
            /\ Received(h, o)
            /\ piece' = [piece EXCEPT ![h] =
                IF Continues(h, o, ValLen, IdLen) THEN @ ELSE Torn]
        BY <1>3 DEF RecvValue
    <2>2. /\ hpc[h] \in Recvs /\ "recvTs" \in Active /\ hpc' = [hpc EXCEPT ![h] = "recvTs"]
          /\ UNCHANGED <<main, client, heap, stream, race>> /\ ValLen \in Nat
        BY <1>3, ConnmgrAssumption DEF RecvValue, Recvs, Active, ConnmgrAssumption
    <2>3. piece' \in [Handlers -> Whole]
        BY <1>1, <2>1
    <2> QED
        BY <2>1, <2>2, <2>3, ReceivedInv
<1>4. CASE RecvTs(h)
    <2>1. PICK o \in ReceiveOutcomes(h, TsLen) :
            /\ Received(h, o)
            /\ piece' = [piece EXCEPT ![h] =
                IF Continues(h, o, TsLen, IdLen + ValLen) THEN @ ELSE Torn]
            /\ hpc' = [hpc EXCEPT ![h] = AfterTs(o)]
        BY <1>4 DEF RecvTs
    <2>2. /\ hpc[h] \in Recvs /\ AfterTs(o) \in Active
          /\ UNCHANGED <<main, client, heap, stream, race>> /\ TsLen \in Nat
        BY <1>4, ConnmgrAssumption DEF RecvTs, AfterTs, Recvs, Active, ConnmgrAssumption
    <2>3. piece' \in [Handlers -> Whole]
        BY <1>1, <2>1
    <2> QED
        BY <2>1, <2>2, <2>3, ReceivedInv
<1> QED
    BY <1>2, <1>3, <1>4

(* What a handler inserts is not the end-of-stream reading.                *)
LEMMA InsertReadingInv ==
    ASSUME IInv, NEW h \in Handlers, InsertReading(h)
    PROVE  IInv'
<1>1. /\ Typed /\ Control /\ EosLast /\ AcceptedOnce /\ MemoryOwned /\ OwnConnection
      /\ ReadersOwn
      /\ hpc[h] = "insert" /\ hpc' = [hpc EXCEPT ![h] = "recvId"]
      /\ stream' = Append(stream, piece[h]) \/ UNCHANGED stream
      /\ UNCHANGED <<link, sent, got, mpc, conn_counter, argClient, fresh, allocated, sockAt,
                     client, pending, piece, readers, accepted, raced>>
    BY DEF IInv, InsertReading, Inserted, wire, main, heap, race
<1>2. /\ hpc \in [Handlers -> Places] /\ piece[h] \in Whole /\ piece[h] # EOS
      /\ stream \in Seq(Whole \cup {EOS})
    BY <1>1, ConnmgrAssumption DEF Typed, Whole, ConnmgrAssumption
<1>3. /\ hpc' \in [Handlers -> Places] /\ hpc'[h] = "recvId"
      /\ \A g \in Handlers \ {h} : hpc'[g] = hpc[g]
    BY <1>1, <1>2 DEF Places, Active, Recvs
<1>4. mpc \notin {"eos", "done"}
    BY <1>1 DEF EosLast, AllEnded
<1>5. stream' \in Seq(Whole \cup {EOS}) /\ \A i \in 1..Len(stream') : stream'[i] # EOS
    <2>1. \A i \in 1..Len(stream) : stream[i] # EOS
        BY <1>1, <1>4 DEF EosLast
    <2>2. CASE UNCHANGED stream
        BY <1>2, <2>1, <2>2
    <2>3. CASE stream' = Append(stream, piece[h])
        <3>1. piece[h] \in Whole \cup {EOS}
            BY <1>2
        <3>2. stream' \in Seq(Whole \cup {EOS}) /\ Len(stream') = Len(stream) + 1
            BY <1>2, <2>3, <3>1
        <3>3. /\ \A i \in 1..Len(stream) : stream'[i] = stream[i]
              /\ stream'[Len(stream) + 1] = piece[h]
            BY <1>2, <2>3, <3>1
        <3>4. \A i \in 1..Len(stream') : i \in 1..Len(stream) \/ i = Len(stream) + 1
            BY <1>2, <3>2
        <3> QED
            BY <1>2, <2>1, <3>2, <3>3, <3>4
    <2> QED
        BY <1>1, <2>2, <2>3
<1>6. Typed'
    BY <1>1, <1>3, <1>5 DEF Typed
<1>7. Control' /\ OwnConnection'
    BY <1>1, <1>3 DEF Control, OwnConnection, Active, Recvs
<1>8. EosLast'
    BY <1>1, <1>4, <1>5 DEF EosLast
<1>9. AcceptedOnce' /\ MemoryOwned' /\ ReadersOwn'
    BY <1>1 DEF AcceptedOnce, MemoryOwned, ReadersOwn
<1> QED
    BY <1>6, <1>7, <1>8, <1>9 DEF IInv

(* A handler that started in time frees no one else's memory.              *)
LEMMA CloseClientInv ==
    ASSUME IInv, NEW h \in Handlers, CloseClient(h)
    PROVE  IInv'
<1> DEFINE b == client[h]
<1>1. /\ Typed /\ Control /\ EosLast /\ AcceptedOnce /\ MemoryOwned /\ OwnConnection
      /\ ReadersOwn
      /\ hpc[h] = "close" /\ hpc' = [hpc EXCEPT ![h] = "ended"]
      /\ UNCHANGED <<sent, got, mpc, conn_counter, argClient, fresh, client, pending, piece,
                     stream, readers, accepted, raced>>
      /\ sockAt' = [sockAt EXCEPT ![b] = NULL] /\ allocated' = allocated \ {b}
      /\ link' = [c \in Sensors |-> IF c = sockAt[b] THEN "shut" ELSE link[c]]
    BY DEF IInv, CloseClient, main, race
<1>2. /\ hpc \in [Handlers -> Places] /\ b \in Addrs /\ allocated \subseteq Addrs
      /\ sockAt \in [Addrs -> Sensors \cup {NULL}] /\ link \in [Sensors -> Links]
    BY <1>1 DEF Typed, Control, Active
<1>3. /\ hpc' \in [Handlers -> Places] /\ hpc'[h] = "ended"
      /\ \A g \in Handlers \ {h} : hpc'[g] = hpc[g]
    BY <1>1, <1>2 DEF Places
<1>4. /\ sockAt' \in [Addrs -> Sensors \cup {NULL}] /\ link' \in [Sensors -> Links]
      /\ sockAt'[b] = NULL /\ \A a \in Addrs \ {b} : sockAt'[a] = sockAt[a]
    BY <1>1, <1>2 DEF Links, Gone
<1>5. Typed'
    BY <1>1, <1>3, <1>4 DEF Typed
<1>6. Control'
    BY <1>1, <1>3 DEF Control, Active, Recvs
<1>7. EosLast'
    <2>1. ~AllEnded
        BY <1>1 DEF AllEnded
    <2> QED
        BY <1>1, <2>1 DEF EosLast
<1>8. AcceptedOnce' /\ MemoryOwned'
    <2>1. ~raced => b # fresh
        <3>1. ~raced => sockAt[b] = accepted[h] /\ sockAt[b] # NULL
            BY <1>1, ConnmgrAssumption
               DEF OwnConnection, Active, Typed, Control, Handlers, ConnmgrAssumption
        <3> QED
            BY <1>1, <1>2, <3>1 DEF MemoryOwned
    <2> QED
        BY <1>1, <1>2, <1>4, <2>1 DEF AcceptedOnce, MemoryOwned
<1>9. OwnConnection'
    <2> SUFFICES ASSUME ~raced, NEW g \in Handlers, hpc'[g] \in Active
                 PROVE  sockAt'[client[g]] = accepted[g] /\ pending[g] \in {NULL, accepted[g]}
        BY <1>1 DEF OwnConnection
    <2>1. g # h /\ hpc[g] \in Active
        BY <1>3 DEF Active, Recvs
    <2>2. /\ sockAt[client[g]] = accepted[g] /\ pending[g] \in {NULL, accepted[g]}
          /\ sockAt[client[h]] = accepted[h]
        BY <1>1, <2>1 DEF OwnConnection, Active
    <2>3. g \in 1..Len(accepted) /\ h \in 1..Len(accepted) /\ client[g] \in Addrs
        BY <1>1, <2>1 DEF Typed, Control, Active, Recvs, Handlers
    <2>4. client[g] # client[h]
        BY <1>1, <2>1, <2>2, <2>3 DEF AcceptedOnce
    <2> QED
        BY <1>4, <2>2, <2>3, <2>4
<1>10. ReadersOwn'
    BY <1>1 DEF ReadersOwn
<1> QED
    BY <1>5, <1>6, <1>7, <1>8, <1>9, <1>10 DEF IInv

(* Every step keeps the invariant.                                         *)
LEMMA NextInv == IInv /\ [Next]_vars => IInv'
<1> SUFFICES ASSUME IInv, [Next]_vars PROVE IInv'
    OBVIOUS
<1>1. CASE MainStep \/ AcceptFail
    BY <1>1, MakeSocketInv, AcceptInv, EndInv DEF MainStep
<1>2. CASE \E h \in Handlers : HandlerStep(h)
    BY <1>2, StartHandlerInv, BlockRecvInv, RecvInv, InsertReadingInv, CloseClientInv
       DEF HandlerStep
<1>3. CASE Environment
    BY <1>3, EnvironmentInv DEF Environment
<1>4. CASE UNCHANGED vars
    BY <1>4 DEF vars, wire, main, handler, heap, race, IInv, Typed, Control, EosLast,
        AllEnded, AcceptedOnce, MemoryOwned, OwnConnection, ReadersOwn
<1> QED
    BY <1>1, <1>2, <1>3, <1>4 DEF Next

(* The invariant holds throughout.                                         *)
THEOREM Inductive == Safety => []IInv
    BY InitInv, NextInv, PTL DEF Safety

(* Nothing is inserted behind the end-of-stream reading, whatever the      *)
(* handlers share.                                                         *)
THEOREM EosCorrect == Safety => []EosEndsStream
<1>1. IInv => EosEndsStream
    BY DEF IInv, Typed, EosLast, EosEndsStream, AllEnded
<1> QED
    BY <1>1, Inductive, PTL

(* A handler that copied its argument in time holds living memory with its *)
(* own connection in it until it closes it, however often addresses are    *)
(* reused.                                                                 *)
THEOREM SocketsCorrect == Safety => []SocketsStayAlive
<1>1. ASSUME IInv, ~raced, NEW h \in Handlers, hpc[h] \in Active
      PROVE  client[h] \in allocated /\ sockAt[client[h]] = accepted[h]
    <2>1. /\ client[h] \in Addrs /\ sockAt[client[h]] = accepted[h]
          /\ sockAt[client[h]] # NULL
        BY <1>1, ConnmgrAssumption DEF IInv, OwnConnection, Typed, Control, Active, Recvs,
            Handlers, ConnmgrAssumption
    <2> QED
        BY <1>1, <2>1 DEF IInv, MemoryOwned
<1>2. IInv => SocketsStayAlive
    BY <1>1 DEF SocketsStayAlive, Active, Recvs
<1> QED
    BY <1>2, Inductive, PTL

(* A timely copy of the argument is enough: each connection is then read   *)
(* by one handler only, however often socket addresses are reused.         *)
THEOREM TimelyStartsCorrect == Safety => []TimelyStartsSuffice
<1>1. ASSUME IInv, ~raced, NEW c \in Sensors
      PROVE  ~Shared(c)
    <2>1. \A g, h \in readers[c] : g = h
        BY <1>1 DEF IInv, ReadersOwn, AcceptedOnce
    <2>2. readers[c] = {} \/ \E h : readers[c] = {h}
        BY <2>1
    <2>3. Cardinality({}) = 0 /\ \A h : Cardinality({h}) = 1
        BY FS_EmptySet, FS_Singleton
    <2>4. Cardinality(readers[c]) \in {0, 1}
        BY <2>2, <2>3
    <2> QED
        BY <2>4 DEF Shared
<1>2. IInv => TimelyStartsSuffice
    BY <1>1 DEF TimelyStartsSuffice, ThreadPerClient
<1> QED
    BY <1>2, Inductive, PTL
-----------------------------------------------------------------------------
(* Where the records lie.                                                  *)

(* Unit p lies r units behind the beginning of a record.                   *)
At(p, r) == \E k \in Nat : p = k * RecLen + r

(* A field begins at unit p.                                               *)
Boundary(p) == At(p, 0) \/ At(p, IdLen) \/ At(p, IdLen + ValLen)

(* The fields have sizes, of which a record is the sum.                    *)
LEMMA Sizes ==
    /\ IdLen \in Nat \ {0} /\ ValLen \in Nat \ {0} /\ TsLen \in Nat \ {0}
    /\ RecLen \in Nat \ {0} /\ RecLen = IdLen + ValLen + TsLen
    /\ MaxRecords \in Nat /\ MaxUnits \in Nat /\ MaxUnits = MaxRecords * RecLen
<1>1. /\ IdLen \in Nat \ {0} /\ ValLen \in Nat \ {0} /\ TsLen \in Nat \ {0}
      /\ MaxRecords \in Nat
    BY ConnmgrAssumption DEF ConnmgrAssumption
<1>2. RecLen \in Nat \ {0} /\ RecLen = IdLen + ValLen + TsLen
    BY <1>1 DEF RecLen
<1> QED
    BY <1>1, <1>2 DEF MaxUnits

LEMMA Remainder ==
    ASSUME NEW L \in Nat \ {0}, NEW k \in Nat, NEW r \in 0..L - 1
    PROVE  (k * L + r) % L = r
OBVIOUS

LEMMA ProductMonotonic ==
    ASSUME NEW L \in Nat, NEW a \in Nat, NEW b \in Nat, a <= b
    PROVE  a * L <= b * L
OBVIOUS

(* The field at a unit follows from the place in the record.               *)
LEMMA FieldAt ==
    ASSUME NEW p \in Nat
    PROVE  /\ At(p, 0) => FieldLen(p) = IdLen /\ p % RecLen = 0
           /\ At(p, IdLen) => FieldLen(p) = ValLen
           /\ At(p, IdLen + ValLen) => FieldLen(p) = TsLen
<1>1. ASSUME NEW r \in 0..RecLen - 1, At(p, r) PROVE p % RecLen = r
    BY <1>1, Sizes, Remainder DEF At
<1>2. /\ 0 \in 0..RecLen - 1 /\ IdLen \in 0..RecLen - 1
      /\ IdLen + ValLen \in 0..RecLen - 1
      /\ IdLen # 0 /\ IdLen + ValLen # 0 /\ IdLen + ValLen # IdLen
    BY Sizes
<1> QED
    BY <1>1, <1>2 DEF FieldLen

(* Behind a field another one begins.                                      *)
LEMMA NextField ==
    ASSUME NEW p \in Nat
    PROVE  /\ At(p, 0) => At(p + FieldLen(p), IdLen)
           /\ At(p, IdLen) => At(p + FieldLen(p), IdLen + ValLen)
           /\ At(p, IdLen + ValLen) => At(p + FieldLen(p), 0)
<1>1. ASSUME NEW k \in Nat
      PROVE  (k + 1) * RecLen = k * RecLen + RecLen /\ k * RecLen \in Nat
    BY Sizes
<1>2. ASSUME At(p, 0) PROVE At(p + FieldLen(p), IdLen)
    <2>1. PICK k \in Nat : p = k * RecLen + 0
        BY <1>2 DEF At
    <2>2. p + FieldLen(p) = k * RecLen + IdLen
        BY <1>1, <1>2, <2>1, FieldAt, Sizes
    <2> QED
        BY <2>2 DEF At
<1>3. ASSUME At(p, IdLen) PROVE At(p + FieldLen(p), IdLen + ValLen)
    <2>1. PICK k \in Nat : p = k * RecLen + IdLen
        BY <1>3 DEF At
    <2>2. p + FieldLen(p) = k * RecLen + (IdLen + ValLen)
        BY <1>1, <1>3, <2>1, FieldAt, Sizes
    <2> QED
        BY <2>2 DEF At
<1>4. ASSUME At(p, IdLen + ValLen) PROVE At(p + FieldLen(p), 0)
    <2>1. PICK k \in Nat : p = k * RecLen + (IdLen + ValLen)
        BY <1>4 DEF At
    <2>2. p + FieldLen(p) = (k + 1) * RecLen + 0 /\ k + 1 \in Nat
        BY <1>1, <1>4, <2>1, FieldAt, Sizes
    <2> QED
        BY <2>2 DEF At
<1> QED
    BY <1>2, <1>3, <1>4

(* No field begins inside another.                                         *)
LEMMA WholeFields ==
    ASSUME NEW p \in Nat, NEW q \in Nat, Boundary(p), Boundary(q), p < q
    PROVE  p + FieldLen(p) <= q
<1> DEFINE R == {0, IdLen, IdLen + ValLen}
<1>1. PICK k \in Nat, r \in R : p = k * RecLen + r
    BY DEF Boundary, At
<1>2. PICK l \in Nat, s \in R : q = l * RecLen + s
    BY DEF Boundary, At
<1>3. /\ r = 0 => FieldLen(p) = IdLen
      /\ r = IdLen => FieldLen(p) = ValLen
      /\ r = IdLen + ValLen => FieldLen(p) = TsLen
    BY <1>1, FieldAt DEF At
<1>4. /\ k * RecLen \in Nat /\ l * RecLen \in Nat /\ r \in Nat /\ s \in Nat
      /\ (k + 1) * RecLen = k * RecLen + RecLen /\ (l + 1) * RecLen = l * RecLen + RecLen
    BY Sizes
<1>5. CASE k = l
    BY <1>1, <1>2, <1>3, <1>4, <1>5, Sizes
<1>6. CASE k + 1 <= l
    <2>1. (k + 1) * RecLen <= l * RecLen
        BY <1>6, ProductMonotonic, Sizes
    <2> QED
        BY <1>1, <1>2, <1>3, <1>4, <2>1, Sizes
<1>7. CASE l + 1 <= k
    <2>1. (l + 1) * RecLen <= k * RecLen
        BY <1>7, ProductMonotonic, Sizes
    <2> QED
        BY <1>1, <1>2, <1>4, <2>1, Sizes
<1> QED
    BY <1>5, <1>6, <1>7

-----------------------------------------------------------------------------
(* The types.                                                              *)

(* The sensors send whole fields, which a reset leaves whole if they also  *)
(* arrive whole; the gateway receives what was sent.                       *)
Units ==
    \A c \in Sensors :
        /\ sent[c] \in 0..MaxUnits /\ got[c] <= sent[c]
        /\ ~PartialDelivery \/ link[c] \in {"none", "open"} => Boundary(sent[c])

(* What Typed leaves out.                                                  *)
Bounded ==
    /\ piece \in [Handlers -> Readings]
    /\ closeLogged \in [Handlers -> Sensors \cup {NULL}]
    /\ stream \in Seq(Readings \cup {EOS})
    /\ lost \in [Sensors -> Nat]
    /\ raced \in BOOLEAN /\ running \in BOOLEAN

TInv == IInv /\ Units /\ Bounded

(* What a receive may return, and that it is there to be received.         *)
Ended(c) == link[c] \in Gone /\ got[c] = sent[c]

LEMMA Outcomes ==
    ASSUME TInv, NEW h \in Handlers, hpc[h] \in Recvs, NEW len \in Nat \ {0},
           NEW o \in ReceiveOutcomes(h, len)
    PROVE  \/ Conn(h) = NULL /\ o.res = "socketError" /\ o.n = 0 /\ o.p = 0
           \/ /\ Conn(h) \in Sensors /\ o.res \in {"closed", "sockopError"}
              /\ o.n = 0 /\ o.p = 0 /\ Ended(Conn(h))
           \/ /\ Conn(h) \in Sensors /\ o.res = "ok" /\ o.p = got[Conn(h)]
              /\ o.n \in 1..(sent[Conn(h)] - got[Conn(h)]) /\ o.n <= len
              /\ ~PartialDelivery => o.n = len \/ o.n = sent[Conn(h)] - got[Conn(h)]
<1>1. Conn(h) \in Sensors \cup {NULL}
    BY ConnType DEF TInv
<1>2. CASE Conn(h) = NULL
    BY <1>2 DEF ReceiveOutcomes, Outcome
<1>3. CASE Conn(h) \in Sensors
    <2> DEFINE c == Conn(h)
               most == IF len < sent[c] - got[c] THEN len ELSE sent[c] - got[c]
    <2>1. /\ c # NULL /\ sent[c] \in Nat /\ got[c] \in Nat /\ c \in Sensors
          /\ got[c] <= sent[c] /\ link[c] \in Links
        BY <1>3, ConnmgrAssumption DEF TInv, IInv, Typed, Units, ConnmgrAssumption
    <2>2. CASE sent[c] - got[c] > 0
        <3>1. o \in {Outcome("ok", n, got[c]) :
                        n \in IF PartialDelivery THEN 1..most ELSE {most}}
            BY <2>1, <2>2 DEF ReceiveOutcomes
        <3>2. PICK n \in IF PartialDelivery THEN 1..most ELSE {most} : o = Outcome("ok", n, got[c])
            BY <3>1
        <3>3. o.res = "ok" /\ o.n = n /\ o.p = got[c]
            BY <3>2 DEF Outcome
        <3>4. /\ most \in 1..(sent[c] - got[c]) /\ most <= len
              /\ most = len \/ most = sent[c] - got[c]
            BY <2>1, <2>2
        <3>5. n \in 1..most /\ (~PartialDelivery => n = most)
            BY <3>2, <3>4
        <3>6. n \in 1..(sent[c] - got[c]) /\ n <= len
            BY <2>1, <3>4, <3>5
        <3> QED
            BY <1>3, <3>3, <3>4, <3>5, <3>6
    <2>3. CASE ~(sent[c] - got[c] > 0)
        <3>1. got[c] = sent[c]
            BY <2>1, <2>3
        <3> QED
            BY <1>3, <2>1, <2>3, <3>1 DEF ReceiveOutcomes, Outcome, Ended, Gone
    <2> QED
        BY <2>2, <2>3
<1> QED
    BY <1>1, <1>2, <1>3

(* Nothing that Units and Bounded speak of moves.                          *)
LEMMA BoundsKept ==
    ASSUME Units, Bounded,
           UNCHANGED <<sent, got, piece, closeLogged, stream, lost, raced>>,
           \A c \in Sensors : link'[c] = link[c] \/ link[c] = "none" \/ link'[c] \in Gone,
           running' \in BOOLEAN
    PROVE  Units' /\ Bounded'
<1>1. \A c \in Sensors : link[c] = "none" \/ link'[c] = link[c] \/ link'[c] \notin {"none", "open"}
    BY DEF Gone
<1>2. \A c \in Sensors : Boundary(sent[c]) => Boundary(sent[c])'
    BY DEF Boundary, At
<1> QED
    BY <1>1, <1>2 DEF Units, Bounded

(* The effect of a receive on the units.                                   *)
LEMMA ReceivedUnits ==
    ASSUME TInv, NEW h \in Handlers, hpc[h] \in Recvs, NEW len \in Nat \ {0},
           NEW o \in ReceiveOutcomes(h, len), Received(h, o)
    PROVE  /\ Units' /\ UNCHANGED sent
           /\ \A d \in Sensors : got'[d] = IF d = Conn(h) THEN got[d] + o.n ELSE got[d]
           /\ \A d \in Sensors : link'[d] = link[d] \/ (Ended(d) /\ link'[d] = "reported")
<1> DEFINE c == Conn(h)
<1>1. /\ got \in [Sensors -> Nat] /\ sent \in [Sensors -> Nat] /\ link \in [Sensors -> Links]
      /\ NULL \notin Sensors
    BY ConnmgrAssumption DEF TInv, IInv, Typed, ConnmgrAssumption
<1>2. \A d \in Sensors :
        /\ sent[d] \in 0..MaxUnits /\ got[d] <= sent[d]
        /\ ~PartialDelivery \/ link[d] \in {"none", "open"} => Boundary(sent[d])
    BY DEF TInv, Units
<1>3. CASE c = NULL
    <2>1. UNCHANGED <<link, sent, got>>
        BY <1>3 DEF Received, wire
    <2> QED
        BY <1>1, <1>2, <1>3, <2>1 DEF Units
<1>4. CASE c \in Sensors
    <2>1. /\ got' = [got EXCEPT ![c] = @ + o.n] /\ UNCHANGED sent
          /\ link' = [link EXCEPT ![c] = IF o.res = "sockopError" THEN "reported" ELSE @]
        BY <1>1, <1>4 DEF Received
    <2>2. o.n \in 0..(sent[c] - got[c]) /\ (o.res = "sockopError" => Ended(c))
        BY <1>1, <1>2, <1>4, Outcomes
    <2>3. \A d \in Sensors : got'[d] = IF d = c THEN got[d] + o.n ELSE got[d]
        BY <1>1, <2>1
    <2>4. \A d \in Sensors : link'[d] = link[d] \/ (Ended(d) /\ link'[d] = "reported")
        BY <1>1, <1>4, <2>1, <2>2
    <2>5. got'[c] <= sent[c]
        BY <1>1, <1>2, <1>4, <2>2, <2>3
    <2>6. Units'
        <3>1. \A d \in Sensors : link'[d] \in {"none", "open"} => link[d] \in {"none", "open"}
            BY <2>4
        <3> QED
            BY <1>1, <1>2, <2>1, <2>3, <2>5, <3>1 DEF Units, Boundary, At
    <2> QED
        BY <2>1, <2>3, <2>4, <2>6
<1> QED
    BY <1>3, <1>4, Outcomes

(* A sensor sends a field: it ends where another field begins.             *)
LEMMA SendUnits ==
    ASSUME TInv, NEW c \in Sensors, SendField(c)
    PROVE  Units'
<1>1. /\ sent[c] < MaxUnits /\ sent' = [sent EXCEPT ![c] = sent[c] + FieldLen(sent[c])]
      /\ UNCHANGED <<got, link>> /\ link[c] = "open"
    BY DEF SendField
<1>2. /\ sent \in [Sensors -> Nat] /\ got \in [Sensors -> Nat] /\ FieldLen(sent[c]) \in Nat
      /\ \A d \in Sensors : sent[d] \in 0..MaxUnits /\ got[d] <= sent[d]
      /\ \A d \in Sensors :
            ~PartialDelivery \/ link[d] \in {"none", "open"} => Boundary(sent[d])
    BY FieldLenNat DEF TInv, IInv, Typed, Units
<1> DEFINE new == sent[c] + FieldLen(sent[c])
<1>3. Boundary(MaxUnits)
    <2>1. MaxUnits = MaxRecords * RecLen + 0 /\ MaxRecords \in Nat
        BY Sizes
    <2> QED
        BY <2>1 DEF Boundary, At
<1>4. new \in 0..MaxUnits
    BY <1>1, <1>2, <1>3, WholeFields, Sizes
<1>5. Boundary(new)
    BY <1>1, <1>2, NextField DEF Boundary
<1>6. got[c] <= new
    BY <1>2
<1> HIDE DEF new
<1>7. \A d \in Sensors : sent'[d] = IF d = c THEN new ELSE sent[d]
    BY <1>1, <1>2 DEF new
<1> QED
    BY <1>1, <1>2, <1>4, <1>5, <1>6, <1>7 DEF Units, Boundary, At

(* A field ends where its remainder says so.                               *)
LEMMA FieldEndBoundary ==
    ASSUME NEW n \in Nat, FieldEnd(n)
    PROVE  Boundary(n)
<1> DEFINE k == n \div RecLen
           r == n % RecLen
<1>1. k \in Nat /\ n = k * RecLen + r
    <2>1. \A L \in Nat \ {0} : n \div L \in Nat /\ n = (n \div L) * L + (n % L)
        OBVIOUS
    <2> QED
        BY <2>1, Sizes
<1> HIDE DEF k
<1>2. At(n, r)
    BY <1>1 DEF At
<1> QED
    BY <1>2 DEF FieldEnd, Boundary

(* A reset keeps what was received, and a whole number of fields.          *)
LEMMA DisconnectUnits ==
    ASSUME TInv, NEW c \in Sensors, Disconnect(c)
    PROVE  Units'
<1>1. /\ sent \in [Sensors -> Nat] /\ got \in [Sensors -> Nat] /\ link \in [Sensors -> Links]
      /\ \A d \in Sensors : sent[d] \in 0..MaxUnits /\ got[d] <= sent[d]
      /\ \A d \in Sensors :
            ~PartialDelivery \/ link[d] \in {"none", "open"} => Boundary(sent[d])
    BY DEF TInv, IInv, Typed, Units
<1>2. UNCHANGED got /\ link[c] = "open"
    BY DEF Disconnect
<1>3. PICK n \in got[c]..sent[c] :
        /\ sent' = [sent EXCEPT ![c] = n]
        /\ PartialDelivery \/ Boundary(n)
        /\ \E l \in Gone : link' = [link EXCEPT ![c] = l]
    <2>1. "closed" \in Gone /\ "reset" \in Gone
        BY DEF Gone
    <2>2. CASE UNCHANGED sent /\ link' = [link EXCEPT ![c] = "closed"]
        <3>1. /\ sent[c] \in got[c]..sent[c] /\ sent' = [sent EXCEPT ![c] = sent[c]]
              /\ Boundary(sent[c])
            BY <1>1, <1>2, <2>2
        <3> QED
            BY <2>1, <2>2, <3>1
    <2>3. CASE /\ link' = [link EXCEPT ![c] = "reset"]
               /\ \E n \in got[c]..sent[c] :
                    (PartialDelivery \/ FieldEnd(n)) /\ sent' = [sent EXCEPT ![c] = n]
        <3>1. PICK n \in got[c]..sent[c] :
                    (PartialDelivery \/ FieldEnd(n)) /\ sent' = [sent EXCEPT ![c] = n]
            BY <2>3
        <3>2. n \in Nat
            BY <1>1
        <3> QED
            BY <2>1, <2>3, <3>1, <3>2, FieldEndBoundary
    <2> QED
        BY <2>2, <2>3 DEF Disconnect
<1>4. n \in 0..MaxUnits /\ got[c] <= n
    BY <1>1, Sizes
<1>5. \A d \in Sensors :
        /\ sent'[d] = IF d = c THEN n ELSE sent[d]
        /\ d = c => link'[d] \notin {"none", "open"}
        /\ d # c => link'[d] = link[d]
    BY <1>1, <1>3 DEF Gone
<1> QED
    BY <1>1, <1>2, <1>3, <1>4, <1>5 DEF Units, Boundary, At

(* The receives of a handler.                                              *)
LEMMA RecvBounds ==
    ASSUME TInv, NEW h \in Handlers, RecvId(h) \/ RecvValue(h) \/ RecvTs(h)
    PROVE  Units' /\ Bounded'
<1> DEFINE Receives(len, o) ==
        /\ hpc[h] \in Recvs /\ Received(h, o)
        /\ \/ /\ piece' = [piece EXCEPT ![h] =
                    IF o.res = "ok" /\ o.n = IdLen /\ o.p % RecLen = 0
                    THEN <<Conn(h), o.p>> ELSE Torn]
              /\ UNCHANGED closeLogged
           \/ /\ \E r \in Nat : piece' = [piece EXCEPT ![h] =
                    IF Continues(h, o, len, r) THEN @ ELSE Torn]
              /\ \/ UNCHANGED closeLogged
                 \/ closeLogged' = [closeLogged EXCEPT ![h] =
                        IF o.res = "closed" THEN Conn(h) ELSE NULL]
        /\ UNCHANGED <<stream, lost, raced, running>>
<1>0. PICK len \in Nat \ {0} : \E o \in ReceiveOutcomes(h, len) : Receives(len, o)
    <2>1. CASE RecvId(h)
        <3>1. \E o \in ReceiveOutcomes(h, IdLen) : Receives(IdLen, o)
            BY <2>1 DEF RecvId, Recvs, race
        <3> QED
            BY <3>1, Sizes
    <2>2. CASE RecvValue(h)
        <3>1. \E o \in ReceiveOutcomes(h, ValLen) : Receives(ValLen, o)
            BY <2>2, Sizes DEF RecvValue, Recvs, race
        <3> QED
            BY <3>1, Sizes
    <2>3. CASE RecvTs(h)
        <3>1. IdLen + ValLen \in Nat
            BY Sizes
        <3>2. \E o \in ReceiveOutcomes(h, TsLen) : Receives(TsLen, o)
            BY <2>3, <3>1 DEF RecvTs, Recvs, race
        <3> QED
            BY <3>2, Sizes
    <2> QED
        BY <2>1, <2>2, <2>3
<1>1. PICK o \in ReceiveOutcomes(h, len) : Receives(len, o)
    BY <1>0
<1>2. Units'
    BY <1>1, ReceivedUnits
<1>3. /\ piece \in [Handlers -> Readings] /\ Torn \in Readings
      /\ closeLogged \in [Handlers -> Sensors \cup {NULL}]
    BY DEF TInv, Bounded, Readings
<1>4. o.res = "ok" => <<Conn(h), o.p>> \in Readings
    <2>1. ASSUME o.res = "ok"
          PROVE  Conn(h) \in Sensors /\ o.p = got[Conn(h)]
        BY <1>1, <2>1, Outcomes
    <2>2. ASSUME NEW c \in Sensors PROVE got[c] \in 0..MaxUnits
        BY Sizes DEF TInv, IInv, Typed, Units
    <2> QED
        BY <2>1, <2>2 DEF Readings
<1>5. piece' \in [Handlers -> Readings]
    BY <1>1, <1>3, <1>4
<1>6. closeLogged' \in [Handlers -> Sensors \cup {NULL}]
    <2>1. PICK w \in Sensors \cup {NULL} : w = IF o.res = "closed" THEN Conn(h) ELSE NULL
        BY <1>1, ConnType DEF TInv
    <2>2. UNCHANGED closeLogged \/ closeLogged' = [closeLogged EXCEPT ![h] = w]
        BY <1>1, <2>1
    <2> QED
        BY <1>3, <2>2
<1>7. Bounded'
    BY <1>1, <1>5, <1>6 DEF TInv, Bounded
<1> QED
    BY <1>2, <1>7

(* Every step keeps the types and their bounds.                            *)
LEMMA NextTInv == TInv /\ [Next]_vars => TInv'
<1> SUFFICES ASSUME TInv, [Next]_vars PROVE Units' /\ Bounded'
    BY NextInv DEF TInv
<1>0. Units /\ Bounded /\ IInv
    BY DEF TInv
<1>1. CASE Environment
    <2>1. PICK c \in Sensors : Connect(c) \/ SendField(c) \/ Disconnect(c)
        BY <1>1 DEF Environment
    <2>2. CASE SendField(c)
        <3>1. Units'
            BY <2>2, SendUnits
        <3>2. Bounded'
            BY <1>0, <2>2 DEF SendField, Bounded, handler, race
        <3> QED
            BY <3>1, <3>2
    <2>3. CASE Disconnect(c)
        <3>1. Units'
            BY <2>3, DisconnectUnits
        <3>2. Bounded'
            BY <1>0, <2>3 DEF Disconnect, Bounded, handler, race
        <3> QED
            BY <3>1, <3>2
    <2>4. CASE Connect(c)
        <3>1. /\ UNCHANGED <<sent, got, piece, closeLogged, stream, lost, raced, running>>
              /\ running \in BOOLEAN
            BY <1>0, <2>4 DEF Connect, handler, race, Bounded
        <3>2. \A d \in Sensors : link'[d] = link[d] \/ link[d] = "none"
            BY <1>0, <2>4 DEF Connect, IInv, Typed
        <3> QED
            BY <1>0, <3>1, <3>2, BoundsKept
    <2> QED
        BY <2>1, <2>2, <2>3, <2>4
<1>2. CASE MainStep \/ AcceptFail
    <2>1. CASE \/ MakesSocket \/ (\E c \in Sensors : Accept(c))
               \/ JoinAll \/ AcceptFail
        <3>1. /\ UNCHANGED <<link, sent, got, piece, closeLogged, stream, lost, raced>>
              /\ running' \in BOOLEAN
            BY <1>0, <2>1 DEF MakesSocket, MakeSocket, Accept, JoinAll, AcceptFail, handler,
                race, wire, Bounded
        <3> QED
            BY <1>0, <3>1, BoundsKept
    <2>2. CASE AddEos
        <3>1. /\ UNCHANGED <<link, sent, got, piece, closeLogged, lost, raced>>
              /\ running' \in BOOLEAN
              /\ UNCHANGED stream \/ stream' = Append(stream, EOS)
            BY <1>0, <2>2 DEF AddEos, handler, race, wire, Bounded
        <3>2. stream' \in Seq(Readings \cup {EOS})
            <4>1. ASSUME NEW r \in Readings \cup {EOS}
                  PROVE  Append(stream, r) \in Seq(Readings \cup {EOS})
                BY <1>0, AppendProperties DEF Bounded
            <4>2. /\ stream \in Seq(Readings \cup {EOS}) /\ EOS \in Readings \cup {EOS}
                  /\ \A g \in Handlers : piece[g] \in Readings \cup {EOS}
                BY <1>0 DEF Bounded
            <4> QED
                BY <3>1, <4>1, <4>2
        <3> QED
            BY <1>0, <3>1, <3>2 DEF Units, Bounded, Boundary, At
    <2> QED
        BY <1>2, <2>1, <2>2 DEF MainStep, MakesSocket
<1>3. ASSUME NEW h \in Handlers, HandlerStep(h) PROVE Units' /\ Bounded'
    <2>1. CASE StartHandler(h) \/ BlockRecv(h) \/ CloseClient(h)
        <3>1. /\ UNCHANGED <<sent, got, piece, closeLogged, stream, lost>>
              /\ running' \in BOOLEAN /\ raced' \in BOOLEAN
            BY <1>0, <2>1 DEF StartHandler, BlockRecv, CloseClient, race, wire, main, Bounded
        <3>2. \A c \in Sensors : link'[c] \in {"none", "open"} => link[c] \in {"none", "open"}
            BY <2>1 DEF StartHandler, BlockRecv, CloseClient, wire
        <3> QED
            BY <1>0, <3>1, <3>2 DEF Units, Bounded, Boundary, At
    <2>2. CASE InsertReading(h)
        <3>1. /\ UNCHANGED <<link, sent, got, piece, closeLogged, raced, running>>
              /\ \/ stream' = Append(stream, piece[h]) /\ UNCHANGED lost
                 \/ /\ lost' = [c \in Sensors |->
                                    lost[c] + (IF From(piece[h], c) THEN 1 ELSE 0)]
                    /\ UNCHANGED stream
            BY <2>2 DEF InsertReading, Inserted, race, wire
        <3>2. stream' \in Seq(Readings \cup {EOS})
            <4>1. ASSUME NEW r \in Readings \cup {EOS}
                  PROVE  Append(stream, r) \in Seq(Readings \cup {EOS})
                BY <1>0, AppendProperties DEF Bounded
            <4>2. /\ stream \in Seq(Readings \cup {EOS}) /\ EOS \in Readings \cup {EOS}
                  /\ \A g \in Handlers : piece[g] \in Readings \cup {EOS}
                BY <1>0 DEF Bounded
            <4> QED
                BY <3>1, <4>1, <4>2
        <3>3. lost' \in [Sensors -> Nat]
            BY <1>0, <3>1 DEF Bounded
        <3> QED
            BY <1>0, <3>1, <3>2, <3>3 DEF Units, Bounded, Boundary, At
    <2> QED
        BY <1>3, <2>1, <2>2, RecvBounds DEF HandlerStep
<1>4. CASE UNCHANGED vars
    BY <1>0, <1>4, BoundsKept DEF vars, wire, handler, race, Bounded
<1> QED
    BY <1>1, <1>2, <1>3, <1>4 DEF Next

(* The initial states satisfy the invariant.                               *)
LEMMA InitTInv == Init => TInv
<1> SUFFICES ASSUME Init PROVE TInv
    OBVIOUS
<1>1. Units
    <2>1. 0 = 0 * RecLen + 0
        BY Sizes
    <2>2. Boundary(0)
        BY <2>1 DEF Boundary, At
    <2> QED
        BY <2>2, Sizes DEF Init, Units
<1>2. Bounded
    <2>1. << >> \in Seq(Readings \cup {EOS})
        OBVIOUS
    <2>2. Torn \in Readings
        BY DEF Readings
    <2> QED
        BY <2>1, <2>2 DEF Init, Bounded
<1> QED
    BY <1>1, <1>2, InitInv DEF TInv

(* The types and their bounds hold throughout.                             *)
THEOREM TypesInductive == Safety => []TInv
    BY InitTInv, NextTInv, PTL DEF Safety

(* Every variable keeps its type and its bounds, and nothing is received   *)
(* that was not sent, for any sizes of the fields, with whole or partial   *)
(* delivery.                                                               *)
THEOREM TypeCorrect == Safety => []TypeOK
<1>1. TInv => TypeOK
    BY Sizes DEF TInv, IInv, Typed, Units, Bounded, TypeOK, Links, Places, Active, Recvs
<1> QED
    BY <1>1, TypesInductive, PTL

-----------------------------------------------------------------------------
(* The records.                                                            *)

(* Handler h holds the first r units of a record of connection c.          *)
Holds(h, c, r) ==
    \E k \in Nat : piece[h] = <<c, k * RecLen>> /\ got[c] = k * RecLen + r

(* How far handler h is in the record it receives from connection c; once  *)
(* a receive has failed the others fail as well.                           *)
Place(h, c) ==
    /\ hpc[h] = "start" => got[c] = 0
    /\ hpc[h] = "recvId" => At(got[c], 0)
    /\ hpc[h] = "recvValue" => Ended(c) \/ Holds(h, c, IdLen)
    /\ hpc[h] = "recvTs" => Ended(c) \/ Holds(h, c, IdLen + ValLen)
    /\ hpc[h] = "insert" => piece[h] # Torn /\ At(got[c], 0)

Records ==
    /\ \A c \in Sensors : (\A i \in 1..Len(accepted) : accepted[i] # c) => got[c] = 0
    /\ \A h \in 1..Len(accepted) : Place(h, accepted[h])
    /\ EveryReadingWasSent

RInv == TInv /\ (~raced => Records)

(* A step that is not the handler's own leaves it where it is.             *)
LEMMA PlaceKept ==
    ASSUME NEW h, NEW c, Place(h, c),
           hpc'[h] = hpc[h], piece'[h] = piece[h], got'[c] = got[c],
           Ended(c) => Ended(c)'
    PROVE  Place(h, c)'
<1>1. \A r : Holds(h, c, r) => Holds(h, c, r)'
    BY DEF Holds
<1>2. \A r : At(got[c], r) => At(got[c], r)'
    BY DEF At
<1> QED
    BY <1>1, <1>2 DEF Place

(* A connection that has ended stays so.                                   *)
LEMMA EndedStays ==
    ASSUME TInv, [Next]_vars, NEW c \in Sensors, Ended(c), got'[c] = got[c]
    PROVE  Ended(c)'
<1>1. /\ link \in [Sensors -> Links] /\ sent \in [Sensors -> Nat]
      /\ link[c] \in Gone
    BY DEF TInv, IInv, Typed, Ended
<1>2. link'[c] \in Gone /\ sent'[c] = sent[c]
    <2>1. CASE Environment
        <3>1. PICK d \in Sensors : Connect(d) \/ SendField(d) \/ Disconnect(d)
            BY <2>1 DEF Environment
        <3>2. link[d] \in {"none", "open"} /\ d # c
            BY <1>1, <3>1 DEF Connect, SendField, Disconnect, Gone
        <3>3. /\ UNCHANGED link \/ \E l \in Links : link' = [link EXCEPT ![d] = l]
              /\ UNCHANGED sent \/ \E n : sent' = [sent EXCEPT ![d] = n]
            BY <3>1 DEF Connect, SendField, Disconnect, Links, Gone
        <3> QED
            BY <1>1, <3>2, <3>3
    <2>2. CASE MainStep \/ AcceptFail \/ UNCHANGED vars
        BY <1>1, <2>2 DEF MainStep, MakeSocket, Accept, JoinAll, AddEos, AcceptFail, wire, vars
    <2>3. ASSUME NEW h \in Handlers, HandlerStep(h)
          PROVE  link'[c] \in Gone /\ sent'[c] = sent[c]
        <3>1. CASE StartHandler(h) \/ BlockRecv(h) \/ InsertReading(h)
            BY <1>1, <3>1 DEF StartHandler, BlockRecv, InsertReading, wire
        <3>2. CASE CloseClient(h)
            <4>1. /\ UNCHANGED sent
                  /\ link'[c] \in {link[c], "shut"}
                BY <3>2 DEF CloseClient
            <4> QED
                BY <1>1, <4>1 DEF Gone
        <3>3. CASE RecvId(h) \/ RecvValue(h) \/ RecvTs(h)
            <4>1. PICK len \in Nat \ {0} : \E o \in ReceiveOutcomes(h, len) :
                        hpc[h] \in Recvs /\ Received(h, o)
                BY <3>3, Sizes DEF RecvId, RecvValue, RecvTs, Recvs
            <4>2. UNCHANGED sent /\ link'[c] \in {link[c], "reported"}
                BY <4>1, ReceivedUnits
            <4> QED
                BY <1>1, <4>2 DEF Gone
        <3> QED
            BY <2>3, <3>1, <3>2, <3>3 DEF HandlerStep
    <2> QED
        BY <2>1, <2>2, <2>3 DEF Next
<1> QED
    BY <1>1, <1>2 DEF Ended

(* What a receive of a whole field brings a handler that is at the         *)
(* beginning of one: all of it, or the news that there is no more.         *)
LEMMA WholeOutcome ==
    ASSUME TInv, ~PartialDelivery, NEW h \in Handlers, hpc[h] \in Recvs,
           NEW c \in Sensors, Conn(h) = c, Boundary(got[c]),
           NEW o \in ReceiveOutcomes(h, FieldLen(got[c]))
    PROVE  \/ o.res = "ok" /\ o.n = FieldLen(got[c]) /\ o.p = got[c]
           \/ o.res # "ok" /\ o.n = 0 /\ Ended(c)
<1>1. /\ got[c] \in Nat /\ sent[c] \in Nat /\ Boundary(sent[c]) /\ got[c] <= sent[c]
      /\ NULL \notin Sensors
    BY ConnmgrAssumption DEF TInv, IInv, Typed, Units, ConnmgrAssumption
<1>2. FieldLen(got[c]) \in Nat \ {0}
    BY <1>1, FieldAt, Sizes DEF Boundary
<1>3. CASE o.res = "ok"
    <2>1. /\ o.p = got[c] /\ o.n \in 1..(sent[c] - got[c]) /\ o.n <= FieldLen(got[c])
          /\ o.n = FieldLen(got[c]) \/ o.n = sent[c] - got[c]
        BY <1>1, <1>2, <1>3, Outcomes
    <2>2. got[c] < sent[c]
        BY <1>1, <2>1
    <2>3. got[c] + FieldLen(got[c]) <= sent[c]
        BY <1>1, <2>2, WholeFields
    <2> QED
        BY <1>1, <1>2, <1>3, <2>1, <2>3
<1>4. CASE o.res # "ok"
    BY <1>1, <1>2, <1>4, Outcomes
<1> QED
    BY <1>3, <1>4

(* A step in which only handler h and its connection c move.               *)
LEMMA OthersKept ==
    ASSUME TInv, Records, [Next]_vars, NEW h \in 1..Len(accepted),
           UNCHANGED accepted,
           \A g \in 1..Len(accepted) \ {h} : hpc'[g] = hpc[g] /\ piece'[g] = piece[g],
           \A d \in Sensors \ {accepted[h]} : got'[d] = got[d],
           Place(h, accepted[h])', EveryReadingWasSent'
    PROVE  Records'
<1>1. /\ \A g \in 1..Len(accepted) : accepted[g] \in Sensors
      /\ \A g \in 1..Len(accepted) \ {h} : accepted[g] # accepted[h]
    BY DEF TInv, IInv, Typed, AcceptedOnce
<1>2. ASSUME NEW g \in 1..Len(accepted) \ {h} PROVE Place(g, accepted[g])'
    <2>1. /\ accepted[g] \in Sensors /\ Place(g, accepted[g]) /\ accepted'[g] = accepted[g]
          /\ hpc'[g] = hpc[g] /\ piece'[g] = piece[g] /\ got'[accepted[g]] = got[accepted[g]]
        BY <1>1 DEF Records
    <2>2. Ended(accepted[g]) => Ended(accepted[g])'
        BY <2>1, EndedStays
    <2>3. ASSUME NEW c, c = accepted[g] PROVE Place(g, c)'
        BY <2>1, <2>2, <2>3, PlaceKept
    <2> QED
        BY <2>1, <2>3
<1>3. \A g \in 1..Len(accepted') : Place(g, accepted[g])'
    BY <1>2
<1>4. \A d \in Sensors : (\A g \in 1..Len(accepted') : accepted'[g] # d) => got'[d] = 0
    BY DEF Records
<1> QED
    BY <1>3, <1>4 DEF Records

(* The three receives, each at the beginning of its own field.             *)
LEMMA RecvRecords ==
    ASSUME TInv, Records, ~PartialDelivery, ~raced, [Next]_vars,
           NEW h \in Handlers, RecvId(h) \/ RecvValue(h) \/ RecvTs(h)
    PROVE  Records'
<1>0. PICK c : c = accepted[h]
    OBVIOUS
<1>1. hpc[h] \in Recvs
    BY DEF RecvId, RecvValue, RecvTs, Recvs
<1>2. /\ h \in 1..Len(accepted) /\ c \in Sensors /\ Conn(h) = c
      /\ got[c] \in Nat /\ Place(h, c)
      /\ piece \in [Handlers -> Readings] /\ hpc \in [Handlers -> Places]
      /\ \A k \in Nat : <<c, k>> # Torn
    <2>1. h \in 1..Len(accepted) /\ c \in Sensors /\ Conn(h) = c
        BY <1>0, <1>1, ConnType DEF TInv
    <2>2. got[c] \in Nat /\ Place(h, c)
        BY <1>0, <2>1 DEF TInv, IInv, Typed, Records
    <2>3. piece \in [Handlers -> Readings] /\ hpc \in [Handlers -> Places]
        BY DEF TInv, IInv, Typed, Bounded
    <2>4. \A k \in Nat : <<c, k>> # Torn
        BY <2>1, ConnmgrAssumption DEF ConnmgrAssumption
    <2> QED
        BY <2>1, <2>2, <2>3, <2>4
<1>3. UNCHANGED <<accepted, stream>>
    BY DEF RecvId, RecvValue, RecvTs, race
<1>4. ASSUME NEW len \in Nat \ {0}, NEW o \in ReceiveOutcomes(h, len), Received(h, o)
      PROVE  /\ got'[c] = got[c] + o.n
             /\ \A d \in Sensors \ {c} : got'[d] = got[d]
             /\ Ended(c) => o.res # "ok" /\ o.n = 0
    <2>1. \A d \in Sensors : got'[d] = IF d = Conn(h) THEN got[d] + o.n ELSE got[d]
        BY <1>1, <1>4, ReceivedUnits
    <2>2. Ended(c) => o.res # "ok" /\ o.n = 0
        BY <1>1, <1>2, <1>4, Outcomes DEF Ended
    <2> QED
        BY <1>2, <2>1, <2>2
<1>5. ASSUME Place(h, c)', \A d \in Sensors \ {c} : got'[d] = got[d],
             NEW q, hpc' = [hpc EXCEPT ![h] = q], NEW r, piece' = [piece EXCEPT ![h] = r]
      PROVE  Records'
    <2>1. \A g \in 1..Len(accepted) \ {h} : hpc'[g] = hpc[g] /\ piece'[g] = piece[g]
        <3>1. 1..Len(accepted) \subseteq Handlers
            BY ConnmgrAssumption DEF TInv, IInv, Typed, Handlers, ConnmgrAssumption
        <3> QED
            BY <1>2, <1>5, <3>1
    <2>2. EveryReadingWasSent'
        BY <1>3 DEF Records, EveryReadingWasSent
    <2>3. Place(h, accepted[h])'
        BY <1>0, <1>3, <1>5 DEF Place, Holds, Ended, At
    <2> QED
        BY <1>0, <1>2, <1>3, <1>5, <2>1, <2>2, <2>3, OthersKept
<1>6. CASE RecvId(h)
    <2>1. PICK o \in ReceiveOutcomes(h, IdLen) :
            /\ Received(h, o)
            /\ piece' = [piece EXCEPT ![h] =
                IF o.res = "ok" /\ o.n = IdLen /\ o.p % RecLen = 0
                THEN <<Conn(h), o.p>> ELSE Torn]
        BY <1>6 DEF RecvId
    <2>2. hpc' = [hpc EXCEPT ![h] = "recvValue"] /\ hpc'[h] = "recvValue" /\ hpc[h] = "recvId"
        BY <1>2, <1>6 DEF RecvId
    <2>3. At(got[c], 0) /\ FieldLen(got[c]) = IdLen /\ Boundary(got[c]) /\ got[c] % RecLen = 0
        BY <1>2, <2>2, FieldAt DEF Place, Boundary
    <2>4. /\ got'[c] = got[c] + o.n /\ \A d \in Sensors \ {c} : got'[d] = got[d]
        BY <1>4, <2>1, Sizes
    <2>5. CASE o.res = "ok" /\ o.n = IdLen /\ o.p = got[c]
        <3>1. PICK k \in Nat : got[c] = k * RecLen + 0
            BY <2>3 DEF At
        <3>2. piece'[h] = <<c, k * RecLen>> /\ got'[c] = k * RecLen + IdLen
            <4>1. k * RecLen \in Nat
                BY Sizes
            <4>2. got'[c] = k * RecLen + IdLen /\ got[c] = k * RecLen
                BY <2>4, <2>5, <3>1, <4>1, Sizes
            <4>3. piece'[h] = <<c, got[c]>>
                BY <1>2, <2>1, <2>3, <2>5
            <4> QED
                BY <4>2, <4>3
        <3>3. Place(h, c)'
            BY <2>2, <3>2 DEF Place, Holds
        <3> QED
            BY <1>5, <2>1, <2>2, <2>4, <3>3
    <2>6. CASE o.n = 0 /\ Ended(c)
        <3>1. Ended(c)'
            BY <1>2, <2>4, <2>6, EndedStays
        <3>2. Place(h, c)'
            BY <2>2, <3>1 DEF Place
        <3> QED
            BY <1>5, <2>1, <2>2, <2>4, <3>2
    <2> QED
        BY <1>1, <1>2, <2>3, <2>5, <2>6, WholeOutcome
<1>7. CASE RecvValue(h)
    <2>1. PICK o \in ReceiveOutcomes(h, ValLen) :
            /\ Received(h, o)
            /\ piece' = [piece EXCEPT ![h] =
                IF Continues(h, o, ValLen, IdLen) THEN @ ELSE Torn]
        BY <1>7 DEF RecvValue
    <2>2. hpc' = [hpc EXCEPT ![h] = "recvTs"] /\ hpc'[h] = "recvTs" /\ hpc[h] = "recvValue"
        BY <1>2, <1>7 DEF RecvValue
    <2>3. /\ got'[c] = got[c] + o.n /\ \A d \in Sensors \ {c} : got'[d] = got[d]
          /\ Ended(c) => o.n = 0
        BY <1>4, <2>1, Sizes
    <2>4. CASE Ended(c)
        <3>1. Ended(c)'
            BY <1>2, <2>3, <2>4, EndedStays
        <3>2. Place(h, c)'
            BY <2>2, <3>1 DEF Place
        <3> QED
            BY <1>5, <2>1, <2>2, <2>3, <3>2
    <2>5. CASE ~Ended(c)
        <3>1. PICK k \in Nat : piece[h] = <<c, k * RecLen>> /\ got[c] = k * RecLen + IdLen
            BY <1>2, <2>2, <2>5 DEF Place, Holds
        <3>2. FieldLen(got[c]) = ValLen /\ Boundary(got[c])
            BY <1>2, <3>1, FieldAt DEF At, Boundary
        <3>3. o.res = "ok" /\ o.n = ValLen /\ o.p = got[c]
            BY <1>1, <1>2, <2>5, <3>2, WholeOutcome
        <3>4. Continues(h, o, ValLen, IdLen)
            BY <1>2, <3>1, <3>3, Sizes DEF Continues
        <3>5. piece'[h] = <<c, k * RecLen>> /\ got'[c] = k * RecLen + (IdLen + ValLen)
            <4>1. k * RecLen \in Nat
                BY Sizes
            <4>2. got'[c] = k * RecLen + (IdLen + ValLen)
                BY <2>3, <3>1, <3>3, <4>1, Sizes
            <4>3. piece'[h] = <<c, k * RecLen>>
                BY <1>2, <2>1, <3>1, <3>4
            <4> QED
                BY <4>2, <4>3
        <3>6. Place(h, c)'
            BY <2>2, <3>5 DEF Place, Holds
        <3> QED
            BY <1>5, <2>1, <2>2, <2>3, <3>6
    <2> QED
        BY <2>4, <2>5
<1>8. CASE RecvTs(h)
    <2>1. PICK o \in ReceiveOutcomes(h, TsLen) :
            /\ Received(h, o)
            /\ piece' = [piece EXCEPT ![h] =
                IF Continues(h, o, TsLen, IdLen + ValLen) THEN @ ELSE Torn]
            /\ hpc' = [hpc EXCEPT ![h] = AfterTs(o)]
        BY <1>8 DEF RecvTs
    <2>2. hpc'[h] = AfterTs(o) /\ hpc[h] = "recvTs"
        BY <1>2, <1>8, <2>1 DEF RecvTs
    <2>3. /\ got'[c] = got[c] + o.n /\ \A d \in Sensors \ {c} : got'[d] = got[d]
          /\ Ended(c) => o.res # "ok"
        BY <1>4, <2>1, Sizes
    <2>4. CASE o.res # "ok"
        <3>1. Place(h, c)'
            BY <2>2, <2>4 DEF Place, AfterTs
        <3> QED
            BY <1>5, <2>1, <2>3, <3>1
    <2>5. CASE o.res = "ok"
        <3>1. PICK k \in Nat : /\ piece[h] = <<c, k * RecLen>>
                               /\ got[c] = k * RecLen + (IdLen + ValLen)
            BY <1>2, <2>2, <2>3, <2>5 DEF Place, Holds
        <3>2. At(got[c], IdLen + ValLen) /\ FieldLen(got[c]) = TsLen /\ Boundary(got[c])
            BY <1>2, <3>1, FieldAt DEF At, Boundary
        <3>3. o.n = TsLen /\ o.p = got[c]
            BY <1>1, <1>2, <2>5, <3>2, WholeOutcome
        <3>4. Continues(h, o, TsLen, IdLen + ValLen)
            BY <1>2, <2>5, <3>1, <3>3, Sizes DEF Continues
        <3>5. piece'[h] = <<c, k * RecLen>> /\ At(got'[c], 0)
            BY <1>2, <2>1, <2>3, <3>1, <3>2, <3>3, <3>4, NextField
        <3>6. piece'[h] # Torn
            BY <1>2, <3>5, Sizes
        <3>7. Place(h, c)'
            BY <2>2, <2>5, <3>5, <3>6 DEF Place, AfterTs, At
        <3> QED
            BY <1>5, <2>1, <2>3, <3>7
    <2> QED
        BY <2>4, <2>5
<1> QED
    BY <1>6, <1>7, <1>8

(* What the loop and a handler that ends do to the others.                 *)
LEMMA NextRInv == ~PartialDelivery => (RInv /\ [Next]_vars => RInv')
<1> SUFFICES ASSUME ~PartialDelivery, RInv, [Next]_vars, ~raced' PROVE Records'
    BY NextTInv DEF RInv
<1>0. /\ TInv /\ IInv /\ TInv'
      /\ accepted \in Seq(Sensors) /\ Len(accepted) = conn_counter /\ conn_counter \in 0..MAX_CONN
      /\ MAX_CONN \in Nat /\ Handlers = 1..MAX_CONN
      /\ hpc \in [Handlers -> Places] /\ got \in [Sensors -> Nat]
    BY NextTInv, ConnmgrAssumption DEF RInv, TInv, IInv, Typed, Handlers, ConnmgrAssumption
<1>1. ~raced
    <2>1. raced \in BOOLEAN /\ raced' \in BOOLEAN
        BY <1>0 DEF TInv, Bounded
    <2> QED
        BY <2>1 DEF Next, Environment, MainStep, HandlerStep, Connect, SendField, Disconnect,
            MakeSocket, Accept, JoinAll, AddEos, AcceptFail, StartHandler, BlockRecv, RecvId,
            RecvValue, RecvTs, InsertReading, CloseClient, race, vars
<1>2. Records
    BY <1>1 DEF RInv
<1>3. ASSUME UNCHANGED <<accepted, hpc, piece, got>>, EveryReadingWasSent'
      PROVE  Records'
    <2>1. \A g \in 1..Len(accepted) : Place(g, accepted[g])'
        <3>1. \A c \in Sensors : Ended(c) => Ended(c)'
            BY <1>0, <1>3, EndedStays
        <3>2. ASSUME NEW g \in 1..Len(accepted) PROVE Place(g, accepted[g])'
            <4>1. PICK c \in Sensors : c = accepted[g]
                BY <1>0
            <4>2. Place(g, c)'
                BY <1>2, <1>3, <3>1, <4>1, PlaceKept DEF Records
            <4>3. accepted'[g] = c
                BY <1>3, <4>1
            <4> QED
                BY <4>2, <4>3 DEF Place, Holds, Ended, At
        <3> QED
            BY <3>2
    <2> QED
        BY <1>2, <1>3, <2>1 DEF Records
<1>4. UNCHANGED stream => EveryReadingWasSent'
    BY <1>2 DEF Records, EveryReadingWasSent
<1>5. CASE Environment
    BY <1>3, <1>4, <1>5 DEF Environment, Connect, SendField, Disconnect, handler, race
<1>6. CASE MakesSocket \/ JoinAll \/ AcceptFail \/ UNCHANGED vars
    BY <1>3, <1>4, <1>6 DEF MakesSocket, MakeSocket, JoinAll, AcceptFail, handler, race, wire, vars
<1>7. CASE AddEos
    <2>1. UNCHANGED <<accepted, hpc, piece, got>>
        BY <1>7 DEF AddEos, handler, race, wire
    <2>2. UNCHANGED stream \/ stream' = Append(stream, EOS)
        BY <1>7 DEF AddEos
    <2>3. stream \in Seq(Readings \cup {EOS}) /\ EOS # Torn
        BY <1>0, ConnmgrAssumption DEF TInv, Bounded, ConnmgrAssumption
    <2>4. EveryReadingWasSent'
        BY <1>2, <2>2, <2>3, AppendProperties DEF Records, EveryReadingWasSent
    <2> QED
        BY <1>3, <2>1, <2>4
<1>8. ASSUME NEW c \in Sensors, Accept(c) PROVE Records'
    <2> DEFINE n == conn_counter + 1
    <2>1. /\ accepted' = Append(accepted, c) /\ hpc' = [hpc EXCEPT ![n] = "start"]
          /\ UNCHANGED <<got, piece, stream, link, sent>> /\ ~Accepted(c)
        BY <1>8 DEF Accept, wire
    <2>2. \A i \in 1..Len(accepted) : accepted[i] # c
        BY <1>0, <2>1 DEF Accepted, Range
    <2>3. got[c] = 0
        BY <1>2, <2>2 DEF Records
    <2>4. /\ Len(accepted') = n /\ accepted'[n] = c
          /\ \A i \in 1..Len(accepted) : accepted'[i] = accepted[i] /\ i # n
        BY <1>0, <2>1
    <2>5. n \in Handlers
        BY <1>0, <1>8 DEF Accept, IInv, Control
    <2>6. hpc'[n] = "start" /\ \A g \in 1..Len(accepted) : hpc'[g] = hpc[g]
        BY <1>0, <2>1, <2>4, <2>5
    <2>7. ASSUME NEW g \in 1..Len(accepted') PROVE Place(g, accepted[g])'
        <3>1. CASE g = n
            BY <2>1, <2>3, <2>4, <2>6, <3>1 DEF Place
        <3>2. CASE g # n
            <4>1. g \in 1..Len(accepted)
                BY <1>0, <2>4, <3>2
            <4>2. PICK d \in Sensors : d = accepted[g]
                BY <1>0, <4>1
            <4>3. Ended(d) => Ended(d)'
                BY <2>1 DEF Ended
            <4>4. Place(g, d)'
                BY <1>2, <2>1, <2>6, <4>1, <4>2, <4>3, PlaceKept DEF Records
            <4>5. accepted'[g] = d
                BY <2>4, <4>1, <4>2
            <4> QED
                BY <4>4, <4>5 DEF Place, Holds, Ended, At
        <3> QED
            BY <3>1, <3>2
    <2>8. ASSUME NEW d \in Sensors, \A i \in 1..Len(accepted') : accepted'[i] # d
          PROVE  got'[d] = 0
        <3>1. \A i \in 1..Len(accepted) : i \in 1..Len(accepted') /\ accepted'[i] = accepted[i]
            BY <1>0, <2>4
        <3>2. \A i \in 1..Len(accepted) : accepted[i] # d
            BY <2>8, <3>1
        <3> QED
            BY <1>2, <2>1, <3>2 DEF Records
    <2> QED
        BY <1>4, <2>1, <2>7, <2>8 DEF Records
<1>9. ASSUME NEW h \in Handlers, HandlerStep(h) PROVE Records'
    <2>1. CASE RecvId(h) \/ RecvValue(h) \/ RecvTs(h)
        BY <1>0, <1>1, <1>2, <2>1, RecvRecords
    <2>2. CASE BlockRecv(h)
        BY <1>3, <1>4, <2>2 DEF BlockRecv, race, wire
    <2>3. CASE StartHandler(h) \/ InsertReading(h) \/ CloseClient(h)
        <3>1. /\ h \in 1..Len(accepted) /\ accepted[h] \in Sensors
              /\ UNCHANGED <<accepted, got, piece>>
            BY <1>0, <2>3 DEF IInv, Control, StartHandler, InsertReading, CloseClient, race, wire
        <3>2. PICK c \in Sensors : c = accepted[h] /\ c = accepted'[h]
            BY <3>1
        <3>3. /\ got[c] \in Nat /\ Place(h, c)
            BY <1>0, <1>2, <3>1, <3>2 DEF Records
        <3>4. PICK q \in {"recvId", "ended"} :
                    /\ hpc' = [hpc EXCEPT ![h] = q]
                    /\ q = "recvId" => At(got[c], 0)
            <4>1. got[c] = 0 => At(got[c], 0)
                <5>1. 0 = 0 * RecLen + 0
                    BY Sizes
                <5> QED
                    BY <5>1 DEF At
            <4> QED
                BY <2>3, <3>3, <4>1 DEF StartHandler, InsertReading, CloseClient, Place
        <3>5. hpc'[h] = q
            BY <1>0, <3>4
        <3>6. Place(h, c)'
            BY <3>1, <3>4, <3>5 DEF Place, At
        <3>7. Place(h, accepted[h])'
            BY <3>2, <3>6 DEF Place, Holds, Ended, At
        <3>8. EveryReadingWasSent'
            <4>1. CASE UNCHANGED stream
                BY <1>4, <4>1
            <4>2. CASE InsertReading(h)
                <5>1. UNCHANGED stream \/ stream' = Append(stream, piece[h])
                    BY <4>2 DEF InsertReading, Inserted
                <5>2. piece[h] # Torn
                    BY <3>3, <4>2 DEF InsertReading, Place
                <5>3. stream \in Seq(Readings \cup {EOS}) /\ piece[h] \in Readings \cup {EOS}
                    BY <1>0 DEF TInv, Bounded
                <5> QED
                    BY <1>2, <5>1, <5>2, <5>3, AppendProperties DEF Records, EveryReadingWasSent
            <4> QED
                BY <2>3, <4>1, <4>2 DEF StartHandler, CloseClient
        <3>9. \A g \in 1..Len(accepted) \ {h} : hpc'[g] = hpc[g] /\ piece'[g] = piece[g]
            <4>1. 1..Len(accepted) \subseteq Handlers
                BY <1>0
            <4> QED
                BY <1>0, <3>1, <3>4, <4>1
        <3> QED
            BY <1>0, <1>2, <3>1, <3>7, <3>8, <3>9, OthersKept
    <2> QED
        BY <1>9, <2>1, <2>2, <2>3 DEF HandlerStep
<1> QED
    BY <1>5, <1>6, <1>7, <1>8, <1>9 DEF Next, MainStep, MakesSocket

(* connmgr.c:85-99: if fields arrive whole and every handler has copied    *)
(* its argument before the next accept, nothing reaches the buffer that is *)
(* not a record some sensor sent, whenever sensors close or are reset.     *)
THEOREM WholeRecordsCorrect == ~PartialDelivery => (Safety => []WholeRecordsOnly)
<1> SUFFICES ASSUME ~PartialDelivery PROVE Safety => []WholeRecordsOnly
    OBVIOUS
<1>1. Init => RInv
    <2> SUFFICES ASSUME Init PROVE TInv /\ Records
        BY DEF RInv
    <2>1. TInv
        BY InitTInv
    <2>2. Records
        BY DEF Init, Records, EveryReadingWasSent
    <2> QED
        BY <2>1, <2>2
<1>2. RInv /\ [Next]_vars => RInv'
    BY NextRInv
<1>3. RInv => WholeRecordsOnly
    BY DEF RInv, Records, WholeRecordsOnly
<1> QED
    BY <1>1, <1>2, <1>3, PTL DEF Safety

-----------------------------------------------------------------------------
(* A connection nobody else reads, whatever the other handlers do.         *)

(* Nothing more comes from c to its handler h: the connection has ended,   *)
(* or another handler has closed the socket under h.                       *)
Off(h, c) == Ended(c) \/ (sockAt[client[h]] # c /\ pending[h] # c)

(* How far h is in the record it receives from its own connection c.       *)
Progress(h, c) ==
    /\ hpc[h] = "recvId" => Off(h, c) \/ At(got[c], 0)
    /\ hpc[h] = "recvValue" => Off(h, c) \/ Holds(h, c, IdLen)
    /\ hpc[h] = "recvTs" => Off(h, c) \/ Holds(h, c, IdLen + ValLen)
    /\ hpc[h] = "insert" => IF From(piece[h], c) THEN Holds(h, c, RecLen) ELSE Off(h, c)

(* Every record received whole is counted where it is, and lies behind the *)
(* ones that were delivered before it.                                     *)
Accounts(c) ==
    /\ \A i \in Delivered(c) : At(stream[i][2], 0) /\ stream[i][2] + RecLen <= got[c]
    /\ \A i, j \in Delivered(c) : i < j => stream[i][2] < stream[j][2]
    /\ \A h \in Handlers : hpc[h] = "insert" /\ From(piece[h], c) =>
            \A i \in Delivered(c) : stream[i][2] + RecLen <= piece[h][2]
    /\ Cardinality(Delivered(c)) + lost[c] + InFlight(c) = got[c] \div RecLen

(* A handler whose recv is blocked on another connection does not find its *)
(* own behind the socket.                                                  *)
NotBack ==
    \A h \in 1..Len(accepted) :
        hpc[h] \in Active /\ pending[h] \notin {NULL, accepted[h]}
            => sockAt[client[h]] # accepted[h]

(* Who holds something of a connection has read from it.                   *)
Paths ==
    /\ \A c \in Sensors : \A h \in readers[c] :
            h \in 1..Len(accepted) /\ hpc[h] \in Active \cup {"ended"}
    /\ \A c \in Sensors, h \in Handlers : From(piece[h], c) => h \in readers[c]
    /\ \A c \in Sensors : readers[c] = {} => got[c] = 0
    /\ NotBack

Exact(c) ==
    /\ \A h \in 1..Len(accepted) : accepted[h] = c => Progress(h, c)
    /\ Accounts(c)

XInv == TInv /\ Paths /\ \A c \in Sensors : Undisturbed(c) => Exact(c)

LEMMA Quotient ==
    ASSUME NEW L \in Nat \ {0}, NEW k \in Nat, NEW r \in 0..L - 1
    PROVE  (k * L + r) \div L = k
OBVIOUS

(* A record that ends inside or before another one ends before it begins.  *)
LEMMA RecordBefore ==
    ASSUME NEW L \in Nat \ {0}, NEW j \in Nat, NEW k \in Nat, NEW r \in 0..L - 1,
           j * L + L <= k * L + r
    PROVE  j * L + L <= k * L
<1>1. (j + 1) * L = j * L + L /\ (k + 1) * L = k * L + L
    OBVIOUS
<1>2. CASE j + 1 <= k
    BY <1>1, <1>2, ProductMonotonic
<1>3. CASE k + 1 <= j + 1
    <2>1. (k + 1) * L <= (j + 1) * L
        BY <1>3, ProductMonotonic
    <2>2. k * L + L <= k * L + r /\ k * L \in Nat
        BY <1>1, <2>1
    <2> QED
        BY <2>2
<1> QED
    BY <1>2, <1>3

(* The handlers of an undisturbed connection.                              *)
LEMMA OwnHandler ==
    ASSUME TInv, Paths, NEW c \in Sensors, Undisturbed(c)
    PROVE  /\ \A h \in readers[c] : h \in 1..Len(accepted) /\ accepted[h] = c
           /\ \A g, h \in 1..Len(accepted) : accepted[g] = c /\ accepted[h] = c => g = h
           /\ \A h \in Handlers : From(piece[h], c) =>
                    h \in readers[c] /\ h \in 1..Len(accepted) /\ accepted[h] = c
<1>1. \A h \in readers[c] : h \in 1..Len(accepted) /\ accepted[h] = c
    BY DEF Paths, Undisturbed
<1>2. \A g, h \in 1..Len(accepted) : accepted[g] = accepted[h] => g = h
    BY DEF TInv, IInv, AcceptedOnce
<1>3. \A h \in Handlers : From(piece[h], c) => h \in readers[c]
    BY DEF Paths
<1> QED
    BY <1>1, <1>2, <1>3

(* The handler keeps its place when a step is not about it.                *)
LEMMA ProgressKept ==
    ASSUME NEW h, NEW c, Progress(h, c), hpc'[h] = hpc[h], piece'[h] = piece[h],
           got'[c] = got[c], Off(h, c) => Off(h, c)'
    PROVE  Progress(h, c)'
<1>1. \A r : Holds(h, c, r) => Holds(h, c, r)'
    BY DEF Holds
<1>2. \A r : At(got[c], r) => At(got[c], r)'
    BY DEF At
<1>3. From(piece[h], c)' <=> From(piece[h], c)
    BY DEF From
<1> QED
    BY <1>1, <1>2, <1>3 DEF Progress

(* The account stays right when nothing is inserted and no record ends.    *)
LEMMA AccountsKept ==
    ASSUME NEW c \in Sensors, Accounts(c),
           Delivered(c)' = Delivered(c), \A i \in Delivered(c) : stream'[i] = stream[i],
           lost'[c] = lost[c], got[c] \in Nat, got'[c] \in Nat, got[c] <= got'[c],
           got'[c] \div RecLen = got[c] \div RecLen,
           \A i \in Delivered(c) : stream[i][2] + RecLen \in Nat,
           \A h \in Handlers : (hpc'[h] = "insert" /\ From(piece'[h], c)
                                    <=> hpc[h] = "insert" /\ From(piece[h], c)),
           \A h \in Handlers : hpc'[h] = "insert" /\ From(piece'[h], c) => piece'[h] = piece[h]
    PROVE  Accounts(c)'
<1>1. InFlight(c)' = InFlight(c)
    <2>1. {h \in Handlers : hpc'[h] = "insert" /\ From(piece'[h], c)}
            = {h \in Handlers : hpc[h] = "insert" /\ From(piece[h], c)}
        OBVIOUS
    <2> QED
        BY <2>1 DEF InFlight
<1>2. \A i \in Delivered(c) : At(stream[i][2], 0)' <=> At(stream[i][2], 0)
    BY DEF At
<1>3. \A i \in Delivered(c) : stream'[i][2] + RecLen <= got'[c]
    BY DEF Accounts
<1>4. \A h \in Handlers : hpc'[h] = "insert" /\ From(piece'[h], c) =>
            \A i \in Delivered(c) : stream'[i][2] + RecLen <= piece'[h][2]
    BY DEF Accounts
<1>5. \A i, j \in Delivered(c) : i < j => stream'[i][2] < stream'[j][2]
    BY DEF Accounts
<1>6. Cardinality(Delivered(c)) + lost'[c] + InFlight(c)' = got'[c] \div RecLen
    BY <1>1 DEF Accounts
<1> QED
    BY <1>2, <1>3, <1>4, <1>5, <1>6 DEF Accounts

(* The places of what was delivered.                                       *)
LEMMA DeliveredFrom ==
    ASSUME NEW c \in Sensors, NEW i \in Delivered(c)
    PROVE  /\ i \in 1..Len(stream)
           /\ stream[i][2] \in Nat /\ stream[i][2] + RecLen \in Nat
           /\ stream[i] = <<c, stream[i][2]>>
    BY Sizes DEF Delivered, From

LEMMA DeliveredFinite ==
    ASSUME TInv, NEW c \in Sensors
    PROVE  /\ IsFiniteSet(Delivered(c)) /\ Cardinality(Delivered(c)) \in Nat
           /\ Delivered(c) \subseteq 1..Len(stream) /\ Len(stream) \in Nat
<1>1. Len(stream) \in Nat /\ Delivered(c) \subseteq 1..Len(stream)
    BY DEF TInv, Bounded, Delivered
<1>2. IsFiniteSet(1..Len(stream))
    BY <1>1, FS_Interval
<1>3. IsFiniteSet(Delivered(c))
    BY <1>1, <1>2, FS_Subset
<1> QED
    BY <1>1, <1>3, FS_CardinalityType

(* What an append does to them.                                            *)
LEMMA DeliveredAppend ==
    ASSUME TInv, NEW c \in Sensors, NEW r \in Readings \cup {EOS}, stream' = Append(stream, r)
    PROVE  /\ \A i \in 1..Len(stream) : stream'[i] = stream[i]
           /\ stream'[Len(stream) + 1] = r /\ Len(stream) \in Nat
           /\ ~From(r, c) => Delivered(c)' = Delivered(c)
           /\ From(r, c) => /\ Delivered(c)' = Delivered(c) \cup {Len(stream) + 1}
                            /\ Cardinality(Delivered(c)') = Cardinality(Delivered(c)) + 1
<1>1. stream \in Seq(Readings \cup {EOS})
    BY DEF TInv, Bounded
<1>2. /\ Len(stream) \in Nat /\ Len(stream') = Len(stream) + 1
      /\ stream'[Len(stream) + 1] = r
      /\ \A i \in 1..Len(stream) : stream'[i] = stream[i]
    BY <1>1, AppendProperties
<1>3. Delivered(c)' = {i \in 1..Len(stream) + 1 : From(stream'[i], c)}
    BY <1>2 DEF Delivered
<1>4. ~From(r, c) => Delivered(c)' = Delivered(c)
    BY <1>2, <1>3 DEF Delivered
<1>5. From(r, c) => Delivered(c)' = Delivered(c) \cup {Len(stream) + 1}
    BY <1>2, <1>3 DEF Delivered
<1>6. Len(stream) + 1 \notin Delivered(c)
    BY <1>2 DEF Delivered
<1> QED
    BY <1>2, <1>4, <1>5, <1>6, DeliveredFinite, FS_AddElement
(* Who receives, and what that does to the units of a connection.          *)
LEMMA OneReceives ==
    ASSUME TInv, NEW h \in Handlers, RecvId(h) \/ RecvValue(h) \/ RecvTs(h)
    PROVE  \E len \in Nat \ {0} : \E o \in ReceiveOutcomes(h, len) :
                hpc[h] \in Recvs /\ Received(h, o)
    BY Sizes DEF RecvId, RecvValue, RecvTs, Recvs

(* Nothing is received from a connection that has ended.                   *)
LEMMA EndedForever ==
    ASSUME TInv, [Next]_vars, NEW c \in Sensors, Ended(c)
    PROVE  got'[c] = got[c] /\ Ended(c)'
<1>1. got'[c] = got[c]
    <2>1. CASE Environment
        BY <2>1 DEF Environment, Connect, SendField, Disconnect
    <2>2. CASE MainStep \/ AcceptFail \/ UNCHANGED vars
        BY <2>2 DEF MainStep, MakeSocket, Accept, JoinAll, AddEos, AcceptFail, wire, vars
    <2>3. ASSUME NEW h \in Handlers, HandlerStep(h) PROVE got'[c] = got[c]
        <3>1. CASE StartHandler(h) \/ BlockRecv(h) \/ InsertReading(h) \/ CloseClient(h)
            BY <3>1 DEF StartHandler, BlockRecv, InsertReading, CloseClient, wire
        <3>2. CASE RecvId(h) \/ RecvValue(h) \/ RecvTs(h)
            <4>1. PICK len \in Nat \ {0} : \E o \in ReceiveOutcomes(h, len) :
                        hpc[h] \in Recvs /\ Received(h, o)
                BY <3>2, OneReceives
            <4>2. PICK o \in ReceiveOutcomes(h, len) : hpc[h] \in Recvs /\ Received(h, o)
                BY <4>1
            <4>3. got'[c] = IF c = Conn(h) THEN got[c] + o.n ELSE got[c]
                BY <4>2, ReceivedUnits
            <4>4. got[c] \in Nat /\ sent[c] = got[c]
                BY DEF TInv, IInv, Typed, Ended
            <4>5. c = Conn(h) => o.n = 0
                BY <4>2, <4>4, Outcomes
            <4> QED
                BY <4>3, <4>4, <4>5
        <3> QED
            BY <2>3, <3>1, <3>2 DEF HandlerStep
    <2> QED
        BY <2>1, <2>2, <2>3 DEF Next
<1> QED
    BY <1>1, EndedStays

(* A connection does not come back under its handler.                      *)
LEMMA OffStays ==
    ASSUME TInv, [Next]_vars, NEW h \in 1..Len(accepted), NEW c \in Sensors,
           accepted[h] = c, hpc[h] \in Active, Off(h, c)
    PROVE  Off(h, c)'
<1>1. CASE Ended(c)
    BY <1>1, EndedForever DEF Off
<1>2. CASE sockAt[client[h]] # c /\ pending[h] # c
    <2> SUFFICES sockAt'[client'[h]] # c /\ pending'[h] # c
        BY DEF Off
    <2>0. /\ h \in Handlers /\ client[h] \in Addrs /\ NULL \notin Sensors
          /\ sockAt \in [Addrs -> Sensors \cup {NULL}]
          /\ client \in [Handlers -> Addrs \cup {NULL}]
          /\ pending \in [Handlers -> Sensors \cup {NULL}]
        BY ConnmgrAssumption DEF TInv, IInv, Typed, Control, Handlers, ConnmgrAssumption
    <2>1. CASE Environment \/ JoinAll \/ AddEos \/ AcceptFail \/ UNCHANGED vars
        BY <1>2, <2>1 DEF Environment, Connect, SendField, Disconnect, JoinAll, AddEos,
            AcceptFail, handler, heap, vars
    <2>2. ASSUME NEW d \in Sensors, Accept(d)
          PROVE  sockAt'[client'[h]] # c /\ pending'[h] # c
        <3>1. /\ ~Accepted(d)
              /\ sockAt' = [sockAt EXCEPT ![fresh] = d] /\ UNCHANGED <<client, pending>>
            BY <2>2 DEF Accept
        <3>2. Accepted(c)
            BY DEF TInv, IInv, Typed, Accepted, Range
        <3>3. d # c
            BY <3>1, <3>2
        <3> QED
            BY <1>2, <2>0, <3>1, <3>3
    <2>4. CASE MakesSocket
        <3>1. PICK a \in Addrs : MakeSocket(a)
            BY <2>4 DEF MakesSocket
        <3>2. sockAt' = [sockAt EXCEPT ![a] = NULL] /\ UNCHANGED <<client, pending>>
            BY <3>1 DEF MakeSocket, handler
        <3> QED
            BY <1>2, <2>0, <3>2
    <2>3. ASSUME NEW g \in Handlers, HandlerStep(g)
          PROVE  sockAt'[client'[h]] # c /\ pending'[h] # c
        <3>1. CASE StartHandler(g)
            <4>1. /\ hpc[g] = "start" /\ \E b : client' = [client EXCEPT ![g] = b]
                  /\ UNCHANGED <<sockAt, pending>>
                BY <3>1 DEF StartHandler, heap
            <4>2. g # h
                BY <4>1 DEF Active, Recvs
            <4> QED
                BY <1>2, <2>0, <4>1, <4>2
        <3>2. CASE BlockRecv(g)
            <4>1. /\ pending[g] = NULL /\ pending' = [pending EXCEPT ![g] = Conn(g)]
                  /\ UNCHANGED <<sockAt, client>>
                BY <3>2 DEF BlockRecv, heap
            <4>2. Conn(g) = sockAt[client[g]]
                BY <4>1 DEF Conn
            <4> QED
                BY <1>2, <2>0, <4>1, <4>2
        <3>3. CASE RecvId(g) \/ RecvValue(g) \/ RecvTs(g)
            <4>1. pending' = [pending EXCEPT ![g] = NULL] /\ UNCHANGED <<sockAt, client>>
                BY <3>3 DEF RecvId, RecvValue, RecvTs, Received, heap
            <4> QED
                BY <1>2, <2>0, <4>1
        <3>4. CASE InsertReading(g)
            BY <1>2, <3>4 DEF InsertReading, heap
        <3>5. CASE CloseClient(g)
            <4>1. /\ UNCHANGED <<client, pending>>
                  /\ sockAt' = [sockAt EXCEPT ![client[g]] = NULL]
                BY <3>5 DEF CloseClient
            <4> QED
                BY <1>2, <2>0, <4>1
        <3> QED
            BY <2>3, <3>1, <3>2, <3>3, <3>4, <3>5 DEF HandlerStep
    <2> QED
        BY <2>1, <2>2, <2>3, <2>4 DEF Next, MainStep, MakesSocket
<1> QED
    BY <1>1, <1>2 DEF Off

(* What a step does that is not a receive, insert or close of its own      *)
(* handler, to a connection and its handler.                               *)
LEMMA ExactKept ==
    ASSUME TInv, [Next]_vars, NEW c \in Sensors, Undisturbed(c), Paths, Exact(c),
           UNCHANGED lost, UNCHANGED stream \/ stream' = Append(stream, EOS),
           UNCHANGED <<got, piece>>,
           \A h \in Handlers : (hpc'[h] = "insert" <=> hpc[h] = "insert"),
           \A h \in 1..Len(accepted') : accepted'[h] = c =>
                \/ h \in 1..Len(accepted) /\ accepted[h] = c /\ hpc'[h] = hpc[h]
                \/ hpc'[h] \in {"start", "ended"}
                \/ hpc'[h] = "recvId" /\ At(got[c], 0)
    PROVE  Exact(c)'
<1>1. ASSUME NEW h \in 1..Len(accepted'), accepted'[h] = c PROVE Progress(h, c)'
    <2>1. CASE /\ h \in 1..Len(accepted) /\ accepted[h] = c
               /\ hpc'[h] = hpc[h] /\ hpc[h] \in Active
        <3>1. Progress(h, c)
            BY <2>1 DEF Exact
        <3>2. Off(h, c) => Off(h, c)'
            BY <2>1, OffStays
        <3> QED
            BY <2>1, <3>1, <3>2, ProgressKept
    <2>2. CASE hpc'[h] \notin Active
        BY <2>2 DEF Progress, Active, Recvs
    <2>3. CASE hpc'[h] = "recvId" /\ At(got[c], 0)
        <3>1. At(got[c], 0)'
            BY <2>3 DEF At
        <3> QED
            BY <2>3, <3>1 DEF Progress
    <2> QED
        BY <1>1, <2>1, <2>2, <2>3 DEF Active, Recvs
<1>2. Accounts(c)'
    <2>1. /\ \A i \in 1..Len(stream) : stream'[i] = stream[i]
          /\ Delivered(c)' = Delivered(c)
        <3>1. ~From(EOS, c)
            BY ConnmgrAssumption, Sizes DEF From, ConnmgrAssumption
        <3>2. CASE UNCHANGED stream
            BY <3>2 DEF Delivered
        <3>3. CASE stream' = Append(stream, EOS)
            BY <3>1, <3>3, DeliveredAppend
        <3> QED
            BY <3>2, <3>3
    <2>2. got[c] \in Nat
        BY DEF TInv, IInv, Typed
    <2>3. \A i \in Delivered(c) : stream'[i] = stream[i] /\ stream[i][2] + RecLen \in Nat
        BY <2>1, DeliveredFrom
    <2>4. \A h \in Handlers : (hpc'[h] = "insert" /\ From(piece'[h], c)
                                    <=> hpc[h] = "insert" /\ From(piece[h], c))
        OBVIOUS
    <2> QED
        BY <2>1, <2>2, <2>3, <2>4, AccountsKept DEF Exact
<1> QED
    BY <1>1, <1>2 DEF Exact

-----------------------------------------------------------------------------
(* What the readers of a connection have done is not undone.               *)

(* Every step: the handlers that were made stay what they were made for.   *)
LEMMA AcceptedGrows ==
    ASSUME TInv, [Next]_vars
    PROVE  /\ Len(accepted) \in Nat /\ Len(accepted') \in Nat /\ Len(accepted) <= Len(accepted')
           /\ 1..Len(accepted) \subseteq Handlers
           /\ \A h \in 1..Len(accepted) : accepted'[h] = accepted[h] /\ accepted[h] \in Sensors
<1>1. /\ accepted \in Seq(Sensors) /\ Len(accepted) = conn_counter
      /\ 1..Len(accepted) \subseteq Handlers
    BY ConnmgrAssumption DEF TInv, IInv, Typed, Handlers, ConnmgrAssumption
<1>2. UNCHANGED accepted \/ \E c \in Sensors : accepted' = Append(accepted, c)
    BY DEF Next, MainStep, HandlerStep, Environment, Connect, SendField, Disconnect,
        MakeSocket, Accept, JoinAll, AddEos, AcceptFail, StartHandler, BlockRecv, RecvId,
        RecvValue, RecvTs, InsertReading, CloseClient, race, vars
<1>3. Len(accepted) \in Nat /\ \A h \in 1..Len(accepted) : accepted[h] \in Sensors
    BY <1>1
<1>4. ASSUME NEW c \in Sensors, accepted' = Append(accepted, c)
      PROVE  /\ Len(accepted') = Len(accepted) + 1
             /\ \A h \in 1..Len(accepted) : accepted'[h] = accepted[h]
    BY <1>1, <1>4, AppendProperties
<1> QED
    BY <1>1, <1>2, <1>3, <1>4

LEMMA NextNotBack == TInv /\ NotBack /\ [Next]_vars => NotBack'
<1> SUFFICES ASSUME TInv, NotBack, [Next]_vars PROVE NotBack'
    OBVIOUS
<1>0. /\ NULL \notin Sensors
      /\ sockAt \in [Addrs -> Sensors \cup {NULL}]
      /\ client \in [Handlers -> Addrs \cup {NULL}]
      /\ pending \in [Handlers -> Sensors \cup {NULL}]
      /\ hpc \in [Handlers -> Places]
      /\ \A h \in Handlers : hpc[h] \in Active => client[h] \in Addrs
    BY ConnmgrAssumption DEF TInv, IInv, Typed, Control, ConnmgrAssumption
<1>1. /\ 1..Len(accepted) \subseteq Handlers
      /\ \A h \in 1..Len(accepted) : accepted[h] \in Sensors
    BY AcceptedGrows
<1>2. CASE Environment \/ JoinAll \/ AddEos \/ AcceptFail \/ UNCHANGED vars
    <2>1. UNCHANGED <<accepted, hpc, pending, client, sockAt>>
        BY <1>2 DEF Environment, Connect, SendField, Disconnect, JoinAll, AddEos,
            AcceptFail, handler, heap, race, vars
    <2> QED
        BY <2>1 DEF NotBack
<1>3. ASSUME NEW c \in Sensors, Accept(c) PROVE NotBack'
    <2>1. /\ accepted' = Append(accepted, c) /\ sockAt' = [sockAt EXCEPT ![fresh] = c]
          /\ hpc' = [hpc EXCEPT ![conn_counter + 1] = "start"] /\ UNCHANGED <<pending, client>>
          /\ ~Accepted(c)
        BY <1>3 DEF Accept
    <2>2. /\ accepted \in Seq(Sensors) /\ Len(accepted) = conn_counter
          /\ \A h \in 1..Len(accepted) : accepted[h] # c
        <3>1. accepted \in Seq(Sensors) /\ Len(accepted) = conn_counter
            BY DEF TInv, IInv, Typed
        <3> QED
            BY <2>1, <3>1 DEF Accepted, Range
    <2>3. ASSUME NEW h \in 1..Len(accepted'), hpc'[h] \in Active,
                 pending[h] \notin {NULL, accepted'[h]}
          PROVE  sockAt'[client[h]] # accepted'[h]
        <3>1. Len(accepted') = Len(accepted) + 1 /\ Len(accepted) \in Nat
            BY <2>1, <2>2, AppendProperties
        <3>2. h \in Handlers => h # Len(accepted) + 1
            BY <1>0, <2>1, <2>2, <2>3 DEF Active, Recvs
        <3>3. Len(accepted) + 1 \in Handlers
            BY <1>3, <2>2, <3>1, ConnmgrAssumption
                DEF Accept, TInv, IInv, Control, Handlers, ConnmgrAssumption
        <3>4. h \in 1..Len(accepted)
            BY <3>1, <3>2, <3>3
        <3>5. accepted'[h] = accepted[h] /\ hpc'[h] = hpc[h]
            BY <1>0, <1>1, <2>1, <2>2, <3>2, <3>4, AcceptedGrows
        <3>6. sockAt[client[h]] # accepted[h] /\ accepted[h] # c
            BY <2>2, <2>3, <3>4, <3>5 DEF NotBack
        <3> QED
            BY <1>0, <1>1, <2>1, <2>3, <3>4, <3>5, <3>6
    <2> QED
        BY <2>1, <2>3 DEF NotBack
<1>4. ASSUME NEW g \in Handlers, HandlerStep(g) PROVE NotBack'
    <2>0. UNCHANGED accepted
        BY <1>4 DEF HandlerStep, StartHandler, BlockRecv, RecvId, RecvValue, RecvTs,
            InsertReading, CloseClient, race
    <2>1. CASE StartHandler(g)
        <3>1. /\ hpc[g] = "start" /\ \E b : client' = [client EXCEPT ![g] = b]
              /\ hpc' = [hpc EXCEPT ![g] = "recvId"]
              /\ UNCHANGED <<sockAt, pending>>
            BY <2>1 DEF StartHandler, heap
        <3>2. pending[g] = NULL
            BY <3>1 DEF TInv, IInv, Control
        <3> QED
            BY <1>0, <1>1, <2>0, <3>1, <3>2 DEF NotBack
    <2>2. CASE BlockRecv(g)
        <3>1. /\ pending[g] = NULL /\ pending' = [pending EXCEPT ![g] = Conn(g)]
              /\ UNCHANGED <<sockAt, client, hpc>>
            BY <2>2 DEF BlockRecv, heap
        <3>2. Conn(g) = sockAt[client[g]]
            BY <3>1 DEF Conn
        <3> QED
            BY <1>0, <1>1, <2>0, <3>1, <3>2 DEF NotBack
    <2>3. CASE RecvId(g) \/ RecvValue(g) \/ RecvTs(g)
        <3>1. /\ pending' = [pending EXCEPT ![g] = NULL] /\ UNCHANGED <<sockAt, client>>
              /\ \E q : hpc' = [hpc EXCEPT ![g] = q]
            BY <2>3 DEF RecvId, RecvValue, RecvTs, Received, heap
        <3> QED
            BY <1>0, <1>1, <2>0, <3>1 DEF NotBack
    <2>4. CASE InsertReading(g)
        <3>1. /\ hpc[g] \in Active /\ \E q : hpc' = [hpc EXCEPT ![g] = q]
              /\ UNCHANGED <<sockAt, pending, client>>
            BY <2>4 DEF InsertReading, Active, heap
        <3> QED
            BY <1>0, <1>1, <2>0, <3>1 DEF NotBack
    <2>5. CASE CloseClient(g)
        <3>1. /\ UNCHANGED <<client, pending>> /\ hpc' = [hpc EXCEPT ![g] = "ended"]
              /\ sockAt' = [sockAt EXCEPT ![client[g]] = NULL]
            BY <2>5 DEF CloseClient
        <3>2. "ended" \notin Active
            BY DEF Active, Recvs
        <3> QED
            BY <1>0, <1>1, <2>0, <3>1, <3>2 DEF NotBack
    <2> QED
        BY <1>4, <2>1, <2>2, <2>3, <2>4, <2>5 DEF HandlerStep
<1>5. CASE MakesSocket
    <2>1. PICK a \in Addrs : MakeSocket(a)
        BY <1>5 DEF MakesSocket
    <2>2. /\ sockAt' = [sockAt EXCEPT ![a] = NULL]
          /\ UNCHANGED <<accepted, hpc, pending, client>>
        BY <2>1 DEF MakeSocket, handler, race
    <2> QED
        BY <1>0, <1>1, <2>2 DEF NotBack
<1> QED
    BY <1>2, <1>3, <1>4, <1>5 DEF Next, MainStep, MakesSocket

(* A step in which nothing is received.                                    *)
LEMMA QuietPaths ==
    ASSUME TInv, Paths, [Next]_vars, UNCHANGED <<got, readers, piece>>,
           \A h \in Handlers :
                hpc[h] \in Active \cup {"ended"} => hpc'[h] \in Active \cup {"ended"}
    PROVE  Paths'
<1>1. NotBack'
    BY NextNotBack DEF Paths
<1>2. /\ 1..Len(accepted) \subseteq 1..Len(accepted')
      /\ 1..Len(accepted) \subseteq Handlers
    BY AcceptedGrows
<1>3. \A c \in Sensors : \A h \in readers'[c] :
            h \in 1..Len(accepted') /\ hpc'[h] \in Active \cup {"ended"}
    BY <1>2 DEF Paths
<1>4. \A c \in Sensors, h \in Handlers : From(piece'[h], c) => h \in readers'[c]
    BY DEF Paths
<1>5. \A c \in Sensors : readers'[c] = {} => got'[c] = 0
    BY DEF Paths
<1> QED
    BY <1>1, <1>3, <1>4, <1>5 DEF Paths, From

(* A receive leaves a trace in the readers of its connection.              *)
LEMMA RecvPaths ==
    ASSUME TInv, Paths, [Next]_vars, NEW g \in Handlers, RecvId(g) \/ RecvValue(g) \/ RecvTs(g)
    PROVE  Paths'
<1> DEFINE Receives(len, o) ==
        /\ hpc[g] \in Recvs /\ Received(g, o)
        /\ \E q \in Active : hpc' = [hpc EXCEPT ![g] = q]
        /\ \E r : /\ piece' = [piece EXCEPT ![g] = r]
                  /\ r \in {piece[g], Torn} \/ (o.res = "ok" /\ r = <<Conn(g), o.p>>)
        /\ UNCHANGED accepted
<1>1. PICK len \in Nat \ {0} : \E o \in ReceiveOutcomes(g, len) : Receives(len, o)
    <2>1. CASE RecvId(g)
        <3>1. \E o \in ReceiveOutcomes(g, IdLen) : Receives(IdLen, o)
            BY <2>1 DEF RecvId, Recvs, Active, race
        <3> QED
            BY <3>1, Sizes
    <2>2. CASE RecvValue(g)
        <3>1. \E o \in ReceiveOutcomes(g, ValLen) : Receives(ValLen, o)
            BY <2>2 DEF RecvValue, Recvs, Active, race
        <3> QED
            BY <3>1, Sizes
    <2>3. CASE RecvTs(g)
        <3>1. \E o \in ReceiveOutcomes(g, TsLen) : Receives(TsLen, o)
            BY <2>3 DEF RecvTs, AfterTs, Recvs, Active, race
        <3> QED
            BY <3>1, Sizes
    <2> QED
        BY <2>1, <2>2, <2>3
<1>2. PICK o \in ReceiveOutcomes(g, len) : Receives(len, o)
    BY <1>1
<1>3. /\ Conn(g) \in Sensors \cup {NULL} /\ g \in 1..Len(accepted) /\ NULL \notin Sensors
      /\ hpc \in [Handlers -> Places] /\ piece \in [Handlers -> Readings]
      /\ readers \in [Sensors -> SUBSET Handlers]
      /\ \A c \in Sensors : ~From(Torn, c)
    <2>1. Conn(g) \in Sensors \cup {NULL} /\ g \in 1..Len(accepted)
        BY <1>2, ConnType DEF TInv
    <2>2. \A c \in Sensors : ~From(Torn, c)
        BY ConnmgrAssumption, Sizes DEF From, ConnmgrAssumption
    <2> QED
        BY <2>1, <2>2, ConnmgrAssumption DEF TInv, IInv, Typed, Bounded, ConnmgrAssumption
<1>4. \A c \in Sensors :
        /\ got'[c] = IF c = Conn(g) THEN got[c] + o.n ELSE got[c]
        /\ readers'[c] = IF c = Conn(g) THEN readers[c] \cup {g} ELSE readers[c]
    <2>1. \A c \in Sensors : got'[c] = IF c = Conn(g) THEN got[c] + o.n ELSE got[c]
        BY <1>2, ReceivedUnits
    <2>2. IF Conn(g) = NULL THEN UNCHANGED readers
                            ELSE readers' = [readers EXCEPT ![Conn(g)] = @ \cup {g}]
        BY <1>2 DEF Received
    <2>3. readers \in [Sensors -> SUBSET Handlers] /\ NULL \notin Sensors
        BY <1>3
    <2>4. \A c \in Sensors : readers'[c] = IF c = Conn(g) THEN readers[c] \cup {g} ELSE readers[c]
        BY <2>2, <2>3
    <2> QED
        BY <2>1, <2>4
<1>5. /\ \A h \in Handlers \ {g} : hpc'[h] = hpc[h] /\ piece'[h] = piece[h]
      /\ hpc'[g] \in Active /\ UNCHANGED accepted
      /\ piece'[g] \in {piece[g], Torn, <<Conn(g), o.p>>}
    <2>1. PICK q \in Active : hpc' = [hpc EXCEPT ![g] = q]
        BY <1>2
    <2>2. PICK r \in {piece[g], Torn, <<Conn(g), o.p>>} : piece' = [piece EXCEPT ![g] = r]
        BY <1>2
    <2> QED
        BY <1>2, <1>3, <2>1, <2>2
<1>6. \A c \in Sensors : \A h \in readers'[c] :
            h \in 1..Len(accepted') /\ hpc'[h] \in Active \cup {"ended"}
    <2> SUFFICES ASSUME NEW c \in Sensors, NEW h \in readers'[c]
                 PROVE  h \in 1..Len(accepted) /\ hpc'[h] \in Active \cup {"ended"}
        BY <1>5
    <2>1. h = g \/ h \in readers[c]
        BY <1>4
    <2>2. readers[c] \subseteq Handlers
        BY <1>3
    <2> QED
        BY <1>3, <1>5, <2>1, <2>2 DEF Paths
<1>7. \A c \in Sensors, h \in Handlers : From(piece'[h], c) => h \in readers'[c]
    <2> SUFFICES ASSUME NEW c \in Sensors, NEW h \in Handlers, From(piece'[h], c)
                 PROVE  h \in readers'[c]
        OBVIOUS
    <2>1. CASE piece'[h] = piece[h]
        BY <1>4, <2>1 DEF Paths
    <2>2. CASE h = g /\ piece'[h] = Torn
        BY <1>3, <2>2
    <2>3. CASE h = g /\ piece'[h] = <<Conn(g), o.p>>
        <3>1. PICK p \in 0..MaxUnits : <<Conn(g), o.p>> = <<c, p>>
            BY <2>3 DEF From
        <3>2. Conn(g) = c
            BY <3>1
        <3> QED
            BY <1>4, <2>3, <3>2
    <2> QED
        BY <1>5, <2>1, <2>2, <2>3
<1>8. \A c \in Sensors : readers'[c] = {} => got'[c] = 0
    BY <1>4 DEF Paths
<1>9. NotBack'
    BY NextNotBack DEF Paths
<1> QED
    BY <1>6, <1>7, <1>8, <1>9 DEF Paths, From

LEMMA NextPaths == TInv /\ Paths /\ [Next]_vars => Paths'
<1> SUFFICES ASSUME TInv, Paths, [Next]_vars PROVE Paths'
    OBVIOUS
<1>0. /\ hpc \in [Handlers -> Places]
      /\ \A h \in Handlers : hpc[h] # "none" => h <= conn_counter
      /\ conn_counter \in Nat
    BY ConnmgrAssumption DEF TInv, IInv, Typed, Control, ConnmgrAssumption
<1>1. CASE Environment \/ MakesSocket \/ JoinAll \/ AddEos \/ AcceptFail \/ UNCHANGED vars
    <2>1. UNCHANGED <<got, readers, piece, hpc>>
        BY <1>1 DEF Environment, Connect, SendField, Disconnect, MakesSocket, MakeSocket,
            JoinAll, AddEos, AcceptFail, handler, wire, vars
    <2> QED
        BY <2>1, QuietPaths
<1>2. ASSUME NEW c \in Sensors, Accept(c) PROVE Paths'
    <2>1. /\ UNCHANGED <<got, readers, piece>>
          /\ hpc' = [hpc EXCEPT ![conn_counter + 1] = "start"]
        BY <1>2 DEF Accept, wire
    <2>2. ASSUME NEW h \in Handlers, hpc[h] # "none" PROVE hpc'[h] = hpc[h]
        <3>1. h <= conn_counter /\ h \in Nat
            BY <1>0, <2>2, ConnmgrAssumption DEF Handlers, ConnmgrAssumption
        <3> QED
            BY <1>0, <2>1, <3>1
    <2>3. "none" \notin Active \cup {"ended"}
        BY DEF Active, Recvs
    <2> QED
        BY <2>1, <2>2, <2>3, QuietPaths
<1>3. ASSUME NEW g \in Handlers, HandlerStep(g) PROVE Paths'
    <2>1. CASE StartHandler(g) \/ BlockRecv(g) \/ InsertReading(g) \/ CloseClient(g)
        <3>1. /\ UNCHANGED <<got, readers, piece>>
              /\ \/ UNCHANGED hpc
                 \/ hpc[g] \in {"start", "insert"} /\ hpc' = [hpc EXCEPT ![g] = "recvId"]
                 \/ hpc' = [hpc EXCEPT ![g] = "ended"]
            BY <2>1 DEF StartHandler, BlockRecv, InsertReading, CloseClient, wire
        <3>2. "recvId" \in Active
            BY DEF Active, Recvs
        <3> QED
            BY <1>0, <3>1, <3>2, QuietPaths
    <2> QED
        BY <1>3, <2>1, RecvPaths DEF HandlerStep
<1> QED
    BY <1>1, <1>2, <1>3 DEF Next, MainStep, MakesSocket

-----------------------------------------------------------------------------
(* The account of a connection only its own handler has read.              *)

(* A connection that is undisturbed after a step was so before it.         *)
LEMMA UndisturbedBefore ==
    ASSUME TInv, Paths, [Next]_vars, NEW c \in Sensors, Undisturbed(c)'
    PROVE  Undisturbed(c)
<1>1. readers[c] \subseteq readers'[c]
    <2>1. CASE Environment \/ MainStep \/ AcceptFail \/ UNCHANGED vars
        BY <2>1 DEF Environment, MainStep, Connect, SendField, Disconnect, MakeSocket,
            Accept, JoinAll, AddEos, AcceptFail, vars
    <2>2. ASSUME NEW g \in Handlers, HandlerStep(g) PROVE readers[c] \subseteq readers'[c]
        <3>1. CASE StartHandler(g) \/ BlockRecv(g) \/ InsertReading(g) \/ CloseClient(g)
            BY <3>1 DEF StartHandler, BlockRecv, InsertReading, CloseClient
        <3>2. CASE RecvId(g) \/ RecvValue(g) \/ RecvTs(g)
            <4>1. \/ UNCHANGED readers
                  \/ \E d : readers' = [readers EXCEPT ![d] = @ \cup {g}]
                BY <3>2 DEF RecvId, RecvValue, RecvTs, Received
            <4> QED
                BY <4>1 DEF TInv, IInv, Typed
        <3> QED
            BY <2>2, <3>1, <3>2 DEF HandlerStep
    <2> QED
        BY <2>1, <2>2 DEF Next
<1>2. \A h \in readers[c] : h \in 1..Len(accepted) /\ accepted'[h] = accepted[h]
    BY AcceptedGrows DEF Paths
<1> QED
    BY <1>1, <1>2 DEF Undisturbed

(* The steps of others, and those of a handler that move no unit.          *)
LEMMA QuietExact ==
    ASSUME TInv, Paths, [Next]_vars, NEW c \in Sensors, Undisturbed(c), Exact(c),
           \/ Environment \/ MainStep \/ AcceptFail \/ UNCHANGED vars
           \/ \E g \in Handlers : StartHandler(g) \/ BlockRecv(g) \/ CloseClient(g)
    PROVE  Exact(c)'
<1>0. /\ hpc \in [Handlers -> Places] /\ 1..Len(accepted) \subseteq Handlers
      /\ accepted \in Seq(Sensors) /\ Len(accepted) = conn_counter
    BY AcceptedGrows DEF TInv, IInv, Typed
<1>1. CASE Environment \/ MakesSocket \/ JoinAll \/ AddEos \/ AcceptFail \/ UNCHANGED vars
    <2>1. /\ UNCHANGED <<lost, got, piece, accepted, hpc>>
          /\ UNCHANGED stream \/ stream' = Append(stream, EOS)
        BY <1>1 DEF Environment, Connect, SendField, Disconnect, MakesSocket, MakeSocket,
            JoinAll, AddEos, AcceptFail, handler, wire, race, vars
    <2> QED
        BY <2>1, ExactKept
<1>2. ASSUME NEW d \in Sensors, Accept(d) PROVE Exact(c)'
    <2>1. /\ UNCHANGED <<lost, got, piece, stream>> /\ accepted' = Append(accepted, d)
          /\ hpc' = [hpc EXCEPT ![Len(accepted) + 1] = "start"]
        BY <1>0, <1>2 DEF Accept, wire
    <2>2. /\ Len(accepted') = Len(accepted) + 1 /\ Len(accepted) \in Nat
          /\ \A h \in 1..Len(accepted) : accepted'[h] = accepted[h]
        BY <1>0, <2>1, AppendProperties
    <2>3. Len(accepted) + 1 \in Handlers /\ hpc[Len(accepted) + 1] \notin {"insert"}
        <3>1. Len(accepted) + 1 \in Handlers
            BY <1>0, <1>2, <2>2, ConnmgrAssumption
                DEF Accept, TInv, IInv, Control, Handlers, ConnmgrAssumption
        <3>2. ~(Len(accepted) + 1 <= conn_counter)
            BY <1>0, <2>2
        <3> QED
            BY <3>1, <3>2 DEF TInv, IInv, Control
    <2>4. \A h \in Handlers : (hpc'[h] = "insert" <=> hpc[h] = "insert")
        BY <1>0, <2>1, <2>3
    <2>5. ASSUME NEW h \in 1..Len(accepted'), accepted'[h] = c
          PROVE  \/ h \in 1..Len(accepted) /\ accepted[h] = c /\ hpc'[h] = hpc[h]
                 \/ hpc'[h] = "start"
        BY <1>0, <2>1, <2>2, <2>3, <2>5
    <2> QED
        BY <2>1, <2>4, <2>5, ExactKept
<1>3. ASSUME NEW g \in Handlers, StartHandler(g) \/ BlockRecv(g) \/ CloseClient(g)
      PROVE  Exact(c)'
    <2>1. /\ UNCHANGED <<lost, got, piece, stream, accepted>>
          /\ \/ UNCHANGED hpc
             \/ hpc[g] = "close" /\ hpc' = [hpc EXCEPT ![g] = "ended"]
             \/ hpc[g] = "start" /\ hpc' = [hpc EXCEPT ![g] = "recvId"]
        BY <1>3 DEF StartHandler, BlockRecv, CloseClient, wire, race
    <2>2. ASSUME g \in 1..Len(accepted), accepted[g] = c, hpc[g] = "start"
          PROVE  At(got[c], 0)
        <3>1. readers[c] = {}
            <4>1. \A h \in readers[c] : h = g
                BY <2>2, OwnHandler
            <4>2. g \notin readers[c]
                BY <2>2 DEF Paths, Active, Recvs
            <4> QED
                BY <4>1, <4>2
        <3>2. got[c] = 0 * RecLen + 0
            BY <3>1, Sizes DEF Paths
        <3> QED
            BY <3>2 DEF At
    <2>3. \A h \in Handlers : (hpc'[h] = "insert" <=> hpc[h] = "insert")
        BY <1>0, <2>1
    <2>4. ASSUME NEW h \in 1..Len(accepted'), accepted'[h] = c
          PROVE  \/ h \in 1..Len(accepted) /\ accepted[h] = c /\ hpc'[h] = hpc[h]
                 \/ hpc'[h] = "ended"
                 \/ hpc'[h] = "recvId" /\ At(got[c], 0)
        BY <1>0, <2>1, <2>2, <2>4
    <2> QED
        BY <2>1, <2>3, <2>4, ExactKept
<1> QED
    BY <1>1, <1>2, <1>3 DEF MainStep, MakesSocket

(* The reading of the handler of an undisturbed connection goes into the   *)
(* stream or is lost; that of any other handler is not of it.              *)
LEMMA InsertExact ==
    ASSUME TInv, Paths, [Next]_vars, NEW c \in Sensors, Undisturbed(c), Exact(c),
           NEW g \in Handlers, InsertReading(g)
    PROVE  Exact(c)'
<1>0. /\ hpc \in [Handlers -> Places] /\ 1..Len(accepted) \subseteq Handlers
      /\ piece \in [Handlers -> Readings] /\ lost[c] \in Nat /\ got[c] \in Nat
    BY AcceptedGrows DEF TInv, IInv, Typed, Bounded
<1>1. /\ UNCHANGED <<got, piece, accepted>>
      /\ hpc[g] = "insert" /\ hpc' = [hpc EXCEPT ![g] = "recvId"]
      /\ \/ stream' = Append(stream, piece[g]) /\ UNCHANGED lost
         \/ /\ lost' = [d \in Sensors |-> lost[d] + (IF From(piece[g], d) THEN 1 ELSE 0)]
            /\ UNCHANGED stream
    BY DEF InsertReading, Inserted, wire, race
<1>2. /\ hpc'[g] = "recvId" /\ \A h \in Handlers \ {g} : hpc'[h] = hpc[h]
      /\ piece[g] \in Readings \cup {EOS}
    BY <1>0, <1>1
<1>3. ASSUME NEW h \in 1..Len(accepted), accepted[h] = c, h # g
      PROVE  Progress(h, c)'
    <2>1. Progress(h, c)
        BY <1>3 DEF Exact
    <2>2. hpc'[h] = hpc[h]
        BY <1>0, <1>2, <1>3
    <2>3. CASE hpc[h] \in Active
        <3>1. Off(h, c) => Off(h, c)'
            BY <1>3, <2>3, OffStays
        <3> QED
            BY <1>1, <2>1, <2>2, <3>1, ProgressKept
    <2>4. CASE hpc[h] \notin Active
        BY <2>2, <2>4 DEF Progress, Active, Recvs
    <2> QED
        BY <2>3, <2>4
<1>4. CASE ~From(piece[g], c)
    <2>1. ASSUME g \in 1..Len(accepted), accepted[g] = c PROVE Progress(g, c)'
        <3>1. Off(g, c)
            BY <1>1, <1>4, <2>1 DEF Exact, Progress
        <3>2. Off(g, c)'
            BY <1>1, <2>1, <3>1, OffStays DEF Active
        <3> QED
            BY <1>2, <3>2 DEF Progress
    <2>2. /\ Delivered(c)' = Delivered(c) /\ \A i \in 1..Len(stream) : stream'[i] = stream[i]
        <3>1. CASE UNCHANGED stream
            BY <3>1 DEF Delivered
        <3>2. CASE stream' = Append(stream, piece[g])
            BY <1>2, <1>4, <3>2, DeliveredAppend
        <3> QED
            BY <1>1, <3>1, <3>2
    <2>3. \A i \in Delivered(c) : stream'[i] = stream[i] /\ stream[i][2] + RecLen \in Nat
        BY <2>2, DeliveredFrom
    <2>4. lost'[c] = lost[c]
        BY <1>0, <1>1, <1>4
    <2>5. \A h \in Handlers : (hpc'[h] = "insert" /\ From(piece'[h], c)
                                    <=> hpc[h] = "insert" /\ From(piece[h], c))
        BY <1>1, <1>2, <1>4
    <2>6. \A h \in Handlers : hpc'[h] = "insert" /\ From(piece'[h], c) => piece'[h] = piece[h]
        BY <1>1
    <2>7. got'[c] = got[c] /\ got[c] <= got'[c]
        BY <1>0, <1>1
    <2>8. Accounts(c)'
        BY <1>0, <2>2, <2>3, <2>4, <2>5, <2>6, <2>7, AccountsKept DEF Exact
    <2> QED
        BY <1>1, <1>3, <2>1, <2>8 DEF Exact
<1>5. CASE From(piece[g], c)
    <2>1. /\ g \in 1..Len(accepted) /\ accepted[g] = c
          /\ \A h \in 1..Len(accepted) : accepted[h] = c => h = g
          /\ \A h \in Handlers : From(piece[h], c) => h = g
        BY <1>5, OwnHandler
    <2>2. Progress(g, c) /\ Accounts(c)
        BY <2>1 DEF Exact
    <2>3. PICK k \in Nat : piece[g] = <<c, k * RecLen>> /\ got[c] = k * RecLen + RecLen
        BY <1>1, <1>5, <2>2 DEF Progress, Holds
    <2>4. k * RecLen \in Nat /\ (k + 1) * RecLen + 0 = k * RecLen + RecLen /\ k + 1 \in Nat
          /\ k * RecLen + 0 = k * RecLen
        BY Sizes
    <2>5. At(got[c], 0)' /\ At(k * RecLen, 0)
        BY <1>1, <2>3, <2>4 DEF At
    <2>6. Progress(g, c)'
        BY <1>2, <2>5 DEF Progress
    <2>7. InFlight(c) = 1 /\ InFlight(c)' = 0
        <3>1. {h \in Handlers : hpc[h] = "insert" /\ From(piece[h], c)} = {g}
            BY <1>1, <1>5, <2>1
        <3>2. {h \in Handlers : hpc'[h] = "insert" /\ From(piece'[h], c)} = {}
            BY <1>1, <1>2, <2>1
        <3> QED
            BY <3>1, <3>2, FS_Singleton, FS_EmptySet DEF InFlight
    <2>8. \A i \in Delivered(c) : /\ i \in 1..Len(stream)
                                  /\ At(stream[i][2], 0) /\ stream[i][2] + RecLen <= got[c]
                                  /\ stream[i][2] + RecLen <= k * RecLen
                                  /\ stream[i][2] \in Nat
        <3>1. piece[g][2] = k * RecLen
            BY <2>3
        <3>2. \A i \in Delivered(c) : stream[i][2] + RecLen <= piece[g][2]
            BY <1>1, <1>5, <2>2 DEF Accounts
        <3>3. \A i \in Delivered(c) : At(stream[i][2], 0) /\ stream[i][2] + RecLen <= got[c]
            BY <2>2 DEF Accounts
        <3> QED
            BY <3>1, <3>2, <3>3, DeliveredFrom
    <2>9. \A i, j \in Delivered(c) : i < j => stream[i][2] < stream[j][2]
        BY <2>2 DEF Accounts
    <2>10. /\ Cardinality(Delivered(c)) + lost[c] + InFlight(c) = got[c] \div RecLen
           /\ Cardinality(Delivered(c)) \in Nat
        BY <2>2, DeliveredFinite DEF Accounts
    <2>11. CASE /\ stream' = Append(stream, piece[g]) /\ UNCHANGED lost
        <3> DEFINE m == Len(stream) + 1
        <3>1. /\ \A i \in 1..Len(stream) : stream'[i] = stream[i]
              /\ stream'[m] = <<c, k * RecLen>> /\ Len(stream) \in Nat
              /\ Delivered(c)' = Delivered(c) \cup {m}
              /\ Cardinality(Delivered(c)') = Cardinality(Delivered(c)) + 1
            BY <1>2, <1>5, <2>3, <2>11, DeliveredAppend
        <3>2. stream'[m][2] = k * RecLen
            BY <3>1
        <3>3. ASSUME NEW i \in Delivered(c)'
              PROVE  At(stream'[i][2], 0) /\ stream'[i][2] + RecLen <= got[c]
            <4>1. CASE i = m
                BY <2>3, <2>4, <2>5, <3>2, <4>1, Sizes
            <4>2. CASE i \in Delivered(c)
                BY <2>8, <3>1, <4>2
            <4> QED
                BY <3>1, <4>1, <4>2
        <3>4. ASSUME NEW i \in Delivered(c)', NEW j \in Delivered(c)', i < j
              PROVE  stream'[i][2] < stream'[j][2]
            <4>1. i \in Delivered(c)
                BY <2>8, <3>1, <3>4
            <4>2. stream'[i] = stream[i]
                BY <2>8, <3>1, <4>1
            <4>3. CASE j = m
                BY <2>4, <2>8, <3>2, <4>1, <4>2, <4>3, Sizes
            <4>4. CASE j \in Delivered(c)
                <5>1. stream'[j] = stream[j]
                    BY <2>8, <3>1, <4>4
                <5> QED
                    BY <2>9, <3>4, <4>1, <4>2, <4>4, <5>1
            <4> QED
                BY <3>1, <4>3, <4>4
        <3>5. Cardinality(Delivered(c)') + lost'[c] + InFlight(c)' = got'[c] \div RecLen
            BY <1>0, <1>1, <2>7, <2>10, <2>11, <3>1
        <3> HIDE DEF m
        <3>6. Accounts(c)'
            BY <1>1, <1>2, <2>1, <3>3, <3>4, <3>5 DEF Accounts, At
        <3> QED
            BY <1>1, <1>3, <2>1, <2>6, <3>6 DEF Exact
    <2>12. CASE /\ lost' = [d \in Sensors |-> lost[d] + (IF From(piece[g], d) THEN 1 ELSE 0)]
                /\ UNCHANGED stream
        <3>1. lost'[c] = lost[c] + 1 /\ Delivered(c)' = Delivered(c)
            BY <1>5, <2>12 DEF Delivered
        <3>2. Cardinality(Delivered(c)') + lost'[c] + InFlight(c)' = got'[c] \div RecLen
            BY <1>0, <1>1, <2>7, <2>10, <3>1
        <3>3. Accounts(c)'
            BY <1>1, <1>2, <2>1, <2>8, <2>9, <2>12, <3>1, <3>2 DEF Accounts, At
        <3> QED
            BY <1>1, <1>3, <2>1, <2>6, <3>3 DEF Exact
    <2> QED
        BY <1>1, <2>11, <2>12
<1> QED
    BY <1>4, <1>5

(* A handler that receives from its own connection is still on it.         *)
LEMMA OwnOff ==
    ASSUME TInv, NEW h \in Handlers, NEW c \in Sensors, hpc[h] \in Recvs, Conn(h) = c
    PROVE  Off(h, c) <=> Ended(c)
<1>1. NULL \notin Sensors
    BY ConnmgrAssumption DEF ConnmgrAssumption
<1> QED
    BY <1>1 DEF Off, Conn

(* What the three receives of handler g have in common; the reading it is  *)
(* about to insert comes from the connection it received last from.        *)
Receiving(g, o) ==
    /\ hpc[g] \in Recvs /\ Received(g, o)
    /\ hpc'[g] \in {"recvValue", "recvTs", "insert", "close"}
    /\ \A h \in Handlers \ {g} : hpc'[h] = hpc[h] /\ piece'[h] = piece[h]
    /\ hpc'[g] = "insert" => piece'[g] = Torn \/ piece'[g][1] = Conn(g)
    /\ UNCHANGED <<accepted, heap, client, stream, lost>>

LEMMA ReceivedPiece ==
    ASSUME TInv, NEW g \in Handlers, RecvId(g) \/ RecvValue(g) \/ RecvTs(g)
    PROVE  \E len \in Nat \ {0} : \E o \in ReceiveOutcomes(g, len) : Receiving(g, o)
<1>0. hpc \in [Handlers -> Places] /\ piece \in [Handlers -> Readings]
    BY DEF TInv, IInv, Typed, Bounded
<1>1. CASE RecvId(g)
    <2>1. \E o \in ReceiveOutcomes(g, IdLen) : Receiving(g, o)
        BY <1>0, <1>1 DEF Receiving, RecvId, Recvs, race
    <2> QED
        BY <2>1, Sizes
<1>2. CASE RecvValue(g)
    <2>1. \E o \in ReceiveOutcomes(g, ValLen) : Receiving(g, o)
        BY <1>0, <1>2 DEF Receiving, RecvValue, Recvs, race
    <2> QED
        BY <2>1, Sizes
<1>3. CASE RecvTs(g)
    <2>1. \E o \in ReceiveOutcomes(g, TsLen) : Receiving(g, o)
        BY <1>0, <1>3 DEF Receiving, RecvTs, AfterTs, Continues, Recvs, race
    <2> QED
        BY <2>1, Sizes
<1> QED
    BY <1>1, <1>2, <1>3

(* A receive from another connection.                                      *)
LEMMA RecvElsewhere ==
    ASSUME TInv, Paths, [Next]_vars, NEW c \in Sensors, Undisturbed(c), Exact(c),
           NEW g \in Handlers, RecvId(g) \/ RecvValue(g) \/ RecvTs(g), Conn(g) # c
    PROVE  Exact(c)'
<1>0. PICK len \in Nat \ {0} : \E o \in ReceiveOutcomes(g, len) : Receiving(g, o)
    BY ReceivedPiece
<1>1. PICK o \in ReceiveOutcomes(g, len) : Receiving(g, o)
    BY <1>0
<1>2. /\ hpc[g] \in Recvs /\ Received(g, o)
      /\ hpc'[g] \in {"recvValue", "recvTs", "insert", "close"}
      /\ \A h \in Handlers \ {g} : hpc'[h] = hpc[h] /\ piece'[h] = piece[h]
      /\ hpc'[g] = "insert" => piece'[g] = Torn \/ piece'[g][1] = Conn(g)
      /\ UNCHANGED <<accepted, heap, client, stream, lost>>
    BY <1>1 DEF Receiving
<1>3. got'[c] = got[c] /\ got[c] \in Nat /\ 1..Len(accepted) \subseteq Handlers
    BY <1>2, ReceivedUnits, AcceptedGrows DEF TInv, IInv, Typed
<1>4. hpc'[g] = "insert" => ~From(piece'[g], c)
    <2>1. \A p \in 0..MaxUnits : <<c, p>> # Torn /\ <<c, p>>[1] = c
        BY ConnmgrAssumption, Sizes DEF ConnmgrAssumption
    <2> QED
        BY <1>2, <2>1 DEF From
<1>5. ASSUME NEW h \in 1..Len(accepted), accepted[h] = c PROVE Progress(h, c)'
    <2>1. Progress(h, c)
        BY <1>5 DEF Exact
    <2>2. CASE h # g
        <3>1. hpc'[h] = hpc[h] /\ piece'[h] = piece[h]
            BY <1>2, <1>3, <2>2
        <3>2. CASE hpc[h] \in Active
            <4>1. Off(h, c) => Off(h, c)'
                BY <1>5, <3>2, OffStays
            <4> QED
                BY <1>3, <2>1, <3>1, <4>1, ProgressKept
        <3>3. CASE hpc[h] \notin Active
            BY <3>1, <3>3 DEF Progress, Active, Recvs
        <3> QED
            BY <3>2, <3>3
    <2>3. CASE h = g
        <3>1. sockAt[client[g]] # c
            <4>1. CASE pending[g] = NULL
                BY <4>1 DEF Conn
            <4>2. CASE pending[g] # NULL
                BY <1>2, <1>5, <2>3, <4>2 DEF Paths, NotBack, Conn, Active
            <4> QED
                BY <4>1, <4>2
        <3>2. pending'[g] = NULL /\ NULL \notin Sensors
            BY <1>2, ConnmgrAssumption DEF Received, TInv, IInv, Typed, ConnmgrAssumption
        <3>3. Off(g, c)'
            BY <1>2, <3>1, <3>2 DEF Off, heap
        <3> QED
            BY <1>2, <1>4, <2>3, <3>3 DEF Progress
    <2> QED
        BY <2>2, <2>3
<1>6. Accounts(c)'
    <2>1. \A h \in Handlers : (hpc'[h] = "insert" /\ From(piece'[h], c)
                                    <=> hpc[h] = "insert" /\ From(piece[h], c))
        BY <1>2, <1>4 DEF Recvs
    <2>2. \A h \in Handlers : hpc'[h] = "insert" /\ From(piece'[h], c) => piece'[h] = piece[h]
        BY <1>2, <1>4
    <2>3. /\ Delivered(c)' = Delivered(c) /\ lost'[c] = lost[c] /\ got[c] <= got'[c]
          /\ \A i \in Delivered(c) : stream'[i] = stream[i] /\ stream[i][2] + RecLen \in Nat
        BY <1>2, <1>3, DeliveredFrom DEF Delivered
    <2> QED
        BY <1>3, <2>1, <2>2, <2>3, AccountsKept DEF Exact
<1> QED
    BY <1>2, <1>5, <1>6 DEF Exact

(* A receive from its own connection brings the handler of an undisturbed  *)
(* connection the whole of the field it waits for, or the end.             *)
LEMMA RecvOwn ==
    ASSUME ~PartialDelivery, TInv, Paths, [Next]_vars,
           NEW c \in Sensors, Undisturbed(c), Undisturbed(c)', Exact(c),
           NEW g \in Handlers, RecvId(g) \/ RecvValue(g) \/ RecvTs(g), Conn(g) = c
    PROVE  Exact(c)'
<1>1. /\ hpc[g] \in Recvs /\ g \in 1..Len(accepted) /\ UNCHANGED <<accepted, stream, lost>>
      /\ hpc \in [Handlers -> Places] /\ piece \in [Handlers -> Readings] /\ got[c] \in Nat
      /\ 1..Len(accepted) \subseteq Handlers
      /\ c # NULL /\ \A k \in Nat : <<c, k>> # Torn
    <2>1. hpc[g] \in Recvs /\ UNCHANGED <<accepted, stream, lost>>
        BY DEF RecvId, RecvValue, RecvTs, Recvs, race
    <2>2. g \in 1..Len(accepted)
        BY <2>1, ConnType DEF TInv
    <2>3. /\ hpc \in [Handlers -> Places] /\ piece \in [Handlers -> Readings] /\ got[c] \in Nat
          /\ 1..Len(accepted) \subseteq Handlers
        BY AcceptedGrows DEF TInv, IInv, Typed, Bounded
    <2>4. c # NULL /\ \A k \in Nat : <<c, k>> # Torn
        BY ConnmgrAssumption DEF ConnmgrAssumption
    <2> QED
        BY <2>1, <2>2, <2>3, <2>4
<1>2. /\ accepted[g] = c /\ \A h \in 1..Len(accepted) : accepted[h] = c => h = g
      /\ \A h \in Handlers : From(piece[h], c) => h = g
    <2>1. \E o : Received(g, o)
        BY DEF RecvId, RecvValue, RecvTs
    <2>2. readers' = [readers EXCEPT ![c] = @ \cup {g}]
        BY <1>1, <2>1 DEF Received
    <2>3. g \in readers'[c]
        BY <2>2 DEF TInv, IInv, Typed
    <2>4. accepted[g] = c
        BY <1>1, <2>3 DEF Undisturbed
    <2> QED
        BY <1>1, <2>4, OwnHandler
<1>3. /\ Progress(g, c) /\ Accounts(c) /\ (Off(g, c) <=> Ended(c))
    BY <1>1, <1>2, OwnOff DEF Exact
<1>4. Ended(c) => Ended(c)' /\ Off(g, c)'
    BY EndedForever DEF Off
<1>5. ASSUME NEW len \in Nat \ {0}, NEW o \in ReceiveOutcomes(g, len), Received(g, o)
      PROVE  /\ got'[c] = got[c] + o.n
             /\ Ended(c) => o.res # "ok" /\ o.n = 0
    <2>1. \A d \in Sensors : got'[d] = IF d = Conn(g) THEN got[d] + o.n ELSE got[d]
        BY <1>1, <1>5, ReceivedUnits
    <2>2. Ended(c) => o.res # "ok" /\ o.n = 0
        BY <1>1, <1>5, Outcomes DEF Ended
    <2> QED
        BY <2>1, <2>2
<1>6. ASSUME NEW q, hpc' = [hpc EXCEPT ![g] = q], NEW r, piece' = [piece EXCEPT ![g] = r]
      PROVE  /\ hpc'[g] = q /\ piece'[g] = r
             /\ \A h \in Handlers \ {g} : hpc'[h] = hpc[h] /\ piece'[h] = piece[h]
    BY <1>1, <1>6
<1>7. ASSUME Progress(g, c)', Accounts(c)' PROVE Exact(c)'
    BY <1>1, <1>2, <1>7 DEF Exact
<1>8. ASSUME \A h \in Handlers \ {g} : hpc'[h] = hpc[h] /\ piece'[h] = piece[h],
             hpc'[g] # "insert", got[c] <= got'[c], got'[c] \in Nat,
             got'[c] \div RecLen = got[c] \div RecLen
      PROVE  Accounts(c)'
    <2>1. \A h \in Handlers : ~(hpc[h] = "insert" /\ From(piece[h], c))
        BY <1>1, <1>2 DEF Recvs
    <2>2. \A h \in Handlers : ~(hpc'[h] = "insert" /\ From(piece'[h], c))
        BY <1>8, <2>1
    <2>3. /\ Delivered(c)' = Delivered(c) /\ lost'[c] = lost[c]
          /\ \A i \in Delivered(c) : stream'[i] = stream[i] /\ stream[i][2] + RecLen \in Nat
        BY <1>1, DeliveredFrom DEF Delivered
    <2> QED
        BY <1>1, <1>3, <1>8, <2>1, <2>2, <2>3, AccountsKept
<1>9. CASE RecvId(g)
    <2>1. PICK o \in ReceiveOutcomes(g, IdLen) :
            /\ Received(g, o)
            /\ piece' = [piece EXCEPT ![g] =
                IF o.res = "ok" /\ o.n = IdLen /\ o.p % RecLen = 0
                THEN <<Conn(g), o.p>> ELSE Torn]
        BY <1>9 DEF RecvId
    <2>2. /\ hpc' = [hpc EXCEPT ![g] = "recvValue"] /\ hpc[g] = "recvId"
          /\ hpc'[g] = "recvValue"
          /\ \A h \in Handlers \ {g} : hpc'[h] = hpc[h] /\ piece'[h] = piece[h]
        BY <1>1, <1>9, <2>1 DEF RecvId
    <2>3. got'[c] = got[c] + o.n /\ (Ended(c) => o.res # "ok" /\ o.n = 0)
        BY <1>5, <2>1, Sizes
    <2>4. CASE Ended(c)
        <3>1. Progress(g, c)'
            BY <1>4, <2>2, <2>4 DEF Progress
        <3>2. got'[c] = got[c]
            BY <1>1, <2>3, <2>4
        <3> QED
            BY <1>1, <1>7, <1>8, <2>2, <3>1, <3>2
    <2>5. CASE ~Ended(c)
        <3>1. At(got[c], 0)
            BY <1>3, <2>2, <2>5 DEF Progress
        <3>2. FieldLen(got[c]) = IdLen /\ Boundary(got[c]) /\ got[c] % RecLen = 0
            BY <1>1, <3>1, FieldAt DEF Boundary
        <3>3. o.res = "ok" /\ o.n = IdLen /\ o.p = got[c]
            BY <1>1, <2>5, <3>2, WholeOutcome
        <3>4. PICK k \in Nat : got[c] = k * RecLen + 0
            BY <3>1 DEF At
        <3>5. /\ k * RecLen \in Nat /\ got[c] = k * RecLen /\ got'[c] = k * RecLen + IdLen
            BY <2>3, <3>3, <3>4, Sizes
        <3>6. piece'[g] = <<c, k * RecLen>>
            BY <1>1, <2>1, <3>2, <3>3, <3>5
        <3>7. Progress(g, c)'
            BY <2>2, <3>5, <3>6 DEF Progress, Holds
        <3>8. got[c] \div RecLen = k /\ got'[c] \div RecLen = k
            <4>1. IdLen \in 0..RecLen - 1 /\ 0 \in 0..RecLen - 1
                BY Sizes
            <4>2. RecLen \in Nat \ {0}
                BY Sizes
            <4> QED
                BY <3>4, <3>5, <4>1, <4>2, Quotient
        <3>9. got[c] <= got'[c] /\ got'[c] \in Nat
            BY <3>5, Sizes
        <3> QED
            BY <1>7, <1>8, <2>2, <3>7, <3>8, <3>9
    <2> QED
        BY <2>4, <2>5
<1>10. CASE RecvValue(g)
    <2>1. PICK o \in ReceiveOutcomes(g, ValLen) :
            /\ Received(g, o)
            /\ piece' = [piece EXCEPT ![g] =
                IF Continues(g, o, ValLen, IdLen) THEN @ ELSE Torn]
        BY <1>10 DEF RecvValue
    <2>2. /\ hpc' = [hpc EXCEPT ![g] = "recvTs"] /\ hpc[g] = "recvValue"
          /\ hpc'[g] = "recvTs"
          /\ \A h \in Handlers \ {g} : hpc'[h] = hpc[h] /\ piece'[h] = piece[h]
        BY <1>1, <1>10, <2>1 DEF RecvValue
    <2>3. got'[c] = got[c] + o.n /\ (Ended(c) => o.res # "ok" /\ o.n = 0)
        BY <1>5, <2>1, Sizes
    <2>4. CASE Ended(c)
        <3>1. Progress(g, c)'
            BY <1>4, <2>2, <2>4 DEF Progress
        <3>2. got'[c] = got[c]
            BY <1>1, <2>3, <2>4
        <3> QED
            BY <1>1, <1>7, <1>8, <2>2, <3>1, <3>2
    <2>5. CASE ~Ended(c)
        <3>1. PICK k \in Nat : piece[g] = <<c, k * RecLen>> /\ got[c] = k * RecLen + IdLen
            BY <1>3, <2>2, <2>5 DEF Progress, Holds
        <3>2. FieldLen(got[c]) = ValLen /\ Boundary(got[c])
            BY <1>1, <3>1, FieldAt DEF At, Boundary
        <3>3. o.res = "ok" /\ o.n = ValLen /\ o.p = got[c]
            BY <1>1, <2>5, <3>2, WholeOutcome
        <3>4. /\ k * RecLen \in Nat /\ got'[c] = k * RecLen + (IdLen + ValLen)
            BY <2>3, <3>1, <3>3, Sizes
        <3>5. Continues(g, o, ValLen, IdLen)
            BY <1>1, <3>1, <3>3, <3>4 DEF Continues
        <3>6. piece'[g] = <<c, k * RecLen>>
            BY <1>1, <2>1, <3>1, <3>5
        <3>7. Progress(g, c)'
            BY <2>2, <3>4, <3>6 DEF Progress, Holds
        <3>8. got[c] \div RecLen = k /\ got'[c] \div RecLen = k
            <4>1. IdLen + ValLen \in 0..RecLen - 1 /\ IdLen \in 0..RecLen - 1
                BY Sizes
            <4>2. RecLen \in Nat \ {0}
                BY Sizes
            <4> QED
                BY <3>1, <3>4, <4>1, <4>2, Quotient
        <3>9. got[c] <= got'[c] /\ got'[c] \in Nat
            BY <3>1, <3>4, Sizes
        <3> QED
            BY <1>7, <1>8, <2>2, <3>7, <3>8, <3>9
    <2> QED
        BY <2>4, <2>5
<1>11. CASE RecvTs(g)
    <2>1. PICK o \in ReceiveOutcomes(g, TsLen) :
            /\ Received(g, o)
            /\ piece' = [piece EXCEPT ![g] =
                IF Continues(g, o, TsLen, IdLen + ValLen) THEN @ ELSE Torn]
            /\ hpc' = [hpc EXCEPT ![g] = AfterTs(o)]
        BY <1>11 DEF RecvTs
    <2>2. /\ hpc'[g] = AfterTs(o) /\ hpc[g] = "recvTs"
          /\ \A h \in Handlers \ {g} : hpc'[h] = hpc[h] /\ piece'[h] = piece[h]
        BY <1>1, <1>11, <2>1 DEF RecvTs
    <2>3. got'[c] = got[c] + o.n /\ (Ended(c) => o.res # "ok" /\ o.n = 0)
        BY <1>5, <2>1, Sizes
    <2>4. CASE Ended(c)
        <3>1. hpc'[g] = "close"
            BY <2>2, <2>3, <2>4 DEF AfterTs
        <3>2. Progress(g, c)'
            BY <3>1 DEF Progress
        <3>3. got'[c] = got[c]
            BY <1>1, <2>3, <2>4
        <3> QED
            BY <1>1, <1>7, <1>8, <2>2, <3>1, <3>2, <3>3
    <2>5. CASE ~Ended(c)
        <3>1. PICK k \in Nat : /\ piece[g] = <<c, k * RecLen>>
                               /\ got[c] = k * RecLen + (IdLen + ValLen)
            BY <1>3, <2>2, <2>5 DEF Progress, Holds
        <3>2. FieldLen(got[c]) = TsLen /\ Boundary(got[c])
            BY <1>1, <3>1, FieldAt DEF At, Boundary
        <3>3. o.res = "ok" /\ o.n = TsLen /\ o.p = got[c]
            BY <1>1, <2>5, <3>2, WholeOutcome
        <3>4. /\ k * RecLen \in Nat /\ got'[c] = k * RecLen + RecLen
              /\ got'[c] = (k + 1) * RecLen + 0
            BY <2>3, <3>1, <3>3, Sizes
        <3>5. Continues(g, o, TsLen, IdLen + ValLen)
            BY <1>1, <3>1, <3>3, <3>4, Sizes DEF Continues
        <3>6. piece'[g] = <<c, k * RecLen>>
            BY <1>1, <2>1, <3>1, <3>5
        <3>7. hpc'[g] = "insert"
            BY <2>2, <3>3 DEF AfterTs
        <3>8. From(piece'[g], c)
            <4>1. <<c, k * RecLen>> \in Readings /\ <<c, k * RecLen>> # Torn
                BY <1>1, <3>1, <3>4
            <4>2. k * RecLen \in 0..MaxUnits
                BY <4>1 DEF Readings
            <4> QED
                BY <3>6, <4>2 DEF From
        <3>9. Progress(g, c)'
            BY <3>4, <3>6, <3>7, <3>8 DEF Progress, Holds, From
        <3>10. got[c] \div RecLen = k /\ got'[c] \div RecLen = k + 1
            <4>1. IdLen + ValLen \in 0..RecLen - 1 /\ 0 \in 0..RecLen - 1 /\ k + 1 \in Nat
                BY Sizes
            <4> QED
                BY <3>1, <3>4, <4>1, Quotient, Sizes
        <3>11. InFlight(c) = 0 /\ InFlight(c)' = 1
            <4>1. {h \in Handlers : hpc[h] = "insert" /\ From(piece[h], c)} = {}
                BY <1>2, <2>2
            <4>2. {h \in Handlers : hpc'[h] = "insert" /\ From(piece'[h], c)} = {g}
                BY <1>2, <2>2, <3>7, <3>8
            <4> QED
                BY <4>1, <4>2, FS_Singleton, FS_EmptySet DEF InFlight
        <3>12. ASSUME NEW i \in Delivered(c)
               PROVE  /\ At(stream[i][2], 0) /\ stream[i][2] + RecLen <= k * RecLen
                      /\ stream[i][2] + RecLen <= got'[c]
            <4>1. /\ At(stream[i][2], 0) /\ stream[i][2] + RecLen <= got[c]
                  /\ stream[i][2] \in Nat
                BY <1>3, DeliveredFrom DEF Accounts
            <4>2. PICK j \in Nat : stream[i][2] = j * RecLen + 0
                BY <4>1 DEF At
            <4>3. stream[i][2] = j * RecLen /\ IdLen + ValLen \in 0..RecLen - 1
                BY <4>1, <4>2, Sizes
            <4>4. j * RecLen + RecLen <= k * RecLen
                BY <3>1, <4>1, <4>3, RecordBefore, Sizes
            <4> QED
                BY <3>4, <4>1, <4>3, <4>4, Sizes
        <3>13. Delivered(c)' = Delivered(c) /\ UNCHANGED <<stream, lost>>
            BY <1>1 DEF Delivered
        <3>14. Cardinality(Delivered(c)) + lost[c] + InFlight(c)' = got'[c] \div RecLen
            <4>1. /\ Cardinality(Delivered(c)) + lost[c] + InFlight(c) = got[c] \div RecLen
                  /\ Cardinality(Delivered(c)) \in Nat /\ lost[c] \in Nat
                BY <1>3, DeliveredFinite DEF Accounts, TInv, Bounded
            <4> QED
                BY <3>10, <3>11, <4>1
        <3>15. \A h \in Handlers : hpc'[h] = "insert" /\ From(piece'[h], c) =>
                    \A i \in Delivered(c) : stream[i][2] + RecLen <= piece'[h][2]
            <4>1. \A h \in Handlers : hpc'[h] = "insert" /\ From(piece'[h], c) => h = g
                BY <1>2, <2>2
            <4>2. piece'[g][2] = k * RecLen
                BY <3>6
            <4> QED
                BY <3>12, <4>1, <4>2
        <3>16. \A i, j \in Delivered(c) : i < j => stream[i][2] < stream[j][2]
            BY <1>3 DEF Accounts
        <3>17. Accounts(c)'
            BY <3>12, <3>13, <3>14, <3>15, <3>16 DEF Accounts, At
        <3> QED
            BY <1>7, <3>9, <3>17
    <2> QED
        BY <2>4, <2>5
<1> QED
    BY <1>9, <1>10, <1>11

(* Every step keeps the account of every connection that stays undisturbed.*)
LEMMA NextXInv == ~PartialDelivery => (XInv /\ [Next]_vars => XInv')
<1> SUFFICES ASSUME ~PartialDelivery, XInv, [Next]_vars PROVE XInv'
    OBVIOUS
<1>1. TInv' /\ Paths' /\ TInv /\ Paths
    BY NextTInv, NextPaths DEF XInv
<1>2. ASSUME NEW c \in Sensors, Undisturbed(c)' PROVE Exact(c)'
    <2>1. Undisturbed(c) /\ Exact(c)
        BY <1>1, <1>2, UndisturbedBefore DEF XInv
    <2>2. CASE \/ Environment \/ MainStep \/ AcceptFail \/ UNCHANGED vars
               \/ \E g \in Handlers : StartHandler(g) \/ BlockRecv(g) \/ CloseClient(g)
        BY <1>1, <2>1, <2>2, QuietExact
    <2>3. ASSUME NEW g \in Handlers, InsertReading(g) PROVE Exact(c)'
        BY <1>1, <2>1, <2>3, InsertExact
    <2>4. ASSUME NEW g \in Handlers, RecvId(g) \/ RecvValue(g) \/ RecvTs(g) PROVE Exact(c)'
        <3>1. CASE Conn(g) = c
            BY <1>1, <1>2, <2>1, <2>4, <3>1, RecvOwn
        <3>2. CASE Conn(g) # c
            BY <1>1, <2>1, <2>4, <3>2, RecvElsewhere
        <3> QED
            BY <3>1, <3>2
    <2> QED
        BY <2>2, <2>3, <2>4 DEF Next, HandlerStep
<1> QED
    BY <1>1, <1>2 DEF XInv

LEMMA InitXInv == Init => XInv
<1> SUFFICES ASSUME Init PROVE XInv
    OBVIOUS
<1>1. /\ TInv /\ stream = << >> /\ accepted = << >> /\ Len(accepted) = 0 /\ Len(stream) = 0
      /\ \A c \in Sensors : got[c] = 0 /\ lost[c] = 0 /\ readers[c] = {}
      /\ \A h \in Handlers : piece[h] = Torn /\ hpc[h] = "none"
    BY InitTInv DEF Init
<1>2. \A c \in Sensors : ~From(Torn, c) /\ c # NULL
    BY ConnmgrAssumption, Sizes DEF From, ConnmgrAssumption
<1>3. Paths
    BY <1>1, <1>2 DEF Paths, NotBack
<1>4. ASSUME NEW c \in Sensors PROVE Exact(c)
    <2>1. Delivered(c) = {}
        BY <1>1 DEF Delivered
    <2>2. {h \in Handlers : hpc[h] = "insert" /\ From(piece[h], c)} = {}
        BY <1>1
    <2>3. Cardinality(Delivered(c)) = 0 /\ InFlight(c) = 0
        BY <2>1, <2>2, FS_EmptySet DEF InFlight
    <2>4. got[c] \div RecLen = 0
        BY <1>1, Sizes
    <2>5. Accounts(c)
        BY <1>1, <2>1, <2>3, <2>4 DEF Accounts
    <2> QED
        BY <1>1, <2>5 DEF Exact
<1> QED
    BY <1>1, <1>3, <1>4 DEF XInv

THEOREM AccountsInductive == ~PartialDelivery => (Safety => []XInv)
<1> SUFFICES ASSUME ~PartialDelivery PROVE Safety => []XInv
    OBVIOUS
<1> QED
    BY InitXInv, NextXInv, PTL DEF Safety

(* connmgr.c:82-104: a connection that only the handler made for it has    *)
(* read delivers whole records in the order they were sent, each of them   *)
(* once, whatever handlers of other connections, sharing or not, and       *)
(* however addresses of closed sockets are handed out again.               *)
THEOREM ExclusiveCorrect == ~PartialDelivery => (Safety => []ExclusiveExact)
<1> SUFFICES ASSUME ~PartialDelivery PROVE Safety => []ExclusiveExact
    OBVIOUS
<1>1. XInv => ExclusiveExact
    <2> SUFFICES ASSUME XInv, NEW c \in Sensors, Undisturbed(c)
                 PROVE  /\ \A i \in Delivered(c) : stream[i][2] % RecLen = 0
                        /\ \A i, j \in Delivered(c) : i < j => stream[i][2] < stream[j][2]
                        /\ Cardinality(Delivered(c)) + lost[c] + InFlight(c)
                                = got[c] \div RecLen
        BY DEF ExclusiveExact
    <2>1. Accounts(c)
        BY DEF XInv, Exact
    <2>2. \A i \in Delivered(c) : stream[i][2] % RecLen = 0
        BY <2>1, DeliveredFrom, FieldAt DEF Accounts
    <2> QED
        BY <2>1, <2>2 DEF Accounts
<1> QED
    BY <1>1, AccountsInductive, PTL
================================================================================
