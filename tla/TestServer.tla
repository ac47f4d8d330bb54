----------------------------- MODULE TestServer -----------------------------
(***************************************************************************)
(* The test servers of the sensors and the socket library under them: the  *)
(* one of plab3/test_server.c, with a detached thread for each client, and *)
(* the sequential one it grew from, in lecture9plab3startcode and          *)
(* lecture10plab3libs, where main serves one client after the other.  The  *)
(* four copies of lib/tcpsock.c are the same.  A field is received whole;  *)
(* Connmgr has what happens when it is not.                                *)
(***************************************************************************)
EXTENDS Naturals, FiniteSets

CONSTANTS Client,
          MAX_CONN,
          MaxFields      \* bound: the fields a sensor sends, three a record

VARIABLES
    kind,         \* rigid: threads or sequential
    main,         \* open, accept, serve (sequential), close, returned or exited
    conn_counter,
    peer,         \* the sensors: none, connected, closed or reset
    sent, read,   \* the fields of a sensor that arrive, and those received
    handler,      \* none, or the field that comes next, or end
    result,       \* of the handler's last tcp_receive
    printed,      \* the records printed for a sensor
    open          \* the descriptors that are open in the server

vars == <<kind, main, conn_counter, peer, sent, read, handler, result, printed, open>>
sensors == <<peer, sent>>
serving == <<read, handler, result, printed>>

Init ==
    /\ kind \in {"threads", "sequential"}
    /\ main = "open"
    /\ conn_counter = 0
    /\ peer = [c \in Client |-> "none"]
    /\ sent = [c \in Client |-> 0]
    /\ read = [c \in Client |-> 0]
    /\ handler = [c \in Client |-> "none"]
    /\ result = [c \in Client |-> "NO_ERROR"]
    /\ printed = [c \in Client |-> 0]
    /\ open = {}

Alive == main \notin {"returned", "exited"}

-----------------------------------------------------------------------------
(* The sensors: sensor_node.c.                                             *)

tcp_active_open(c) ==
    /\ peer[c] = "none" /\ "server" \in open
    /\ peer' = [peer EXCEPT ![c] = "connected"]
    /\ UNCHANGED <<kind, main, conn_counter, sent, open, serving>>

tcp_send(c) ==
    /\ peer[c] = "connected" /\ sent[c] < MaxFields
    /\ sent' = [sent EXCEPT ![c] = @ + 1]
    /\ UNCHANGED <<kind, main, conn_counter, peer, open, serving>>

(* The end of the loop, a kill, or a fault of the machine or the network,  *)
(* after which any part of what was not received yet is lost.              *)
Disconnect(c) ==
    /\ peer[c] = "connected"
    /\ \/ peer' = [peer EXCEPT ![c] = "closed"] /\ UNCHANGED sent
       \/ /\ peer' = [peer EXCEPT ![c] = "reset"]
          /\ \E n \in read[c]..sent[c] : sent' = [sent EXCEPT ![c] = n]
    /\ UNCHANGED <<kind, main, conn_counter, serving, open>>

-----------------------------------------------------------------------------
(* main                                                                    *)

tcp_passive_open ==
    /\ main = "open"
    /\ \/ main' = "accept" /\ open' = {"server"}
       \/ main' = "exited" /\ UNCHANGED open
    /\ UNCHANGED <<kind, conn_counter, sensors, serving>>

(* tcp_wait_for_connection, then the thread or the loop of main.  Without  *)
(* a free descriptor, or without memory, the server exits.                 *)
Accept(c) ==
    /\ main = "accept"
    /\ peer[c] # "none" /\ handler[c] = "none"
    /\ open' = open \cup {c}
    /\ handler' = [handler EXCEPT ![c] = "id"]
    /\ conn_counter' = conn_counter + 1
    /\ main' = IF kind = "sequential" THEN "serve"
               ELSE IF conn_counter' < MAX_CONN THEN "accept" ELSE "close"
    /\ UNCHANGED <<kind, sensors, read, result, printed>>

AcceptFails ==
    /\ main = "accept"
    /\ \E c \in Client : peer[c] # "none" /\ handler[c] = "none"
    /\ main' = "exited"
    /\ UNCHANGED <<kind, conn_counter, sensors, serving, open>>

(* main goes back to accept, or closes the server and returns; the threads *)
(* that are still running end with it.                                     *)
CloseServer ==
    /\ main = "close"
    /\ open' = open \ {"server"}
    /\ main' = "returned"
    /\ UNCHANGED <<kind, conn_counter, sensors, serving>>

-----------------------------------------------------------------------------
(* The loop over the records of a client.                                  *)

(* What the recv of tcp_receive finds.  A reset is told once.              *)
Outcome(c) ==
    CASE read[c] < sent[c] -> {"NO_ERROR"}
      [] read[c] = sent[c] /\ peer[c] = "closed" -> {"CLOSED"}
      [] read[c] = sent[c] /\ peer[c] = "reset" -> {"ERROR", "CLOSED"}
      [] OTHER -> {}

tcp_receive(c) ==
    /\ result' \in {[result EXCEPT ![c] = r] : r \in Outcome(c)}
    /\ read' = IF result'[c] = "NO_ERROR" THEN [read EXCEPT ![c] = @ + 1] ELSE read

(* Neither the id nor the temperature is asked for its result.             *)
ReceiveValue(c) ==
    /\ Alive /\ handler[c] \in {"id", "value"}
    /\ tcp_receive(c)
    /\ handler' = [handler EXCEPT ![c] = IF @ = "id" THEN "value" ELSE "ts"]
    /\ UNCHANGED <<kind, main, conn_counter, sensors, printed, open>>

(* Fault: the record is printed before the result is looked at.            *)
AlwaysWhole(r) == TRUE

Whole(r) == r = "NO_ERROR"

ReceiveTs(c) ==
    /\ Alive /\ handler[c] = "ts"
    /\ tcp_receive(c)
    /\ printed' = IF Whole(result'[c]) THEN [printed EXCEPT ![c] = @ + 1] ELSE printed
    /\ handler' = [handler EXCEPT ![c] = IF result'[c] = "NO_ERROR" THEN "id" ELSE "close"]
    /\ UNCHANGED <<kind, main, conn_counter, sensors, open>>

(* shutdown fails after a reset, and then the descriptor stays open.       *)
Closed(c) == IF peer[c] = "reset" THEN {} ELSE {c}

tcp_close(c) ==
    /\ Alive /\ handler[c] = "close"
    /\ open' = open \ Closed(c)
    /\ handler' = [handler EXCEPT ![c] = "end"]
    /\ main' = IF kind = "threads" THEN main
               ELSE IF conn_counter < MAX_CONN THEN "accept" ELSE "close"
    /\ UNCHANGED <<kind, conn_counter, sensors, read, result, printed>>

-----------------------------------------------------------------------------
Sensor == \E c \in Client : tcp_active_open(c) \/ tcp_send(c) \/ Disconnect(c)
Main   == tcp_passive_open \/ (\E c \in Client : Accept(c)) \/ AcceptFails \/ CloseServer
Handler(c) == ReceiveValue(c) \/ ReceiveTs(c) \/ tcp_close(c)

Next == Sensor \/ Main \/ \E c \in Client : Handler(c)

Spec == Init /\ [][Next]_vars /\ WF_vars(Main) /\ \A c \in Client : WF_vars(Handler(c))
-----------------------------------------------------------------------------
(* Types of every variable.                                                *)
TypeOK ==
    /\ kind \in {"threads", "sequential"}
    /\ main \in {"open", "accept", "serve", "close", "returned", "exited"}
    /\ conn_counter \in 0..MAX_CONN
    /\ peer \in [Client -> {"none", "connected", "closed", "reset"}]
    /\ sent \in [Client -> 0..MaxFields] /\ read \in [Client -> 0..MaxFields]
    /\ handler \in [Client -> {"none", "id", "value", "ts", "close", "end"}]
    /\ result \in [Client -> {"NO_ERROR", "CLOSED", "ERROR"}]
    /\ printed \in [Client -> Nat]
    /\ open \subseteq Client \cup {"server"}

(* Only whole records are printed, and a handler that comes to its end has *)
(* printed every record that arrived whole and closed the connection of a  *)
(* sensor that closed it; no more than MAX_CONN clients are served, one at *)
(* a time by the sequential server, which has come to the end with all of  *)
(* them when it returns.                                                   *)
ServersKeepAccounts ==
    LET served == {c \in Client : handler[c] # "none"}
    IN  /\ \A c \in served : handler[c] = "end" =>
              printed[c] = sent[c] \div 3 /\ (peer[c] = "closed" => c \notin open)
        /\ Cardinality(served) = conn_counter
        /\ kind = "sequential" =>
              Cardinality({c \in served : handler[c] # "end"}) <= 1
        /\ \A c \in Client : 3 * printed[c] <= read[c]
        /\ (kind = "sequential" /\ main = "returned") =>
              conn_counter = MAX_CONN /\ \A c \in served : handler[c] = "end"

(* tcpsock.h:53, "The socket '*socket' is closed , allocated resources are *)
(* freed": the descriptor of a client is not open when its handler has     *)
(* called tcp_close.                                                       *)
SocketsAreClosed == \A c \in Client : handler[c] = "end" => c \notin open

(* test_server.c:13, "Implements a sequential test server (only one        *)
(* connection at the same time)".                                          *)
OneConnectionAtATime ==
    Cardinality({c \in Client : handler[c] \notin {"none", "end"}}) <= 1
=============================================================================
