------------------------------ MODULE MCClaims ------------------------------
(***************************************************************************)
(* What headers, comments and an assert of the repository say, and the     *)
(* code does not do.  A claim is named for its line and stated in the      *)
(* module of its program.  The programs run one after the other, each      *)
(* until all its claims are contradicted: as only one of them runs they    *)
(* share the variables v1 to v20, of which each uses the first.  So the    *)
(* behaviour in which no claim is left contradicts every one of them.      *)
(***************************************************************************)
EXTENDS Integers, Sequences

CONSTANTS NULL, EOS, Torn, n1, o1

VARIABLES program, v1, v2, v3, v4, v5, v6, v7, v8, v9, v10, v11, v12, v13, v14, v15, v16,
          v17, v18, v19, v20,
          standing      \* history: the claims no step has contradicted yet

Sbuffer == INSTANCE Sbuffer WITH
    Writers <- {"writer"}, Items <- {"reading"}, Nodes <- {1}, MaxCalls <- 1, MaxSpurious <- 0,
    head <- v1, tail <- v2, next <- v3, data <- v4, allocated <- v5, peekDone <- v6,
    mutex <- v7, pc <- v8, fresh <- v9, dummy <- v10, calls <- v11, spurious <- v12,
    queue <- v13, inserted <- v14, peeked <- v15, removed <- v16
Connmgr == INSTANCE Connmgr WITH
    Sensors <- {"sensor"}, Addrs <- {"address"}, MAX_CONN <- 1, IdLen <- 1, ValLen <- 1,
    TsLen <- 1, MaxRecords <- 1, MaxTotal <- 3, PartialDelivery <- FALSE,
    link <- v1, sent <- v2, got <- v3, mpc <- v4, conn_counter <- v5, argClient <- v6,
    fresh <- v7, allocated <- v8, sockAt <- v9, hpc <- v10, client <- v11, pending <- v12,
    piece <- v13, closeLogged <- v14, stream <- v15, lost <- v16, readers <- v17,
    accepted <- v18, raced <- v19, running <- v20
Server == INSTANCE TestServer WITH
    Client <- {"client1", "client2"}, MAX_CONN <- 2, MaxFields <- 3,
    kind <- v1, main <- v2, conn_counter <- v3, peer <- v4, sent <- v5, read <- v6,
    handler <- v7, result <- v8, printed <- v9, open <- v10
Dplist == INSTANCE Dplist WITH
    Nodes <- {n1}, Objs <- {o1}, Keys <- {1}, Indexes <- {0, 1}, CarefulCallers <- FALSE,
    exists <- v1, head <- v2, heap <- v3, key <- v4, mine <- v5, spoilt <- v6, contents <- v7
Lists == INSTANCE ListExercises WITH
    MaxNodes <- 3, Element <- {1, 2}, Index <- {-1, 0, 9}, CarefulCallers <- FALSE,
    kind <- v1, exists <- v2, head <- v3, tail <- v4, heap <- v5, contents <- v6,
    crash <- v7, done <- v8
Lookup == INSTANCE FileDatamgr WITH
    Id <- {1, 2}, RUN_AVG_LENGTH <- 2, MaxLines <- 2, MaxReadings <- 2,
    version <- v1, pc <- v2, sensorList <- v3, arrived <- v4, answer <- v5
Datamgr == INSTANCE Datamgr WITH
    SensorIds <- {15}, RoomIds <- {1}, Temps <- {5}, Times <- {7}, RUN_AVG_LENGTH <- 2,
    SET_MIN_TEMP <- 3, SET_MAX_TEMP <- 8, MaxLines <- 1, MaxReadings <- 2,
    pc <- v1, sensorList <- v2, lastId <- v3, verdict <- v4, arrived <- v5, lastTime <- v6

vs == <<v1, v2, v3, v4, v5, v6, v7, v8, v9, v10, v11, v12, v13, v14, v15, v16, v17, v18,
        v19, v20>>
-----------------------------------------------------------------------------
(* The programs in their order, and the claims about each.                 *)
Order == <<"sbuffer", "connmgr", "server", "dplist", "ex1", "ex2", "program", "gateway",
           "file", "datamgr">>

Claims ==
    [sbuffer |-> {"sbuffer.h:34"},
     connmgr |-> {"connmgr.c:113", "connmgr.c:65"},
     server  |-> {"tcpsock.h:53", "test_server.c:13"},
     dplist  |-> {"dplist.h:68"},
     ex1     |-> {"ex1/dplist.h:55", "ex1/dplist.h:78"},
     ex2     |-> {"ex2/dplist.h:29", "ex2/dplist.h:45", "ex2/dplist.h:56"},
     program |-> {"ex1/program.c:50"},
     gateway |-> {"plab1/datamgr.h:51"},
     file    |-> {"plab1/datamgr.h:38"},
     datamgr |-> {"datamgr.h:54"}]

(* The step that is taken contradicts the claim.                           *)
Contradicts(claim) ==
    CASE claim = "sbuffer.h:34"       -> ~Sbuffer!RemoveDoesNotBlock'
      [] claim = "connmgr.c:113"      -> ~Connmgr!ClosedByPeer'
      [] claim = "connmgr.c:65"       -> ~Connmgr!EosIsAdded'
      [] claim = "tcpsock.h:53"       -> ~Server!SocketsAreClosed'
      [] claim = "test_server.c:13"   -> ~Server!OneConnectionAtATime'
      [] claim = "dplist.h:68"        -> ~Dplist!LastNodeIsRemoved'
      [] claim = "ex1/dplist.h:55"    -> ~Lists!LastNodeIsRemoved'
      [] claim = "ex1/dplist.h:78"    -> ~Lists!LastElementIsReturned'
      [] claim = "ex2/dplist.h:29"    -> ~Lists!ListIsFreed'
      [] claim = "ex2/dplist.h:45"    -> ~Lists!InsertedAtTheEnd
      [] claim = "ex2/dplist.h:56"    -> ~Lists!FirstNodeIsRemoved
      [] claim = "ex1/program.c:50"   -> ~Lists!AssertIsReached'
      [] claim = "plab1/datamgr.h:51" -> ~Lookup!AnswersForSensor'
      [] claim = "plab1/datamgr.h:38" -> ~Lookup!AllDataIsInTheList'
      [] claim = "datamgr.h:54"       -> ~Datamgr!AverageZeroUntilFull'

(* Where each program starts: a state in which its Init is so.             *)
Start(p) ==
    CASE p = "connmgr" ->
            <<[c \in {"sensor"} |-> "none"], [c \in {"sensor"} |-> 0], [c \in {"sensor"} |-> 0],
              "accept", 0, NULL, NULL, {}, [a \in {"address"} |-> NULL], <<"none">>, <<NULL>>,
              <<NULL>>, <<Torn>>, <<NULL>>, << >>, [c \in {"sensor"} |-> 0],
              [c \in {"sensor"} |-> {}], << >>, FALSE, TRUE>>
      [] p = "server" ->
            LET Each(x) == [c \in {"client1", "client2"} |-> x]
            IN  <<"threads", "open", 0, Each("none"), Each(0), Each(0), Each("none"),
                  Each("NO_ERROR"), Each(0), {}>>
      [] p = "dplist" -> <<FALSE, NULL, << >>, << >>, {}, {}, << >>>>
      [] p \in {"ex1", "ex2", "program"} -> <<p, FALSE, 0, 0, << >>, << >>, Lists!None, 0>>
      [] p \in {"gateway", "file"} -> <<p, "map", << >>, << >>, Lookup!None>>
      [] p = "datamgr" -> <<"map", << >>, 15, "nothing", [s \in {15} |-> << >>], [s \in {15} |-> 0]>>

StartIsInit(p) ==
    CASE p = "connmgr" -> Connmgr!Init'
      [] p = "server"  -> Server!Init'
      [] p = "dplist"  -> Dplist!Init'
      [] p \in {"ex1", "ex2", "program"} -> Lists!Init'
      [] p \in {"gateway", "file"} -> Lookup!Init'
      [] p = "datamgr" -> Datamgr!Init'

Begin(p) ==
    /\ program' = p
    /\ \E s \in {Start(p)} :
          LET At(i) == IF i <= Len(s) THEN s[i] ELSE 0
          IN  /\ v1' = At(1)   /\ v2' = At(2)   /\ v3' = At(3)   /\ v4' = At(4)
              /\ v5' = At(5)   /\ v6' = At(6)   /\ v7' = At(7)   /\ v8' = At(8)
              /\ v9' = At(9)   /\ v10' = At(10) /\ v11' = At(11) /\ v12' = At(12)
              /\ v13' = At(13) /\ v14' = At(14) /\ v15' = At(15) /\ v16' = At(16)
              /\ v17' = At(17) /\ v18' = At(18) /\ v19' = At(19) /\ v20' = At(20)
    /\ StartIsInit(p)
    /\ UNCHANGED standing

Init ==
    /\ program = "sbuffer" /\ Sbuffer!Init
    /\ v17 = 0 /\ v18 = 0 /\ v19 = 0 /\ v20 = 0
    /\ standing = UNION {Claims[p] : p \in DOMAIN Claims}

-----------------------------------------------------------------------------
(* The variables a program does not use, from the given one on.            *)
From17 == <<v17, v18, v19, v20>>
From11 == <<v11, v12, v13, v14, v15, v16, From17>>
From9  == <<v9, v10, From11>>
From8  == <<v8, From9>>
From7  == <<v7, From8>>
From6  == <<v6, From7>>

Run ==
    /\ \/ program = "sbuffer" /\ Sbuffer!Next /\ UNCHANGED From17
       \/ program = "connmgr" /\ Connmgr!Next
       \/ program = "server" /\ Server!Next /\ UNCHANGED From11
       \/ program = "dplist" /\ Dplist!Next /\ UNCHANGED From8
       \/ program \in {"ex1", "ex2", "program"} /\ Lists!Next /\ UNCHANGED From9
       \/ program \in {"gateway", "file"} /\ Lookup!Next /\ UNCHANGED From6
       \/ program = "datamgr" /\ Datamgr!Next /\ UNCHANGED From7
    /\ standing' = standing \ {c \in Claims[program] \cap standing : Contradicts(c)}
    /\ UNCHANGED program

NextProgram ==
    /\ Claims[program] \cap standing = {}
    /\ \E i \in 1..Len(Order) - 1 : program = Order[i] /\ Begin(Order[i + 1])

Spec == Init /\ [][Run \/ NextProgram]_<<program, vs, standing>>
-----------------------------------------------------------------------------
(* The lines above say each of these; of all of them at least one is so,   *)
(* or, what is refuted here, no behaviour contradicts one after the other. *)
SomeClaimStands == standing # {}
=============================================================================
