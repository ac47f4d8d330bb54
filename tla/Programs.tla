------------------------------ MODULE Programs ------------------------------
(***************************************************************************)
(* The programs of the repository that are not part of the gateway, each   *)
(* of which has a module of its own.  One of them runs; as no two of them  *)
(* do, they share the variables v1 to v11, of which each uses the first.   *)
(***************************************************************************)
EXTENDS Integers, Sequences, FiniteSets

CONSTANTS BUFFER_SIZE, MaxItems, NumWorkers, N_PHILOSOPHERS,
          NUM_THREADS, Rounds, CounterLimit, Places,
          MaxRecords, NumReadings, Client, MAX_CONN, MaxFields,
          Nodes, Objs, Keys, NULL, Indexes,
          MaxNodes, Element, Index, Id, RUN_AVG_LENGTH, MaxLines, MaxReadings

ASSUME ProgramsAssumption ==
    /\ {BUFFER_SIZE, NumWorkers, NUM_THREADS, MAX_CONN, RUN_AVG_LENGTH} \subseteq Nat \ {0}
    /\ {N_PHILOSOPHERS, Rounds} \subseteq Nat \ {0, 1}
    /\ {MaxItems, CounterLimit, Places, MaxRecords, NumReadings, MaxFields, MaxNodes} \subseteq Nat
    /\ Index \subseteq Int
    /\ IsFiniteSet(Client) /\ "server" \notin Client
    /\ IsFiniteSet(Nodes) /\ NULL \notin Nodes \cup Objs
    /\ 1..13 \subseteq Keys /\ Indexes \subseteq Int

VARIABLES program,      \* rigid: which one runs
          v1, v2, v3, v4, v5, v6, v7, v8, v9, v10, v11

vars == <<program, v1, v2, v3, v4, v5, v6, v7, v8, v9, v10, v11>>

Buffer == INSTANCE BoundedBuffer WITH
    kind <- v1, pc <- v2, buffer <- v3, in <- v4, out <- v5, item <- v6, counter <- v7,
    sem <- v8, consumed <- v9
Barrier == INSTANCE Barrier WITH limit <- v1, arrived <- v2, pc <- v3, created <- v4
Philosophers == INSTANCE Philosophers WITH pc <- v1, state <- v2
Threads == INSTANCE ThreadExercises WITH
    exercise <- v1, pc <- v2, shared <- v3, mysum <- v4, rounds <- v5, places <- v6
Milestone3 == INSTANCE Milestone3 WITH
    records <- v1, pc <- v2, count <- v3, buffer <- v4, holding <- v5, csv <- v6,
    dropped <- v7, process <- v8
Milestone2 == INSTANCE Milestone2 WITH
    parent <- v1, child <- v2, logFile <- v3, logPipe <- v4, csvFile <- v5, called <- v6,
    stored <- v7, unflushed <- v8, log <- v9
Server == INSTANCE TestServer WITH
    kind <- v1, main <- v2, conn_counter <- v3, peer <- v4, sent <- v5, read <- v6,
    handler <- v7, result <- v8, printed <- v9, open <- v10
Tests == INSTANCE ListTests WITH
    exists <- v1, head <- v2, heap <- v3, key <- v4, mine <- v5, spoilt <- v6, contents <- v7,
    script <- v8, done <- v9, cleanup <- v10, size <- v11
Lists == INSTANCE ListExercises WITH CarefulCallers <- TRUE,
    kind <- v1, exists <- v2, head <- v3, tail <- v4, heap <- v5, contents <- v6,
    crash <- v7, done <- v8
Datamgr == INSTANCE FileDatamgr WITH
    version <- v1, pc <- v2, sensorList <- v3, arrived <- v4, answer <- v5

-----------------------------------------------------------------------------
(* The variables a program does not use, from the given one on.            *)
No11 == v11 = 0
No10 == v10 = 0 /\ No11
No9  == v9 = 0 /\ No10
No7  == v7 = 0 /\ v8 = 0 /\ No9
No5  == v5 = 0 /\ v6 = 0 /\ No7
No3  == v3 = 0 /\ v4 = 0 /\ No5

After10 == <<program, v11>>
After9  == <<v10, After10>>
After8  == <<v9, After9>>
After6  == <<v7, v8, After8>>
After5  == <<v6, After6>>
After4  == <<v5, After5>>
After2  == <<v3, v4, After4>>

Init ==
    \/ program = "buffer" /\ Buffer!Init /\ No10
    \/ program = "barrier" /\ Barrier!Init /\ No5
    \/ program = "philosophers" /\ Philosophers!Init /\ No3
    \/ program = "threads" /\ Threads!Init /\ No7
    \/ program = "milestone3" /\ Milestone3!Init /\ No9
    \/ program = "milestone2" /\ Milestone2!Init /\ No10
    \/ program = "server" /\ Server!Init /\ No11
    \/ program = "tests" /\ Tests!TestInit
    \/ program = "lists" /\ Lists!Init /\ No9
    \/ program = "datamgr" /\ Datamgr!Init /\ v6 = 0 /\ No7

(* A step of thread t of a program whose threads have numbers.             *)
Step(t) ==
    \/ program = "buffer" /\ Buffer!Step(t) /\ UNCHANGED After9
    \/ program = "barrier" /\ Barrier!Step(t) /\ UNCHANGED After4
    \/ program = "threads" /\ Threads!Step(t) /\ UNCHANGED After6
    \/ program = "milestone2" /\ Milestone2!Step(t) /\ UNCHANGED After9
    \/ program = "tests" /\ t = 0 /\ Tests!TestStep /\ UNCHANGED program

Milestone3Step(t) ==
    program = "milestone3" /\ Milestone3!Step(t) /\ UNCHANGED After8

(* Of these programs nothing is expected but that what they do is right.   *)
Others ==
    \/ program = "philosophers" /\ Philosophers!Next /\ UNCHANGED After2
    \/ program = "server" /\ Server!Next /\ UNCHANGED After10
    \/ program = "lists" /\ Lists!Next /\ UNCHANGED After8
    \/ program = "datamgr" /\ Datamgr!Next /\ UNCHANGED After5

(* Waits that return by themselves, and exits.                             *)
Accidents ==
    \/ program = "buffer" /\ (\E t \in DOMAIN v2 : Buffer!SpuriousWake(t)) /\ UNCHANGED After9
    \/ program = "barrier" /\ (\E w \in 1..NumWorkers : Barrier!SpuriousWake(w)) /\ UNCHANGED After4
    \/ program = "threads" /\ (\E t \in 1..NUM_THREADS : Threads!SpuriousWake(t)) /\ UNCHANGED After6
    \/ program = "milestone3" /\ Milestone3!Accident /\ UNCHANGED After8

Next ==
    \/ \E t \in 0..4 : Step(t)
    \/ \E t \in {"main", "writer", "reader1", "reader2"} : Milestone3Step(t)
    \/ Others
    \/ Accidents

Safety == Init /\ [][Next]_vars

(* Every thread that can go on does.                                       *)
Spec ==
    /\ Safety
    /\ \A t \in 0..4 : WF_vars(Step(t))
    /\ \A t \in {"main", "writer", "reader1", "reader2"} : WF_vars(Milestone3Step(t))
-----------------------------------------------------------------------------
(* The bounded buffers of lecture7syncexamples: whatever the threads do is *)
(* a step of one queue, from which no item is taken twice or out of turn,  *)
(* and in and out stay inside the buffer.                                  *)
ConsumersShareTheQueue ==
    /\ program = "buffer" => Buffer!Queue!Init
    /\ [](program = "buffer" => Buffer!TypeOK)
    /\ [][program = "buffer" => Buffer!Queue!Put \/ Buffer!Queue!Take
                                \/ UNCHANGED Buffer!Queue!vars]_vars

(* The barrier of lecture6barriersolution, the forks of dinphil.c and the  *)
(* shared counters of lecture5threads, see there; and their types.         *)
ThreadsSynchronise ==
    /\ program = "barrier" => Barrier!TypeOK /\ Barrier!BarrierHolds
    /\ program = "philosophers" => Philosophers!TypeOK /\ Philosophers!ForksAreExclusive
    /\ program = "threads" => Threads!CountsAreRight

(* The first buffer with its two readers, the first log, and the servers   *)
(* the connection manager grew from: what came in is where it should be,   *)
(* or lost in one of the ways their modules name; and their types.         *)
RecordsAreAccountedFor ==
    /\ program = "milestone3" => Milestone3!TypeOK /\ Milestone3!ReadersShareTheFile
    /\ program = "milestone2" => Milestone2!TypeOK /\ Milestone2!LogTellsWhatIsStored
    /\ program = "server" => Server!TypeOK /\ Server!ServersKeepAccounts

(* The unit tests of the list, the lists it grew from with callers that    *)
(* know them, and the windows that readings are filed in by their id, see  *)
(* ListTests, ListExercises and FileDatamgr.                               *)
ListsAnswerAsTold ==
    /\ program = "tests" => Tests!TestsHold
    /\ program = "lists" => Lists!ExercisesHold
    /\ program = "datamgr" => Datamgr!ReadingsAreFiled

(* The programs end: every item is consumed, all workers leave the barrier *)
(* and all threads their loops (that of ex5sem.c has no end), the tests    *)
(* run to their last call; and milestone3 ends as soon as the writer has   *)
(* put a record with id 0 in the buffer, which wakes one reader only.      *)
ProgramsEnd ==
    /\ <> CASE program = "buffer" -> Len(v9) = MaxItems
            [] program = "barrier" -> v3[0] = "end"
            [] program = "threads" -> v1 = "sem" \/ Threads!Finished
            [] program = "milestone2" -> v1 \in {"end", "killed"}
            [] program = "tests" -> Tests!TestFinished
            [] OTHER -> TRUE
    /\ (program = "milestone3" /\ Milestone3!EosIsPut)
           ~> (program = "milestone3" /\ Milestone3!Ended)
=============================================================================
