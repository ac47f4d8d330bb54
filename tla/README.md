# A verification project for the sensor gateway

The repository is a course project: laboratory exercises that end in
`src/project/`, a gateway that collects temperatures from sensor nodes over TCP,
analyses them, stores them and keeps a log. The centre of this project is that gateway
and the libraries it is built from; around it are the programs the repository also has:
the earlier stages of the gateway, the test servers, the list exercises with their unit
tests, and the lecture's synchronisation examples. All files are TLA+; `tlc` checks the
`.cfg` instances and `tlapm` the modules named `*Proofs`.

## 1. The system

```
 sensor nodes ==TCP==> connection manager ==insert==> shared buffer ==peek====> data manager
 (sensor_node)         one thread per client           linked list   ==remove==> storage manager
                              |                                                    |        |
                              +---- write_to_log_process ----> pipe ---> logger <--+--------+
                                    (pipeMutex, wmsg)                    (child process)
```

| component | source | state | operations | talks to |
|---|---|---|---|---|
| shared buffer | `sbuffer.c` | linked list `head`/`tail`, turn flag `peekDone`, one mutex, two condition variables | `sbuffer_insert`, `_peek`, `_remove`, `_init`, `_free` | called by the three managers |
| connection manager | `connmgr.c` | `conn_counter`, one stack slot `threadArgs` shared by all handlers, a thread and a record per connection | `connmgr_main`, `handle_client` | sockets, `sbuffer_insert`, log |
| socket library | `lib/tcpsock.c` | a heap structure per socket, with a cookie | open, accept, `tcp_receive`, `tcp_send`, `tcp_close` | kernel |
| sensor node | `sensor_node.c` | none | connect, send three fields per record, close | socket library |
| data manager | `datamgr.c` | `sensorList`: a window of temperatures per mapped sensor | read the map, analyse a reading, queries | `sbuffer_peek`, dplist, log |
| list | `lib/dplist.c` | doubly linked nodes, elements owned by copy or by reference | create, insert, remove, free, five queries | called by the data manager |
| storage manager | `sensor_db.c` | the csv file | `open_db`, `insert_sensor`, `close_db` | `sbuffer_remove`, log |
| gateway and log process | `main.c` | pipe, `wmsg`, `counter`, `pipeMutex`, three threads and a child process | `main`, `write_to_log_process`, the logger loop | all of the above |
| first buffer | `milestone3/` | linked list, one condition variable, two competing readers | writer, readers, `main` | - |
| first logger | `milestone2/milestone2/` | log lines in the memory of two processes, a pipe | `main`, `open_db` with a child, `insert_sensor`, `close_db` | - |
| test servers | `plab3/`, `lecture9plab3startcode/`, `lecture10plab3libs/` | descriptors, `conn_counter` | accept, serve, close | socket library |
| file-based data manager | `plab1/` | `sensorList` | read map and readings from files, query | dplist |
| list exercises and tests | `lab3m1/` | three generations of the list | unit tests, random removal | dplist |
| synchronisation examples | `lecturecode/lecture5threads`, `6barriersolution`, `7syncexamples` | bounded buffers, barrier, forks, counters | one loop per thread | - |
| the rest | `file_creator.c`, `lecture4`, `lecture8sockets`, `clab*`, `homework2/` | - | single calls and language exercises | - |

What is hard here, and what must be true because of it:

* **Shared buffer.** Two kinds of reader alternate by a flag, wait on a condition
  variable they share and are woken by single signals; nodes are freed after the
  unlock; `sbuffer_remove` never tests `head`. The list must carry the stream without
  loss, duplication or reordering, no node may have two owners, no wake-up may be lost,
  and the in-band end of the stream (id 0) must stop both readers at the same place.
* **Connection manager.** All handlers get the address of the same stack variable; a
  freed socket's address may come back from a later `malloc`; a record arrives as three
  receives of which only the last result counts. The end-of-stream reading must be the
  last one inserted, and a connection must have its own handler.
* **Log.** Every thread formats into one global array; the pipe may be full while the
  mutex is held; the gateway may exit without the final `$`. Lines must be whole,
  numbered without gap, complete when the logger stops, and both processes must end.
* **Data manager.** Readings of all sensors are mixed, and a window goes from filling
  to sliding. It must hold the newest temperatures of its own sensor, and what is logged
  must follow from their average.
* **The composition.** Three threads are started in one order and joined in another, the
  storage manager meets errors of its file, and any thread may end the whole process. The
  file must follow the stream, the buffer must be freed last, and a normal end must mean
  that nothing is missing.
* **List.** Front, inner, last and out-of-range positions take different paths. Both
  directions must agree, nothing may leak or be freed twice, and a kept reference must
  go on naming its element. Its ancestors in `lab3m1/` do this wrong at known places.
* **Concurrent examples and earlier stages.** One signal per event and several sleepers:
  whoever is woken must pass it on (barrier, philosophers, first buffer). A full and an
  empty ring must be told apart. Processes die with lines still in their memory.

`PROJECT.json` lists every hazard at its line, with the properties about it.

## 2. Modules

| module | models | composes or uses |
|---|---|---|
| `SensorFeed` | the abstract buffer: a stream, how much of it was analysed and stored | - |
| `Sbuffer` | `sbuffer.c` with the loops of its three users | implements `SensorFeed` |
| `SbufferProofs` | theorems of `Sbuffer`, the refinement among them | `Sbuffer` |
| `Connmgr` | `connmgr.c`, the receiving half of `tcpsock.c`, the sensors as environment | - |
| `ConnmgrProofs` | theorems of `Connmgr`: handlers and the end of the stream; types, whole records and the account of each connection | `Connmgr` |
| `LogProcess` | `write_to_log_process`, the shutdown in `main`, the logger process | - |
| `LogProcessProofs` | theorems of `LogProcess` | `LogProcess` |
| `Datamgr` | `datamgr_parse_sensor_files`, `datamgr_get_avg` | `sensorList` as a sequence |
| `DatamgrProofs` | theorems of `Datamgr` | `Datamgr` |
| `Dplist` | `dplist.c` against the rules of `dplist.h`, with callers that own elements | - |
| `DplistProofs` | theorems of `Dplist` | `Dplist` |
| `Gateway` | `main.c` and `sensor_db.c`: start, joins, end, the csv file and its failures | `SensorFeed` as the buffer; the handlers and the logger as abstract steps |
| `GatewayProofs` | theorems of `Gateway` | `Gateway` |
| `CondVar` | what `pthread_cond_signal` does to program counters | - |
| `BoundedQueue`, `BoundedBuffer` | the abstract queue; `prodconcondition.c`, `prodconcounter.c`, `prodconsem.c` | the second implements the first |
| `Barrier`, `Philosophers`, `ThreadExercises` | `barrier.c`; `dinphil.c`; `ex4*`, `ex5sem.c`, `ex6condvar.c` | `CondVar` |
| `Milestone3`, `Milestone2` | the first buffer with its readers; the first logger | `CondVar` |
| `TestServer` | the threaded and the sequential test server over `tcpsock.c` | - |
| `ListScripts`, `ListTests` | the unit tests as data; running them, and `randomtest.c` | `Dplist` |
| `ListExercises` | `lab3m1/ex1/dplist.c`, `lab3m1/ex2/dplist.c`, `ex1/program.c`, against their headers | `ListScripts` |
| `FileDatamgr` | `plab1/datamgr.c`, and the queries of the gateway's data manager | - |
| `Programs` | one of the ten modules from `BoundedBuffer` to `FileDatamgr`, chosen at the start | all of them |
| `ProgramsProofs` | theorems about the bounded buffers, the barrier, the table and the counters, for any number of threads; about the first buffer, the first log and the test servers | `Programs` |
| `ListsProofs` | theorems about the lookup by id, the lists of `lab3m1` and the unit tests | `Programs`, `DplistProofs` |
| `MCSbuffer`, `MCConnmgr`, `MCDatamgr`, `MCDplist`, `MCPrograms` | symmetry sets and values for TLC | the module they extend |
| `MCClaims` | what the repository says and its code does not do | small instances of `Sbuffer`, `Connmgr`, `TestServer`, `Dplist`, `ListExercises`, `FileDatamgr` and `Datamgr`, one after the other |

Definitions whose comment begins with *Fault* are not part of a specification. Each is
the way one definition could go wrong; replaced by it, the property it is paired with in
`PROJECT.json` must fail. A few modules have a fault more than that, of another definition
(`TestLeftOnly`, `LeaveSilently`, `EnterAnyway`, `insert_result_ignored`).

### Sbuffer

One action per critical section, because everything a thread does under the mutex is
invisible to the others until the unlock or the wait. `pc[t]` says where a thread is;
a waiter is a thread at a `...Wait` label, so no separate wait sets are needed, and a
signal wakes one of the threads waiting on that variable (or none). `InsertAlloc` is
the part of `sbuffer_insert` before the lock, where `malloc` may return any free node or
fail (`InsertFail`); `RemoveFree` is the `free` after the unlock. `SpuriousWake` is the
spurious return of `pthread_cond_wait`. `queue`, `inserted`, `peeked` and `removed` are
history. Writers insert any reading at any time, the end-of-stream reading too: a sensor
whose 16-bit id is 0 does that in the program.

### Connmgr

`argClient` is `threadArgs.client`, read by `StartHandler` whenever the thread first
runs. `MakeSocket` is the `malloc` of `tcp_wait_for_connection`, which takes any address
that is not `allocated`, and `Accept` the return of the blocking `accept` behind it, which
fills the structure. `sockAt` maps the addresses to connections; `CloseClient` frees one,
and a receive on a free one fails by the cookie. `pending` is the
connection a blocked `recv` waits on: it still holds that descriptor when another handler
closes the socket and `accept` reuses the structure. Byte streams are units; a reading is
named by its sensor and the place of its first unit, or `Torn` when its fields do not
belong together, so the lengths of the three fields are parameters and values do not
matter. With `PartialDelivery` a receive may return any part of its field. Freeing a
structure twice aborts the process or passes unnoticed. `closeLogged` is the connection
whose end a handler has logged, which need not be the one it was made for: with a reused address
a handler may log the end of a connection that another handler still reads.

A sensor may close its connection or have it reset between any two fields. A close leaves
what was sent to be received; a reset (`Disconnect`) throws away any part of it that was not
received yet, in whole fields where fields arrive whole, and `sent` then counts what is left.
The error of a reset is told once, to whichever receive comes first, and every later one
returns 0 as on a closed connection; since only the third result of a record is looked at, a
reset may be logged as a close (`claims`). `TestServer` has the same rule. The text of
log lines is left out.

### LogProcess

A line is a pair of number and thread, its characters are counted. The pipe has a
capacity; lines are shorter than `PIPE_BUF`, so a write is whole or blocks. When the
write end is closed and the pipe empty, `read` returns 0 and leaves `character` as it
was. `Failures` allows the early exits of the connection manager (the process goes away
at any point) and a failed `fopen` in the logger. That one reads a byte (`ReadWithoutFile`)
and crashes at the `fwrite` behind it (`LoggerCrash`): the byte is out of the pipe and in no
file, and the next write of the gateway ends in `SIGPIPE`.

### Datamgr

Temperatures are integers and averages are compared through their sums. Indexes are
moved up by one. The map may name a sensor twice; the first line then gets all readings,
as `dpl_get_index_of_element` finds the first match.

### Dplist

The heap is a partial function from node addresses to their fields, so a freed node has
none. `contents` is history: the sequence of elements that the rules of `dplist.h` make of
the same calls. Elements are heap objects. `insert_copy` decides whether one enters the list
as a copy, which only the list knows, or as the caller's object, which may be listed any number
of times (`Entering`); `free_element` decides whether elements go with their nodes (`Drop`).
`mine` are the objects callers have a pointer to: those they have made (`CallerMakes`) and
those a query gave them (`CallerGets`), until they free them (`CallerFrees`). The list returns
no removed element, so a copy that is removed without being freed is lost unless a caller asked
for it before; and an object may be freed while it is listed, by a caller or by the removal of
another node. These are mistakes of callers: `spoilt` remembers their objects, and
`NothingLeaks` says that no others are lost, dangling or shared behind the callers' backs. A
second `free` of one object ends the run, as it does the program. `test04` of `dplist_test.c`
makes such a mistake: it loses the copy that it removes without freeing it.

### Gateway

The buffer is an instance of `SensorFeed` over the variables of `Gateway`, so what
`SbufferProofs` proves about the pointers carries over; `Serve` stands for all handlers of
`Connmgr`, and `Log` for a call of `write_to_log_process`, which kills the process when the
logger has crashed over a missing log file. `main`'s joins are one action each, in the
order of the code. `onDisk` says how much of the file has left the buffer of stdio, which
may happen at any print or at `fclose`; `failures` remembers which calls on the file went
wrong. When `malloc` fails for the end-of-stream reading, `AddEos` returns without it.

### Programs beside the gateway

What happens under a mutex is one step; a thread asleep on a condition variable is at
"wait", and any sleeper may wake spuriously. `ex4multicount.c` has no mutex, so the read
and the write of the shared sum are two steps there. The variables `v1` to `v11` of
`Programs` are used by the program that runs, each in the order its module declares them;
no two programs run together, so nothing is lost by sharing them. The copies of
`tcpsock.c` in `plab3/`, `lecture9plab3startcode/` and `lecture10plab3libs/` are identical
to the gateway's, those of `dplist.c` in `lab3m1/milestone1` and `plab1/lib` but for a block that each insertion
allocates and never uses (`testptr`), which is left out; `FileDatamgr` has the latter by its
rules.

`ListScripts` has the call sequences and the asserted answers of the unit tests, and
`ListTests` runs them on `Dplist`: a test is checked by the model of the code it tests. Its
random removal takes the last element by an index of 0 or less; that `randomtest.c:90` may
pick 1 is a subject of `claims`.

`ListExercises` has the two earlier lists as they are, with any index, and stops at a call that
crashes. Where they do not do what their own headers say, the run `claims` shows it.
`CarefulCallers` leaves such calls out (`Surprising` names them: removals at and beyond the end
in ex1; insertions beyond the end, negative removals, the removal of the only node by an index
above 0, and `dpl_free` in ex2), and `ExercisesHold` says that then both lists do what the
headers say. `program.c` is not careful: in `programs` it stops before its removal from a list
of one, which is a subject of `claims`.

A 16-bit id is handed to `element_compare` by its address, so what follows it in memory is
compared as well. What lies there is any id in `FileDatamgr`. Which sensor's window a reading
of the file reaches, if any, and which sensor a query of the gateway answers for depend on it:
see `claims`. What does not is `ReadingsAreFiled`: windows of one sensor
each, in order, apart from each other, and complete in the gateway, whose readings are compared
with a whole element.

## 3. Runs

| run | states | what it shows |
|---|---|---|
| `sbuffer` | 108 000 | all properties of the buffer, its refinement of `SensorFeed` with the progress part, and liveness |
| `connmgr_safety` | 3 390 000 | the end of the stream is last; a timely start is enough for one handler per connection, whole records and living sockets; an undisturbed connection is delivered exactly |
| `connmgr_liveness` | 135 000 | the end-of-stream reading is reached when the accepted sensors have gone |
| `connmgr_shared` | violation | `connmgr.c:41` wants a thread for every client; the shared `threadArgs` gives two threads one client |
| `connmgr_partial` | violation | `connmgr.c:85-99` read three fields; a short `recv` makes a record nobody sent |
| `log_process` | 76 000 | numbering, completeness, nothing lost or interleaved in pipe and file, but for the byte that a logger without a file has read, and both processes end unless one failed |
| `log_eof` | violation | `main.c:71` reads the pipe byte by byte; without `$` the logger writes what `character` holds for ever: the last byte it read, or nothing it ever read |
| `datamgr_safety` | 370 000 | windows and verdicts |
| `dplist_safety` | 10 800 | contents both ways, memory under any mixture of copies, references and frees, queries, references |
| `gateway` | 55 000 | whatever fails, `data.csv` follows the feed; a normal end is complete; and the gateway ends once the end of the stream is in the buffer |
| `programs` | 55 000 | the other programs: queue refinement, barrier, forks, counters, records accounted for, unit tests, lists, lookups, and that they end |
| `claims` | violation | each of the fifteen lines of the table below is contradicted by its program |

Each violation is a finding in `PROJECT.json`, with the line it contradicts. `claims` has one for
each of its lines. Its module runs small instances of the programs one after the other, each until
all that is claimed of it is contradicted, and `standing` has the claims that are left. The
property `SomeClaimStands` says that there are some; TLC finds the behaviour after which there are
none, in which every claim can be seen to leave `standing` in the step that contradicts it.

| claim | stated as | what the code does |
|---|---|---|
| `sbuffer.h:34`: remove does not block on an empty buffer | `RemoveDoesNotBlock` in `Sbuffer` | `sbuffer.c:70` waits there; `SBUFFER_NO_DATA` is the end of the stream |
| `connmgr.c:113`, `:118`: a close is told from an error | `ClosedByPeer` in `Connmgr` | a reset noticed by the first or second receive of a record is logged as a close |
| `connmgr.c:65`: the end of the stream is added | `EosIsAdded` in `Connmgr` | when `sbuffer_insert` is out of memory it is not, and nobody notices |
| `tcpsock.h:53`: `tcp_close` closes the socket | `SocketsAreClosed` in `TestServer` | after a reset `shutdown` fails and the descriptor stays open |
| `test_server.c:13`: one connection at a time | `OneConnectionAtATime` in `TestServer` | the threads are detached and there are several |
| `dplist.h:68`: an index that is too big removes the last node | `LastNodeIsRemoved` in `Dplist` | when it is the only node, `head` is left dangling |
| `ex1/dplist.h:55`: the same | `LastNodeIsRemoved` in `ListExercises` | ex1 follows the `next` of that node, which is NULL |
| `ex1/dplist.h:78`: an index that is too big finds the last element | `LastElementIsReturned` | the tail of ex1 is never set |
| `ex1/program.c:50`: an assert on a size | `AssertIsReached` | the removal before it crashes |
| `ex2/dplist.h:29`: the list is freed | `ListIsFreed` | ex2 frees the caller's variable |
| `ex2/dplist.h:45`: an index that is too big inserts at the end | `InsertedAtTheEnd` | ex2 inserts in front of the last node |
| `ex2/dplist.h:56`: a negative index removes the first node | `FirstNodeIsRemoved` | ex2 removes none |
| `plab1/datamgr.h:51`, which the gateway took over: the room of a certain sensor | `AnswersForSensor` in `FileDatamgr` | `datamgr.c:166` may find another sensor's |
| `plab1/datamgr.h:38`: all data is in the list at the end | `AllDataIsInTheList` in `FileDatamgr` | readings are left out by what follows their id in memory |
| `datamgr.h:54`: the average of fewer than `RUN_AVG_LENGTH` measurements is 0 | `AverageZeroUntilFull` in `Datamgr` | `datamgr.c:181` divides by their number |

Why the bounds are enough:

* `sbuffer`: two writers interfere with each other and with both readers, a third adds
  no new kind of step. Four calls over three nodes make every node be freed and used
  again, and lists of zero, one and more nodes meet every operation. One spurious
  wake-up reaches every wait. The safety properties and the refinement are proved for
  all values.
* `connmgr_safety`: three accepts on two addresses are the smallest case in which a
  handler holds an address that comes to stand for another connection. Two records of
  one sensor, or one of each of two (`MaxTotal`), are needed for order, and for a
  disconnection inside a later record. One unit per field keeps every boundary;
  `connmgr_partial` has longer fields.
* `connmgr_liveness`: two handlers, because the join waits for the slower one.
* `log_process`: a pipe with room for one line and a half, so that writers block inside
  the mutex and the `$` has to wait as well; three threads contend for `wmsg`.
* `datamgr_safety`: windows of two with three readings of each sensor fill, slide, and
  slide again; three lines of map for two sensors contain both a repeated and a missing
  sensor; the temperatures lie on all sides of the thresholds.
* `dplist_safety`: four nodes hold lists with a front, two inner nodes and a last one; the
  indexes reach beyond both ends. Three objects are a copy, a reference and one to take an
  address that was freed, and fewer objects than nodes make some be listed twice. The symmetry
  of addresses keeps the states few. The only node is removed with an index of 0 or less
  (`CarefulCallers`), as the other case is a subject of `claims`.

* `gateway`: three readings with two values and the end-of-stream value at any place let the
  stream go on behind its end, be empty or have several ends; every call on the file and
  every thread's start may fail, alone or with others. The number of readings does not
  matter, as the proofs show.
* `programs`: four workers make a chain of signals with a link in the middle, five
  philosophers have neighbours that are not each other's; a ring of two slots with four
  items wraps round twice; three records with ids that are 0 or not, two clients, and lists
  of up to four nodes are where the code distinguishes cases. The unit tests run with the
  elements and indexes they have.
* The runs that end in a violation have the smallest constants that show it. In `claims`
  these are written in the module: one writer, one sensor, two clients, and lists of up to three
  nodes with an index before, in and beyond them.

Deadlock is not checked where the system may stop: all sensors gone, all calls used up,
the process exited, waiting for a sensor that never closes. `LogProcess` says with
`Terminated` when it may, and is checked for any other deadlock.

**Fairness.** The threads of the gateway are ordinary POSIX threads: a step that stays
possible is taken, which is weak fairness of each thread's steps. A mutex is handed on
while somebody wants it: weak fairness of `Acquire` per thread is enough in the checked
instances, because the writers run out of calls. Nothing is assumed about sensors (they
may never connect, send or close), writers need not call `sbuffer_insert`, and a wait
need never return by itself. `EosAfterDisconnects` therefore starts from "the accepted
sensors have disconnected". In `Gateway` no fairness is assumed of `Serve` or of the joins of
the handlers, and `GatewayEnds` starts from the return of the connection manager. In
`Programs` each thread has weak fairness of its own step; `milestone3`'s end is expected
only once its writer has put a record with id 0 in the buffer (`EosIsPut`), since otherwise
the readers rightly wait. `ex5sem.c` has no end.

Symmetry is used in runs without liveness properties only, and only over values that the
modules compare for equality.

## 4. Proofs

`tlapm` checks every theorem for all values of the constants, from the named assumptions
on the constants, or the hypotheses in the theorem's own statement, and nothing else. TLC
evaluates the named assumptions in the passing runs.

| module | theorems | inductive invariant |
|---|---|---|
| `SbufferProofs` | `TypeCorrect`, `ChainCorrect`, `MemorySafe`, `TurnCorrect`, `WakeupsKept`, `EosCorrect`, `AnalysedStays`, `FeedRefinement` | the checked invariants, with: the mutex is held by exactly the thread at a critical label; a writer's fresh node is allocated, filled and nobody else's; `dummy` is neither in the list nor fresh. Without the last two, `free(dummy)` and the link of a new node could not be told apart from a double use |
| `ConnmgrProofs` | `EosCorrect`, `TimelyStartsCorrect`, `SocketsCorrect`, `TypeCorrect`, `WholeRecordsCorrect`, `ExclusiveCorrect` | no end-of-stream reading before the state `done`, and all handlers ended from `eos` on; an accepted sensor is still behind a socket or shut for good, so none is accepted twice; as long as no argument was overwritten, an address with a connection behind it is allocated and not the one of the pending accept (`MemoryOwned`), and a handler that started in time works on the connection it was made for, blocked or not. What was received was sent, and what was sent ends where a field ends. For whole records, as long as no argument was overwritten (`raced`): what a handler has received of its own connection ends where the field begins that it reads next, and the fields it holds are of that record, or the connection has ended and the record will not be inserted. For the account of a connection only its own handler has read, raced or not (`XInv`): the delivered records lie one behind the other, the one in flight behind them all, and delivered, dropped and in flight are together the whole records received; its handler is at the field it waits for, or has lost the connection and never gets it back, since it was accepted once and a blocked `recv` on another connection ends with the address still somebody else's. A reset takes away only what was not received, so the account is kept in what was received. The last two assume `~PartialDelivery`: with short receives they are false (`connmgr_partial`) |
| `LogProcessProofs` | `TypeCorrect`, `NumbersCorrect`, `MessagesCorrect`, `PipeCorrect`, `LogCorrect` | the mutex is held by exactly the thread between lock and unlock; between format and write the line in `wmsg` has the next number and its holder's name, otherwise the counter has it. For pipe and file there are five phases: sending, when file and pipe together are all characters; closing, when the `$` is behind them; complete; after an early exit, repeating; and broken, when a logger without a file has crashed with one byte of them. The `$` is no character of a line, which is an assumption on the constant |
| `DatamgrProofs` | `TypeCorrect`, `WindowCorrect`, `VerdictCorrect` | nothing has arrived while the map is read; a first element holds the newest temperatures, another one nothing. The verdict follows because the filled part of the window and the end of the history are one sequence, so their sums are equal whatever the sum computes |
| `GatewayProofs` | `TypeCorrect`, `CsvCorrect`, `EndCorrect` | the two readers are at most one reading apart and neither passes an end-of-stream reading; whom `main` has joined at each of its places; what the storage manager knows of its file at each of its own |
| `DplistProofs` | `TypeCorrect`, `ContentsCorrect`, `MemoryCorrect`, `QueriesCorrect`, `ReferencesCorrect`, `AnyCallerCorrect` | there is a chain, a one-to-one function from the places of the list to the allocated nodes, whose neighbours are each other's `next` and `prev` and whose elements are `contents`; every object that is not the callers' is listed or spoilt, every listed one that was freed is spoilt, and one that is listed twice is the callers' or spoilt (`Owned`). The first five assume `CarefulCallers`: otherwise `head` is left dangling (`claims`). `AnyCallerCorrect` does without: all of this holds until the call that removes the only element by an index above 0, and only that call ends it |
| `ProgramsProofs` | `QueueCorrect`, `SynchronisationCorrect`, `RecordsCorrect` | buffers: the slots from `out` to `in` hold the queue, the counter counts them, and so do the semaphores once the threads are added that have passed one and not yet posted the other. Barrier: `arrived` is the cardinality of the set of workers that have called `wait_for_others`, and none exists before `main` has created it. Table: a philosopher thinks exactly when his state says so, and `test` keeps neighbours from eating together. Counters: the places taken are the threads inside, the safe sum is the number of rounds, and the other is no more than that, and at least 2 in the end because a thread reads at least 1 after its first round. First buffer: the records in it lie in order behind all that were taken, those taken and those in it are what was put unless one was dropped, and a reader ends only with a record of id 0 at the head, which it leaves there. First log: the child's line comes before all of `main`'s, and the lines that are written or still in `main`'s stdio buffer tell which insertions were stored, in their order. Servers: at each place of a handler, how many fields it has read and whether its descriptor is open, and that the printed measurements are the whole ones among them. One worker, two philosophers and two rounds at least, and finitely many clients of which none is called `"server"`, named in `ProgramsAssumption`: a single philosopher has the same fork on both sides |
| `ListsProofs` | `LookupCorrect`, `ExercisesCorrect`, `TestsCorrect`, `ListsCorrect` | Lookup: a window holds increasing numbers of readings that arrived under one number, the room's in the file version and the sensor's in the gateway; no number is in two windows; in the gateway a first element has, or had, every reading of its sensor, because the loop finds the first match or proves that there is none; and nothing has arrived while the map is read. Lists of `lab3m1`: a chain as in `DplistProofs`, whose end is the tail of `ex2`, and what the calls of `program.c` so far have made of its list, call by call; `CarefulCallers` is TRUE there. Unit tests: the list has the invariant of `DplistProofs`, whose lemmas say what one call makes of it, and is the one that the calls of the script so far have made; that list is computed for every script, call by call, and each asserted answer read off it (`Right`, `Plays`). The test on the list `NULL` never has a list; the random removal keeps the invariant. `ProgramsAssumption` has finitely many nodes, integers as indexes, and the 13 elements of the tests among the keys |

`FeedRefinement` shows that the initial states of the buffer are initial states of the
feed and that every step is a step of it or invisible; `PeekCopy` is `Analyse`,
`RemoveHead` is `Store`, `RemoveEos` is `Stop`, `InsertLink` is `Accept`.

The loops of the list are recursive functions, and what they return is proved by induction
over the number of rounds. The induction theorems of the library take a formula as a
parameter and cannot be used; the lemma `Induction` of `DplistProofs` has a set in its
place and follows from the pigeonhole principle for finite sets; `ListsProofs` uses it too.

Model-checked only: everything under fairness (`EosStopsReaders`, `EveryReadingIsStored`,
`FeedProgress`, `EosAfterDisconnects`, `BothEnd`, `GatewayEnds`, `ProgramsEnd`), since
liveness and `ENABLED` are out of the prover's reach. Every invariant and every other action
property of a passing run is stated by a theorem.

## 5. Not modelled

* A `recv` that does not block is one step with the test of the cookie before it, and the
  numbers of descriptors are not modelled: what a handler does with a descriptor that was
  closed and given out again between the two is left out.
* That `tcp_close` leaves a descriptor open after a reset is in `TestServer` (`claims`);
  the limit at which a process has no descriptors left is the failing accept there and in
  `Connmgr`.
  The getters of the socket library are not called by the gateway.
* In `Gateway` a log call is one step and its text is data; the blocking of a full pipe is
  in `LogProcess`. Failing allocations in the data manager end the process
  (`ERROR_HANDLER`), like `MapMissing`; in the list they crash it.
* A `MAX_CONN` of 0 or less is undefined behaviour in `connmgr.c:35`; the modules assume at
  least 1.
* The index queries of the two lists in `lab3m1/ex1` and `ex2`; `lab3m1/ex2/program.c` does
  not compile. `plab1/main.c` does not link.
* `file_creator.c` writes random numbers to files. The `fork`, `exec`, pipe and socket
  examples of lectures 4 and 8 and the string, compiler and hello exercises have no
  protocol or state of their own. The CMake file is generated.

## 6. Order of work

The gateway came first, along the path of a reading: `Sbuffer` with its feed and proofs,
`Connmgr`, `LogProcess`, `Datamgr`, `Dplist`. Then `Gateway`, which puts them together with
the storage manager; then the earlier stages and the examples, which share one run; and last
the proofs on whole records, the pipe, the composition and the verdicts, on the list at node
level, on the account of each connection, on the buffers, barrier, forks and counters, and
on the first buffer, the first log, the test servers, the lookup by id and the lists of `lab3m1`.
Then the ownership of list elements, resets that lose data, and a run for the lines of headers
and comments that the code contradicts. What remains of interest is the reuse of descriptor
numbers under a blocked handler.
