------------------------------- MODULE Sbuffer -------------------------------
(***************************************************************************)
(* The shared sensor buffer of the gateway, src/project/sbuffer.c: a       *)
(* singly linked list of heap nodes, one mutex, the condition variables    *)
(* cond_var (data has arrived) and cond_var_peek (the turn has changed),   *)
(* and the flag peekDone that makes the data manager (sbuffer_peek) and    *)
(* the storage manager (sbuffer_remove) take turns at the head.  Any       *)
(* number of writers insert (the handlers of connmgr.c and its main        *)
(* thread, which adds the end-of-stream reading).                          *)
(*                                                                         *)
(* A thread that holds the mutex cannot be observed half-way, so the       *)
(* statements between a lock (or the return of a wait) and the next        *)
(* unlock (or the start of a wait) are one action.  malloc and free run    *)
(* outside the mutex and are actions, or parts of actions, of their own.   *)
(***************************************************************************)
EXTENDS Naturals, Sequences, FiniteSets

CONSTANTS Writers,      \* threads that call sbuffer_insert
          Items,        \* readings with an id other than 0
          EOS,          \* a reading with id 0
          Nodes,        \* the heap: addresses malloc can return
          NULL,         \* the null pointer; also: nobody holds the mutex
          MaxCalls,     \* bound: calls of sbuffer_insert
          MaxSpurious   \* bound: spurious returns of pthread_cond_wait

DataMgr    == "datamgr"
StorageMgr == "storagemgr"
Readers    == {DataMgr, StorageMgr}
Threads    == Writers \cup Readers
Readings   == Items \cup {EOS}

ASSUME ConstantsAssumption ==
    /\ Writers \cap Readers = {}
    /\ EOS \notin Items
    /\ NULL \notin Nodes
    /\ NULL \notin Threads
    /\ MaxCalls \in Nat
    /\ MaxSpurious \in Nat

VARIABLES
    head, tail,         \* sbuffer_t
    next, data,         \* the fields of every node
    allocated,          \* nodes malloc has returned and free has not taken
    peekDone,           \* the turn: FALSE data manager, TRUE storage manager
    mutex,              \* its holder
    pc,                 \* where each thread is
    fresh,              \* insert's local dummy, of each writer
    dummy,              \* remove's local dummy
    calls, spurious,    \* counters of the bounds
    queue,              \* history: the linked nodes, in list order
    inserted,           \* history: every reading linked, in order
    peeked, removed     \* history: how many of them were peeked, removed

list    == <<head, tail, next, data>>
heap    == <<allocated, fresh, dummy>>
history == <<queue, inserted, peeked, removed>>
vars    == <<list, heap, peekDone, mutex, pc, calls, spurious, history>>

-----------------------------------------------------------------------------
(* Program counters, named for the call and the line they stand before.    *)

WriterPcs  == {"idle", "insLock", "insLink"}
DataMgrPcs == {"peekLock", "peekTest", "peekWait", "peekWaitData",
               "peekRelock", "peekHead", "done"}
StoragePcs == {"remLock", "remTest", "remWait", "remFree", "done"}

Locking(t)  == pc[t] \in {"insLock", "peekLock", "peekRelock", "remLock"}
Critical(t) == pc[t] \in {"insLink", "peekTest", "peekHead", "remTest"}

(* Where a thread is once the lock it waits for is its own.                *)
Entered(label) ==
    CASE label = "insLock"    -> "insLink"
      [] label = "peekLock"   -> "peekTest"
      [] label = "peekRelock" -> "peekHead"
      [] label = "remLock"    -> "remTest"

(* Faults, each defined in front of what it is a wrong version of, that    *)
(* the properties below catch.  Here: if (peekDone == 1) for while, so     *)
(* that sbuffer_peek does not test the turn again when its wait returns.   *)
ResumedPastLoop(label) ==
    CASE label = "peekWait"     -> "peekRelock"
      [] label = "peekWaitData" -> "peekRelock"
      [] label = "remWait"      -> "remLock"

(* Where a thread is once it is taken from a wait set: before the mutex.   *)
Resumed(label) ==
    CASE label = "peekWait"     -> "peekLock"
      [] label = "peekWaitData" -> "peekRelock"
      [] label = "remWait"      -> "remLock"

(* Fault: the signal on cond_var is left out.                              *)
CondVarSilent == {}

(* Fault: the signal on cond_var_peek only reaches sbuffer_remove.         *)
CondVarRemove == {"remWait"}

CondVar     == {"peekWaitData"}
CondVarPeek == {"peekWait", "remWait"}

(* Fault: unlock without a signal.                                         *)
ForgetSignal(t, label, waitSet) ==
    /\ mutex' = NULL
    /\ pc' = [pc EXCEPT ![t] = label]

(* pthread_cond_signal, then pthread_mutex_unlock, by t on its way to      *)
(* label: one of the waiters, if there is any, leaves the wait set.        *)
SignalAndUnlock(t, label, waitSet) ==
    /\ mutex' = NULL
    /\ IF \E w \in Readers : pc[w] \in waitSet
       THEN \E w \in Readers :
               /\ pc[w] \in waitSet
               /\ pc' = [pc EXCEPT ![t] = label, ![w] = Resumed(pc[w])]
       ELSE pc' = [pc EXCEPT ![t] = label]

(* pthread_cond_wait, and any other release of the mutex without a signal. *)
Unlock(t, label) ==
    /\ mutex' = NULL
    /\ pc' = [pc EXCEPT ![t] = label]

-----------------------------------------------------------------------------
Init ==
    /\ head = NULL
    /\ tail = NULL
    /\ next = [n \in Nodes |-> NULL]
    /\ data = [n \in Nodes |-> EOS]
    /\ allocated = {}
    /\ peekDone = FALSE
    /\ mutex = NULL
    /\ pc = [t \in Threads |-> CASE t = DataMgr    -> "peekLock"
                                 [] t = StorageMgr -> "remLock"
                                 [] OTHER          -> "idle"]
    /\ fresh = [w \in Writers |-> NULL]
    /\ dummy = NULL
    /\ calls = 0
    /\ spurious = 0
    /\ queue = << >>
    /\ inserted = << >>
    /\ peeked = 0
    /\ removed = 0

Acquire(t) ==
    /\ Locking(t)
    /\ mutex = NULL
    /\ mutex' = t
    /\ pc' = [pc EXCEPT ![t] = Entered(pc[t])]
    /\ UNCHANGED <<list, heap, peekDone, calls, spurious, history>>

(* POSIX lets pthread_cond_wait return without a signal.                   *)
SpuriousWake(r) ==
    /\ pc[r] \in CondVar \cup CondVarPeek
    /\ spurious < MaxSpurious
    /\ spurious' = spurious + 1
    /\ pc' = [pc EXCEPT ![r] = Resumed(pc[r])]
    /\ UNCHANGED <<list, heap, peekDone, mutex, calls, history>>

(* sbuffer_insert up to the lock, when malloc returns node n.              *)
InsertAlloc(w, d, n) ==
    /\ pc[w] = "idle"
    /\ calls < MaxCalls
    /\ calls' = calls + 1
    /\ allocated' = allocated \cup {n}
    /\ data' = [data EXCEPT ![n] = d]
    /\ next' = [next EXCEPT ![n] = NULL]
    /\ fresh' = [fresh EXCEPT ![w] = n]
    /\ pc' = [pc EXCEPT ![w] = "insLock"]
    /\ UNCHANGED <<head, tail, dummy, peekDone, mutex, spurious, history>>

(* malloc fails: the call returns SBUFFER_FAILURE and its callers go on.   *)
InsertFail(w) ==
    /\ pc[w] = "idle"
    /\ calls < MaxCalls
    /\ calls' = calls + 1
    /\ UNCHANGED <<list, heap, peekDone, mutex, pc, spurious, history>>

(* Fault: the new node becomes the head of the list.                       *)
LinkNodeInFront(n) ==
    /\ head' = n
    /\ tail' = IF tail = NULL THEN n ELSE tail
    /\ next' = [next EXCEPT ![n] = head]

LinkNode(n) ==
    IF tail = NULL
    THEN /\ head' = n
         /\ tail' = n
         /\ UNCHANGED next
    ELSE /\ next' = [next EXCEPT ![tail] = n]
         /\ tail' = n
         /\ UNCHANGED head

InsertLink(w) ==
    /\ pc[w] = "insLink"
    /\ LinkNode(fresh[w])
    /\ queue' = Append(queue, fresh[w])
    /\ inserted' = Append(inserted, data[fresh[w]])
    /\ fresh' = [fresh EXCEPT ![w] = NULL]
    /\ SignalAndUnlock(w, "idle", CondVar)
    /\ UNCHANGED <<data, allocated, dummy, peekDone, calls, spurious,
                   peeked, removed>>

(* sbuffer_peek: the first loop waits for the turn ...                     *)
PeekWaitTurn ==
    /\ pc[DataMgr] = "peekTest"
    /\ peekDone
    /\ Unlock(DataMgr, "peekWait")
    /\ UNCHANGED <<list, heap, peekDone, calls, spurious, history>>

(* Fault: the first loop is left out.                                      *)
NoTurnLoop == pc[DataMgr] \in {"peekTest", "peekHead"}

(* ... and is not tested again once the second loop has begun.             *)
PastTurnLoop ==
    \/ pc[DataMgr] = "peekTest" /\ ~peekDone
    \/ pc[DataMgr] = "peekHead"

(* Fault: an id of 0 is taken for any other id.                            *)
AlwaysData(n) == FALSE

(* data->id == 0: the call returns SBUFFER_NO_DATA.                        *)
NoData(n) == data[n] = EOS

PeekWaitData ==
    /\ PastTurnLoop
    /\ head = NULL
    /\ Unlock(DataMgr, "peekWaitData")
    /\ UNCHANGED <<list, heap, peekDone, calls, spurious, history>>

PeekCopy ==
    /\ PastTurnLoop
    /\ head # NULL
    /\ peekDone' = TRUE
    /\ peeked' = peeked + 1
    /\ SignalAndUnlock(DataMgr,
                       IF NoData(head) THEN "done" ELSE "peekLock",
                       CondVarPeek)
    /\ UNCHANGED <<list, heap, calls, spurious, queue, inserted, removed>>

RemoveWait ==
    /\ pc[StorageMgr] = "remTest"
    /\ ~peekDone
    /\ Unlock(StorageMgr, "remWait")
    /\ UNCHANGED <<list, heap, peekDone, calls, spurious, history>>

(* The end-of-stream reading stays in the buffer and nobody is signalled.  *)
RemoveEos ==
    /\ pc[StorageMgr] = "remTest"
    /\ peekDone
    /\ NoData(head)
    /\ Unlock(StorageMgr, "done")
    /\ UNCHANGED <<list, heap, peekDone, calls, spurious, history>>

(* Fault: the case of one node is left out.                                *)
UnlinkKeepTail == head' = next[head] /\ UNCHANGED tail

(* Fault: dummy is taken after the head has moved on.                      *)
FreeNext == next[head]

NodeToFree == head

UnlinkHead ==
    IF head = tail
    THEN /\ head' = NULL
         /\ tail' = NULL
    ELSE /\ head' = next[head]
         /\ UNCHANGED tail

RemoveHead ==
    /\ pc[StorageMgr] = "remTest"
    /\ peekDone
    /\ ~NoData(head)
    /\ dummy' = NodeToFree
    /\ UnlinkHead
    /\ peekDone' = FALSE
    /\ queue' = Tail(queue)
    /\ removed' = removed + 1
    /\ SignalAndUnlock(StorageMgr, "remFree", CondVarPeek)
    /\ UNCHANGED <<next, data, allocated, fresh, calls, spurious,
                   inserted, peeked>>

(* free(dummy) after the unlock, then the storage manager's next call.     *)
RemoveFree ==
    /\ pc[StorageMgr] = "remFree"
    /\ allocated' = allocated \ {dummy}
    /\ dummy' = NULL
    /\ pc' = [pc EXCEPT ![StorageMgr] = "remLock"]
    /\ UNCHANGED <<list, fresh, peekDone, mutex, calls, spurious, history>>

Insert(w) ==
    \/ \E d \in Readings, n \in Nodes \ allocated : InsertAlloc(w, d, n)
    \/ InsertFail(w)
    \/ InsertLink(w)

Peek   == PeekWaitTurn \/ PeekWaitData \/ PeekCopy
Remove == RemoveWait \/ RemoveEos \/ RemoveHead \/ RemoveFree

Next ==
    \/ \E t \in Threads : Acquire(t)
    \/ \E r \in Readers : SpuriousWake(r)
    \/ \E w \in Writers : Insert(w)
    \/ Peek
    \/ Remove

Safety == Init /\ [][Next]_vars

(* A thread that can run does so in the end, and a mutex that stays free   *)
(* is taken.  Nothing obliges a writer to call sbuffer_insert again, and   *)
(* nothing ever obliges a wait to return by itself.                        *)
Fairness ==
    /\ \A t \in Threads : WF_vars(Acquire(t))
    /\ \A w \in Writers : WF_vars(InsertLink(w))
    /\ WF_vars(Peek)
    /\ WF_vars(Remove)

Spec == Safety /\ Fairness

-----------------------------------------------------------------------------
(* What each variable may hold.                                            *)
VariablesTyped ==
    /\ head \in Nodes \cup {NULL}
    /\ tail \in Nodes \cup {NULL}
    /\ next \in [Nodes -> Nodes \cup {NULL}]
    /\ data \in [Nodes -> Readings]
    /\ allocated \in SUBSET Nodes
    /\ peekDone \in BOOLEAN
    /\ mutex \in Threads \cup {NULL}
    /\ pc \in [Threads -> WriterPcs \cup DataMgrPcs \cup StoragePcs]
    /\ \A w \in Writers : pc[w] \in WriterPcs
    /\ pc[DataMgr] \in DataMgrPcs
    /\ pc[StorageMgr] \in StoragePcs
    /\ fresh \in [Writers -> Nodes \cup {NULL}]
    /\ dummy \in Nodes \cup {NULL}
    /\ calls \in 0..MaxCalls
    /\ spurious \in 0..MaxSpurious
    /\ queue \in Seq(Nodes)
    /\ inserted \in Seq(Readings)
    /\ peeked \in Nat
    /\ removed \in Nat

(* Types of every variable, the bounds included: nothing is stored that    *)
(* was not analysed, nor analysed that was not inserted.                   *)
TypeOK ==
    /\ VariablesTyped
    /\ peeked \in 0..Len(inserted)
    /\ removed \in 0..peeked

(* The pointers spell the queue: head and tail are its ends, each node     *)
(* points to its successor, and the last one to nothing.                   *)
ChainShape ==
    /\ Len(queue) = 0 => head = NULL /\ tail = NULL
    /\ Len(queue) > 0 => /\ head = queue[1]
                         /\ tail = queue[Len(queue)]
                         /\ next[tail] = NULL
    /\ \A i \in 1..Len(queue) - 1 : next[queue[i]] = queue[i + 1]

(* The list holds, in insertion order, exactly the readings that were      *)
(* inserted and not removed yet.                                           *)
ChainContent ==
    /\ Len(inserted) = removed + Len(queue)
    /\ \A i \in 1..Len(queue) : data[queue[i]] = inserted[removed + i]

(* The linked list is well formed and carries the stream: no interleaving  *)
(* of sbuffer_insert and sbuffer_remove loses, duplicates or reorders a    *)
(* reading, or leaves head and tail on different lists.                    *)
ChainMatchesStream == ChainShape /\ ChainContent

(* Every node has one owner.  The nodes a reader can reach, the nodes the  *)
(* writers are filling and the node remove is about to free are allocated  *)
(* and pairwise different: free(dummy) after the unlock never takes a node *)
(* that somebody else still uses, and is never a double free.              *)
NodesHaveOneOwner ==
    /\ \A i, j \in 1..Len(queue) : i # j => queue[i] # queue[j]
    /\ \A i \in 1..Len(queue) : queue[i] \in allocated \ {dummy}
    /\ \A w \in Writers : pc[w] # "idle" =>
          /\ fresh[w] \in allocated \ {dummy}
          /\ \A i \in 1..Len(queue) : queue[i] # fresh[w]
          /\ \A v \in Writers \ {w} : fresh[v] # fresh[w]
    /\ pc[StorageMgr] = "remFree" => dummy \in allocated

(* The turn flag tells the truth: it is set exactly while the head has     *)
(* been analysed and not removed, and a set flag means there is a head.    *)
(* This is what keeps line 74 of sbuffer_remove from reading through NULL, *)
(* for that line never looks at head before it.  And sbuffer_peek may skip *)
(* the first loop after its second wait: the turn cannot change meanwhile. *)
TurnIsHonest ==
    /\ peekDone => peeked = removed + 1 /\ head # NULL
    /\ ~peekDone => peeked = removed
    /\ pc[DataMgr] \in {"peekWaitData", "peekRelock", "peekHead"} => ~peekDone

(* No wake-up is lost: nobody sleeps on a condition that already holds,    *)
(* although sbuffer_peek waits on two variables in a row, both readers     *)
(* share cond_var_peek, and every signal wakes one thread only.            *)
NoLostWakeup ==
    /\ pc[DataMgr] = "peekWait" => peekDone
    /\ pc[DataMgr] = "peekWaitData" => head = NULL
    /\ pc[StorageMgr] = "remWait" => ~peekDone

(* The data manager stops at the first end-of-stream reading, the storage  *)
(* manager only after it, and never past it: whatever is inserted behind   *)
(* it, by a sensor whose 16-bit id is 0 say, nobody consumes.              *)
StopAtFirstEos ==
    /\ \A i \in 1..removed : inserted[i] # EOS
    /\ pc[DataMgr] = "done" <=> peeked > 0 /\ inserted[peeked] = EOS
    /\ pc[StorageMgr] = "done" => pc[DataMgr] = "done"

(* Only the storage manager's turn changes what the head is: between a     *)
(* peek and the matching remove the analysed reading stays at the head,    *)
(* so what is stored is what was analysed.                                 *)
AnalysedStaysAtHead ==
    [][peekDone => head' = head \/ (removed' = removed + 1 /\ ~peekDone')]_vars

(* Once an end-of-stream reading is in the buffer both readers finish, if  *)
(* threads that can run do run.                                            *)
EosStopsReaders ==
    (\E i \in 1..Len(inserted) : inserted[i] = EOS)
        ~> (\A r \in Readers : pc[r] = "done")

(* Every reading in front of the first end-of-stream reading leaves the    *)
(* buffer for the database, whatever the writers do from then on.          *)
EveryReadingIsStored ==
    \A i \in 1..MaxCalls :
        (Len(inserted) >= i /\ \A j \in 1..i : inserted[j] # EOS)
            ~> (removed >= i)

(* sbuffer.h:34, "If 'buffer' is empty, the function doesn't block until   *)
(* new sensor data becomes available but returns SBUFFER_NO_DATA".         *)
RemoveDoesNotBlock == pc[StorageMgr] = "remWait" => queue # << >>

-----------------------------------------------------------------------------
(* The buffer implements the feed of readings its header promises.         *)
Feed == INSTANCE SensorFeed WITH
            stream  <- inserted,
            seen    <- peeked,
            stored  <- removed,
            stopped <- (pc[StorageMgr] = "done")

(* sbuffer.c implements SensorFeed: every reading is analysed at most      *)
(* once, then stored at most once, in insertion order, and an              *)
(* end-of-stream reading stops both.                                       *)
FeedSafety == Feed!Safety

(* ... and keeps the feed's progress: what may be analysed or stored is.   *)
FeedProgress == Feed!Fairness
=============================================================================
