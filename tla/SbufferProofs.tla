---------------------------- MODULE SbufferProofs ----------------------------
(***************************************************************************)
(* Proofs about Sbuffer, for any number of writers, nodes and calls: its   *)
(* type invariant and safety invariants, and that every step of it is a    *)
(* step of SensorFeed or changes nothing there.                            *)
(***************************************************************************)
EXTENDS Sbuffer, TLAPS

(* A thread is between lock and unlock exactly when it holds the mutex,    *)
(* and a writer owns a node exactly while it is inside sbuffer_insert.     *)
MutexHeld == \A t \in Threads : Critical(t) <=> mutex = t

FreshOwned == \A w \in Writers : pc[w] = "idle" <=> fresh[w] = NULL

(* A node that waits for the lock to be linked has no successor.           *)
FreshIsLast == \A w \in Writers : pc[w] # "idle" => next[fresh[w]] = NULL

(* remove's dummy is a node only until it has been freed.                  *)
DummyOwned == pc[StorageMgr] # "remFree" => dummy = NULL

(* The inductive invariant: the safety invariants need each other and the  *)
(* two facts above.                                                        *)
IInv ==
    /\ VariablesTyped
    /\ MutexHeld
    /\ FreshOwned
    /\ FreshIsLast
    /\ DummyOwned
    /\ ChainMatchesStream
    /\ NodesHaveOneOwner
    /\ TurnIsHonest
    /\ NoLostWakeup
    /\ StopAtFirstEos

-----------------------------------------------------------------------------
(* Sequences.                                                              *)

(* What Append does to the length and the elements of a sequence.          *)
LEMMA AppendFacts ==
    ASSUME NEW S, NEW s \in Seq(S), NEW x \in S
    PROVE  /\ Append(s, x) \in Seq(S)
           /\ Len(Append(s, x)) = Len(s) + 1
           /\ \A i \in 1..Len(s) : Append(s, x)[i] = s[i]
           /\ Append(s, x)[Len(s) + 1] = x
OBVIOUS

(* What Tail does to the length and the elements of a sequence.            *)
LEMMA TailFacts ==
    ASSUME NEW S, NEW s \in Seq(S), Len(s) > 0
    PROVE  /\ Tail(s) \in Seq(S)
           /\ Len(Tail(s)) = Len(s) - 1
           /\ \A i \in 1..Len(s) - 1 : Tail(s)[i] = s[i + 1]
OBVIOUS

-----------------------------------------------------------------------------
(* Threads and their labels.                                               *)

(* The roles of the threads are apart from each other.                     *)
LEMMA ThreadFacts ==
    /\ Readers \subseteq Threads
    /\ Writers \subseteq Threads
    /\ DataMgr \in Threads
    /\ StorageMgr \in Threads
    /\ DataMgr # StorageMgr
    /\ \A w \in Writers : w # DataMgr /\ w # StorageMgr
    /\ \A t \in Threads : t # NULL
    /\ \A t \in Threads : t \in Writers \/ t = DataMgr \/ t = StorageMgr
BY ConstantsAssumption DEF Threads, Readers, DataMgr, StorageMgr

(* What a signal does to the program counters: the signaller goes to its   *)
(* label, a reader that waits alone is woken, all others stay.             *)
LEMMA SignalEffect ==
    ASSUME pc \in [Threads -> WriterPcs \cup DataMgrPcs \cup StoragePcs],
           NEW t \in Threads, NEW label, NEW waitSet,
           pc[t] \notin waitSet,
           SignalAndUnlock(t, label, waitSet)
    PROVE  /\ mutex' = NULL
           /\ DOMAIN pc' = Threads
           /\ pc'[t] = label
           /\ \A u \in Threads \ {t} :
                 \/ pc'[u] = pc[u]
                 \/ u \in Readers /\ pc[u] \in waitSet /\ pc'[u] = Resumed(pc[u])
           /\ \A u \in Readers \ {t} :
                 (pc[u] \in waitSet
                    /\ \A v \in Readers : pc[v] \in waitSet => v = u)
                 => pc'[u] = Resumed(pc[u])
<1> USE ThreadFacts
<1>1. CASE \E w \in Readers : pc[w] \in waitSet
  <2>1. PICK w \in Readers :
           /\ pc[w] \in waitSet
           /\ pc' = [pc EXCEPT ![t] = label, ![w] = Resumed(pc[w])]
    BY <1>1 DEF SignalAndUnlock
  <2>2. w # t /\ w \in Threads
    BY <2>1
  <2> QED BY <2>1, <2>2 DEF SignalAndUnlock
<1>2. CASE ~\E w \in Readers : pc[w] \in waitSet
  BY <1>2 DEF SignalAndUnlock
<1> QED BY <1>1, <1>2

-----------------------------------------------------------------------------
(* A head pointer that is not NULL points to the oldest reading that was   *)
(* not removed yet.                                                        *)
LEMMA HeadIsOldest ==
    ASSUME IInv, head # NULL
    PROVE  /\ Len(queue) \in Nat \ {0}
           /\ head = queue[1]
           /\ data[head] = inserted[removed + 1]
           /\ Len(inserted) \in Nat
           /\ removed + 1 <= Len(inserted)
<1>1. Len(queue) \in Nat /\ Len(inserted) \in Nat /\ removed \in Nat
  BY DEF IInv, VariablesTyped
<1>2. Len(queue) # 0
  BY DEF IInv, ChainMatchesStream, ChainShape
<1> QED BY <1>1, <1>2 DEF IInv, ChainMatchesStream, ChainShape, ChainContent

(* Each action preserves the inductive invariant.                          *)

(* A thread takes the free mutex and goes on where it waited for it.       *)
LEMMA AcquireInv ==
    ASSUME IInv, NEW t \in Threads, Acquire(t)
    PROVE  IInv'
<1> USE ThreadFacts, ConstantsAssumption DEF IInv
<1>1. VariablesTyped'
  BY DEF Acquire, VariablesTyped, list, heap, history, WriterPcs, DataMgrPcs, StoragePcs, Threads, Locking, Entered, Critical
<1>2. MutexHeld'
  BY DEF Acquire, VariablesTyped, MutexHeld, Critical, WriterPcs, DataMgrPcs, StoragePcs, Locking, Entered, Critical
<1>3. FreshOwned'
  BY DEF Acquire, VariablesTyped, FreshOwned, heap, WriterPcs, DataMgrPcs, StoragePcs, Locking, Entered, Critical
<1>4. ChainMatchesStream'
  BY DEF Acquire, ChainMatchesStream, ChainShape, ChainContent, list, history
<1>5. NodesHaveOneOwner'
  BY DEF Acquire, VariablesTyped, NodesHaveOneOwner, FreshOwned, heap, history, WriterPcs, DataMgrPcs, StoragePcs, Locking, Entered, Critical
<1>6. TurnIsHonest'
  BY DEF Acquire, VariablesTyped, TurnIsHonest, list, history, WriterPcs, DataMgrPcs, StoragePcs, Locking, Entered, Critical
<1>7. NoLostWakeup'
  BY DEF Acquire, VariablesTyped, NoLostWakeup, TurnIsHonest, list, WriterPcs, DataMgrPcs, StoragePcs, Locking, Entered, Critical
<1>8. StopAtFirstEos'
  BY DEF Acquire, VariablesTyped, StopAtFirstEos, TurnIsHonest, history, WriterPcs, DataMgrPcs, StoragePcs, Locking, Entered, Critical
<1>9. FreshIsLast'
  BY DEF Acquire, VariablesTyped, FreshIsLast, list, heap, WriterPcs, DataMgrPcs, StoragePcs, Locking, Entered
<1>10. DummyOwned'
  BY DEF Acquire, VariablesTyped, DummyOwned, heap, WriterPcs, DataMgrPcs, StoragePcs, Locking, Entered
<1> QED BY <1>1, <1>2, <1>3, <1>4, <1>5, <1>6, <1>7, <1>8, <1>9, <1>10

(* A woken waiter only queues for the mutex.                               *)
LEMMA SpuriousWakeInv ==
    ASSUME IInv, NEW r \in Readers, SpuriousWake(r)
    PROVE  IInv'
<1> USE ThreadFacts, ConstantsAssumption DEF IInv
<1>1. VariablesTyped'
  BY DEF SpuriousWake, VariablesTyped, list, heap, history, WriterPcs, DataMgrPcs, StoragePcs, Threads, Resumed, CondVar, CondVarPeek, Readers
<1>2. MutexHeld'
  BY DEF SpuriousWake, VariablesTyped, MutexHeld, Critical, WriterPcs, DataMgrPcs, StoragePcs, Resumed, CondVar, CondVarPeek, Readers
<1>3. FreshOwned'
  BY DEF SpuriousWake, VariablesTyped, FreshOwned, heap, WriterPcs, DataMgrPcs, StoragePcs, Resumed, CondVar, CondVarPeek, Readers
<1>4. ChainMatchesStream'
  BY DEF SpuriousWake, ChainMatchesStream, ChainShape, ChainContent, list, history
<1>5. NodesHaveOneOwner'
  BY DEF SpuriousWake, VariablesTyped, NodesHaveOneOwner, FreshOwned, heap, history, WriterPcs, DataMgrPcs, StoragePcs, Resumed, CondVar, CondVarPeek, Readers
<1>6. TurnIsHonest'
  BY DEF SpuriousWake, VariablesTyped, TurnIsHonest, list, history, WriterPcs, DataMgrPcs, StoragePcs, Resumed, CondVar, CondVarPeek, Readers
<1>7. NoLostWakeup'
  BY DEF SpuriousWake, VariablesTyped, NoLostWakeup, TurnIsHonest, list, WriterPcs, DataMgrPcs, StoragePcs, Resumed, CondVar, CondVarPeek, Readers
<1>8. StopAtFirstEos'
  BY DEF SpuriousWake, VariablesTyped, StopAtFirstEos, TurnIsHonest, history, WriterPcs, DataMgrPcs, StoragePcs, Resumed, CondVar, CondVarPeek, Readers
<1>9. FreshIsLast'
  BY DEF SpuriousWake, VariablesTyped, FreshIsLast, list, heap, WriterPcs, DataMgrPcs, StoragePcs, Resumed, CondVar, CondVarPeek, Readers
<1>10. DummyOwned'
  BY DEF SpuriousWake, VariablesTyped, DummyOwned, heap, WriterPcs, DataMgrPcs, StoragePcs, Resumed, CondVar, CondVarPeek, Readers
<1> QED BY <1>1, <1>2, <1>3, <1>4, <1>5, <1>6, <1>7, <1>8, <1>9, <1>10

(* A failed malloc gives the mutex back and changes nothing else.          *)
LEMMA InsertFailInv ==
    ASSUME IInv, NEW w \in Writers, InsertFail(w)
    PROVE  IInv'
<1> USE ThreadFacts, ConstantsAssumption DEF IInv
<1>1. VariablesTyped'
  BY DEF InsertFail, VariablesTyped, list, heap, history, WriterPcs, DataMgrPcs, StoragePcs, Threads
<1>2. MutexHeld'
  BY DEF InsertFail, VariablesTyped, MutexHeld, Critical, WriterPcs, DataMgrPcs, StoragePcs
<1>3. FreshOwned'
  BY DEF InsertFail, VariablesTyped, FreshOwned, heap, WriterPcs, DataMgrPcs, StoragePcs
<1>4. ChainMatchesStream'
  BY DEF InsertFail, ChainMatchesStream, ChainShape, ChainContent, list, history
<1>5. NodesHaveOneOwner'
  BY DEF InsertFail, VariablesTyped, NodesHaveOneOwner, FreshOwned, heap, history, WriterPcs, DataMgrPcs, StoragePcs
<1>6. TurnIsHonest'
  BY DEF InsertFail, VariablesTyped, TurnIsHonest, list, history, WriterPcs, DataMgrPcs, StoragePcs
<1>7. NoLostWakeup'
  BY DEF InsertFail, VariablesTyped, NoLostWakeup, TurnIsHonest, list, WriterPcs, DataMgrPcs, StoragePcs
<1>8. StopAtFirstEos'
  BY DEF InsertFail, VariablesTyped, StopAtFirstEos, TurnIsHonest, history, WriterPcs, DataMgrPcs, StoragePcs
<1>9. FreshIsLast'
  BY DEF InsertFail, VariablesTyped, FreshIsLast, list, heap, WriterPcs, DataMgrPcs, StoragePcs
<1>10. DummyOwned'
  BY DEF InsertFail, VariablesTyped, DummyOwned, heap, WriterPcs, DataMgrPcs, StoragePcs
<1> QED BY <1>1, <1>2, <1>3, <1>4, <1>5, <1>6, <1>7, <1>8, <1>9, <1>10

(* The data manager goes to sleep when it is not its turn.                 *)
LEMMA PeekWaitTurnInv ==
    ASSUME IInv, PeekWaitTurn
    PROVE  IInv'
<1> USE ThreadFacts, ConstantsAssumption DEF IInv
<1>1. VariablesTyped'
  BY DEF PeekWaitTurn, VariablesTyped, list, heap, history, WriterPcs, DataMgrPcs, StoragePcs, Threads, Unlock, Critical
<1>2. MutexHeld'
  BY DEF PeekWaitTurn, VariablesTyped, MutexHeld, Critical, WriterPcs, DataMgrPcs, StoragePcs, Unlock, Critical
<1>3. FreshOwned'
  BY DEF PeekWaitTurn, VariablesTyped, FreshOwned, heap, WriterPcs, DataMgrPcs, StoragePcs, Unlock, Critical
<1>4. ChainMatchesStream'
  BY DEF PeekWaitTurn, ChainMatchesStream, ChainShape, ChainContent, list, history
<1>5. NodesHaveOneOwner'
  BY DEF PeekWaitTurn, VariablesTyped, NodesHaveOneOwner, FreshOwned, heap, history, WriterPcs, DataMgrPcs, StoragePcs, Unlock, Critical
<1>6. TurnIsHonest'
  BY DEF PeekWaitTurn, VariablesTyped, TurnIsHonest, list, history, WriterPcs, DataMgrPcs, StoragePcs, Unlock, Critical
<1>7. NoLostWakeup'
  BY DEF PeekWaitTurn, VariablesTyped, NoLostWakeup, TurnIsHonest, list, WriterPcs, DataMgrPcs, StoragePcs, Unlock, Critical
<1>8. StopAtFirstEos'
  BY DEF PeekWaitTurn, VariablesTyped, StopAtFirstEos, TurnIsHonest, history, WriterPcs, DataMgrPcs, StoragePcs, Unlock, Critical
<1>9. FreshIsLast'
  BY DEF PeekWaitTurn, VariablesTyped, FreshIsLast, list, heap, WriterPcs, DataMgrPcs, StoragePcs, Unlock
<1>10. DummyOwned'
  BY DEF PeekWaitTurn, VariablesTyped, DummyOwned, heap, WriterPcs, DataMgrPcs, StoragePcs, Unlock
<1> QED BY <1>1, <1>2, <1>3, <1>4, <1>5, <1>6, <1>7, <1>8, <1>9, <1>10

(* The data manager goes to sleep when the buffer is empty.                *)
LEMMA PeekWaitDataInv ==
    ASSUME IInv, PeekWaitData
    PROVE  IInv'
<1> USE ThreadFacts, ConstantsAssumption DEF IInv
<1>1. VariablesTyped'
  BY DEF PeekWaitData, VariablesTyped, list, heap, history, WriterPcs, DataMgrPcs, StoragePcs, Threads, Unlock, PastTurnLoop, Critical
<1>2. MutexHeld'
  BY DEF PeekWaitData, VariablesTyped, MutexHeld, Critical, WriterPcs, DataMgrPcs, StoragePcs, Unlock, PastTurnLoop, Critical
<1>3. FreshOwned'
  BY DEF PeekWaitData, VariablesTyped, FreshOwned, heap, WriterPcs, DataMgrPcs, StoragePcs, Unlock, PastTurnLoop, Critical
<1>4. ChainMatchesStream'
  BY DEF PeekWaitData, ChainMatchesStream, ChainShape, ChainContent, list, history
<1>5. NodesHaveOneOwner'
  BY DEF PeekWaitData, VariablesTyped, NodesHaveOneOwner, FreshOwned, heap, history, WriterPcs, DataMgrPcs, StoragePcs, Unlock, PastTurnLoop, Critical
<1>6. TurnIsHonest'
  BY DEF PeekWaitData, VariablesTyped, TurnIsHonest, list, history, WriterPcs, DataMgrPcs, StoragePcs, Unlock, PastTurnLoop, Critical
<1>7. NoLostWakeup'
  BY DEF PeekWaitData, VariablesTyped, NoLostWakeup, TurnIsHonest, list, WriterPcs, DataMgrPcs, StoragePcs, Unlock, PastTurnLoop, Critical
<1>8. StopAtFirstEos'
  BY DEF PeekWaitData, VariablesTyped, StopAtFirstEos, TurnIsHonest, history, WriterPcs, DataMgrPcs, StoragePcs, Unlock, PastTurnLoop, Critical
<1>9. FreshIsLast'
  BY DEF PeekWaitData, VariablesTyped, FreshIsLast, list, heap, WriterPcs, DataMgrPcs, StoragePcs, Unlock
<1>10. DummyOwned'
  BY DEF PeekWaitData, VariablesTyped, DummyOwned, heap, WriterPcs, DataMgrPcs, StoragePcs, Unlock
<1> QED BY <1>1, <1>2, <1>3, <1>4, <1>5, <1>6, <1>7, <1>8, <1>9, <1>10

(* The storage manager goes to sleep when it is not its turn.              *)
LEMMA RemoveWaitInv ==
    ASSUME IInv, RemoveWait
    PROVE  IInv'
<1> USE ThreadFacts, ConstantsAssumption DEF IInv
<1>1. VariablesTyped'
  BY DEF RemoveWait, VariablesTyped, list, heap, history, WriterPcs, DataMgrPcs, StoragePcs, Threads, Unlock, Critical
<1>2. MutexHeld'
  BY DEF RemoveWait, VariablesTyped, MutexHeld, Critical, WriterPcs, DataMgrPcs, StoragePcs, Unlock, Critical
<1>3. FreshOwned'
  BY DEF RemoveWait, VariablesTyped, FreshOwned, heap, WriterPcs, DataMgrPcs, StoragePcs, Unlock, Critical
<1>4. ChainMatchesStream'
  BY DEF RemoveWait, ChainMatchesStream, ChainShape, ChainContent, list, history
<1>5. NodesHaveOneOwner'
  BY DEF RemoveWait, VariablesTyped, NodesHaveOneOwner, FreshOwned, heap, history, WriterPcs, DataMgrPcs, StoragePcs, Unlock, Critical
<1>6. TurnIsHonest'
  BY DEF RemoveWait, VariablesTyped, TurnIsHonest, list, history, WriterPcs, DataMgrPcs, StoragePcs, Unlock, Critical
<1>7. NoLostWakeup'
  BY DEF RemoveWait, VariablesTyped, NoLostWakeup, TurnIsHonest, list, WriterPcs, DataMgrPcs, StoragePcs, Unlock, Critical
<1>8. StopAtFirstEos'
  BY DEF RemoveWait, VariablesTyped, StopAtFirstEos, TurnIsHonest, history, WriterPcs, DataMgrPcs, StoragePcs, Unlock, Critical
<1>9. FreshIsLast'
  BY DEF RemoveWait, VariablesTyped, FreshIsLast, list, heap, WriterPcs, DataMgrPcs, StoragePcs, Unlock
<1>10. DummyOwned'
  BY DEF RemoveWait, VariablesTyped, DummyOwned, heap, WriterPcs, DataMgrPcs, StoragePcs, Unlock
<1> QED BY <1>1, <1>2, <1>3, <1>4, <1>5, <1>6, <1>7, <1>8, <1>9, <1>10

(* The storage manager stops at the end-of-stream reading.                 *)
LEMMA RemoveEosInv ==
    ASSUME IInv, RemoveEos
    PROVE  IInv'
<1> USE ThreadFacts, ConstantsAssumption DEF IInv
<1>1. VariablesTyped'
  BY DEF RemoveEos, VariablesTyped, list, heap, history, WriterPcs, DataMgrPcs, StoragePcs, Threads, Unlock, Critical
<1>2. MutexHeld'
  BY DEF RemoveEos, VariablesTyped, MutexHeld, Critical, WriterPcs, DataMgrPcs, StoragePcs, Unlock, Critical
<1>3. FreshOwned'
  BY DEF RemoveEos, VariablesTyped, FreshOwned, heap, WriterPcs, DataMgrPcs, StoragePcs, Unlock, Critical
<1>4. ChainMatchesStream'
  BY DEF RemoveEos, ChainMatchesStream, ChainShape, ChainContent, list, history
<1>5. NodesHaveOneOwner'
  BY DEF RemoveEos, VariablesTyped, NodesHaveOneOwner, FreshOwned, heap, history, WriterPcs, DataMgrPcs, StoragePcs, Unlock, Critical
<1>6. TurnIsHonest'
  BY DEF RemoveEos, VariablesTyped, TurnIsHonest, list, history, WriterPcs, DataMgrPcs, StoragePcs, Unlock, Critical
<1>7. NoLostWakeup'
  BY DEF RemoveEos, VariablesTyped, NoLostWakeup, TurnIsHonest, list, WriterPcs, DataMgrPcs, StoragePcs, Unlock, Critical
<1>8. StopAtFirstEos'
  <2>1. peeked = removed + 1 /\ inserted[peeked] = EOS
    BY HeadIsOldest DEF RemoveEos, NoData, TurnIsHonest
  <2>2. pc[DataMgr] = "done"
    BY <2>1 DEF VariablesTyped, StopAtFirstEos
  <2> QED BY <2>2 DEF RemoveEos, VariablesTyped, StopAtFirstEos, history, Unlock
<1>9. FreshIsLast'
  BY DEF RemoveEos, VariablesTyped, FreshIsLast, list, heap, WriterPcs, DataMgrPcs, StoragePcs, Unlock
<1>10. DummyOwned'
  BY DEF RemoveEos, VariablesTyped, DummyOwned, heap, WriterPcs, DataMgrPcs, StoragePcs, Unlock
<1> QED BY <1>1, <1>2, <1>3, <1>4, <1>5, <1>6, <1>7, <1>8, <1>9, <1>10

(* A new node is the writer's own until it is linked.                      *)
LEMMA InsertAllocInv ==
    ASSUME IInv, NEW w \in Writers, NEW d \in Readings, NEW n \in Nodes \ allocated,
           InsertAlloc(w, d, n)
    PROVE  IInv'
<1> USE ThreadFacts, ConstantsAssumption DEF IInv
<1>1. VariablesTyped'
  BY DEF InsertAlloc, VariablesTyped, history, WriterPcs, DataMgrPcs, StoragePcs
<1>2. MutexHeld'
  BY DEF InsertAlloc, VariablesTyped, MutexHeld, Critical, WriterPcs, DataMgrPcs, StoragePcs
<1>3. FreshOwned'
  BY DEF InsertAlloc, VariablesTyped, FreshOwned, WriterPcs, DataMgrPcs, StoragePcs
<1>4. ChainMatchesStream'
  <2>1. Len(queue) \in Nat
    BY DEF VariablesTyped
  <2>2. \A i \in 1..Len(queue) : queue[i] \in Nodes /\ queue[i] # n
    BY DEF VariablesTyped, NodesHaveOneOwner
  <2>3. ChainShape'
    BY <2>1, <2>2 DEF InsertAlloc, VariablesTyped, ChainMatchesStream, ChainShape, history
  <2>4. ChainContent'
    BY <2>1, <2>2 DEF InsertAlloc, VariablesTyped, ChainMatchesStream, ChainContent, history
  <2> QED BY <2>3, <2>4 DEF ChainMatchesStream
<1>5. NodesHaveOneOwner'
  <2>1. dummy # n \/ pc[StorageMgr] # "remFree"
    BY DEF NodesHaveOneOwner
  <2>2. \A v \in Writers \ {w} : pc'[v] = pc[v] /\ fresh'[v] = fresh[v]
    BY DEF InsertAlloc, VariablesTyped
  <2>3. pc'[w] = "insLock" /\ fresh'[w] = n /\ pc'[StorageMgr] = pc[StorageMgr]
    BY DEF InsertAlloc, VariablesTyped
  <2>4. allocated' = allocated \cup {n} /\ dummy' = dummy /\ queue' = queue
    BY DEF InsertAlloc, history
  <2>5. n # NULL /\ n \notin allocated /\ \A v \in Writers : fresh[v] # n
    BY DEF VariablesTyped, NodesHaveOneOwner, FreshOwned
  <2>6. dummy # n
    BY <2>1, <2>5 DEF DummyOwned
  <2> QED BY <2>2, <2>3, <2>4, <2>5, <2>6 DEF NodesHaveOneOwner
<1>6. TurnIsHonest'
  BY DEF InsertAlloc, VariablesTyped, TurnIsHonest, history, WriterPcs, DataMgrPcs, StoragePcs
<1>7. NoLostWakeup'
  BY DEF InsertAlloc, VariablesTyped, NoLostWakeup, WriterPcs, DataMgrPcs, StoragePcs
<1>8. StopAtFirstEos'
  BY DEF InsertAlloc, VariablesTyped, StopAtFirstEos, history, WriterPcs, DataMgrPcs, StoragePcs
<1>9. FreshIsLast'
  BY DEF InsertAlloc, VariablesTyped, FreshIsLast, FreshOwned, NodesHaveOneOwner
<1>10. DummyOwned'
  BY DEF InsertAlloc, VariablesTyped, DummyOwned, heap, WriterPcs, DataMgrPcs, StoragePcs
<1> QED BY <1>1, <1>2, <1>3, <1>4, <1>5, <1>6, <1>7, <1>8, <1>9, <1>10

(* The new node becomes the last of the chain.                             *)
LEMMA InsertLinkInv ==
    ASSUME IInv, NEW w \in Writers, InsertLink(w)
    PROVE  IInv'
<1> USE ThreadFacts, ConstantsAssumption DEF IInv
<1> DEFINE n == fresh[w]
<1>1. /\ n \in Nodes
      /\ n \in allocated
      /\ data[n] \in Readings
      /\ \A i \in 1..Len(queue) : queue[i] \in Nodes /\ queue[i] # n
  BY DEF InsertLink, VariablesTyped, NodesHaveOneOwner, FreshOwned
<1>2. /\ queue' \in Seq(Nodes)
      /\ Len(queue) \in Nat
      /\ Len(queue') = Len(queue) + 1
      /\ \A i \in 1..Len(queue) : queue'[i] = queue[i]
      /\ queue'[Len(queue) + 1] = n
  BY <1>1, AppendFacts DEF InsertLink, VariablesTyped
<1>3. /\ inserted' \in Seq(Readings)
      /\ Len(inserted) \in Nat
      /\ Len(inserted') = Len(inserted) + 1
      /\ \A i \in 1..Len(inserted) : inserted'[i] = inserted[i]
      /\ inserted'[Len(inserted) + 1] = data[n]
  BY <1>1, AppendFacts DEF InsertLink, VariablesTyped
<1>4. /\ mutex' = NULL
      /\ DOMAIN pc' = Threads
      /\ pc'[w] = "idle"
      /\ \A u \in Threads \ {w} :
            \/ pc'[u] = pc[u]
            \/ u = DataMgr /\ pc[u] = "peekWaitData" /\ pc'[u] = "peekRelock"
      /\ pc[DataMgr] = "peekWaitData" => pc'[DataMgr] = "peekRelock"
  <2>1. pc[w] \notin CondVar /\ SignalAndUnlock(w, "idle", CondVar)
    BY DEF InsertLink, CondVar
  <2>2. \A u \in Readers : pc[u] \in CondVar => u = DataMgr
    BY DEF VariablesTyped, Readers, CondVar, WriterPcs, DataMgrPcs, StoragePcs
  <2> QED BY <2>1, <2>2, SignalEffect DEF VariablesTyped, CondVar, Resumed, Readers
<1>5. n # NULL /\ (tail # NULL => Len(queue) > 0 /\ tail = queue[Len(queue)])
  BY <1>1, <1>2 DEF ChainMatchesStream, ChainShape
<1>6. head' \in Nodes /\ tail' = n /\ next' \in [Nodes -> Nodes \cup {NULL}]
  <2>1. CASE tail = NULL
    BY <2>1, <1>1 DEF InsertLink, LinkNode, VariablesTyped
  <2>2. CASE tail # NULL
    <3>1. head \in Nodes
      BY <2>2, <1>2, <1>5 DEF VariablesTyped, ChainMatchesStream, ChainShape
    <3> QED BY <2>2, <3>1, <1>1 DEF InsertLink, LinkNode, VariablesTyped
  <2> QED BY <2>1, <2>2
<1>7. VariablesTyped'
  <2>1. pc' \in [Threads -> WriterPcs \cup DataMgrPcs \cup StoragePcs]
    <3>1. pc' = [t \in Threads |-> pc'[t]]
      BY <1>4 DEF InsertLink, SignalAndUnlock, VariablesTyped
    <3> QED BY <3>1, <1>4 DEF VariablesTyped, WriterPcs, DataMgrPcs, StoragePcs
  <2> QED BY <2>1, <1>1, <1>2, <1>3, <1>4, <1>6 DEF InsertLink, VariablesTyped, WriterPcs, DataMgrPcs, StoragePcs
<1>8. MutexHeld'
  BY <1>4 DEF InsertLink, VariablesTyped, MutexHeld, Critical, WriterPcs, DataMgrPcs, StoragePcs
<1>9. FreshOwned'
  BY <1>4 DEF InsertLink, VariablesTyped, FreshOwned, WriterPcs, DataMgrPcs, StoragePcs
<1>10. ChainShape'
  <2>1. CASE tail = NULL
    <3>1. Len(queue) = 0
      BY <2>1, <1>2 DEF VariablesTyped, ChainMatchesStream, ChainShape
    <3>2. next[n] = NULL
      BY DEF InsertLink, FreshIsLast
    <3> QED BY <2>1, <3>1, <3>2, <1>2 DEF InsertLink, LinkNode, ChainShape
  <2>2. CASE tail # NULL
    <3>1. next' = [next EXCEPT ![tail] = n] /\ tail' = n /\ head' = head
      BY <2>2 DEF InsertLink, LinkNode
    <3>2. \A i \in 1..Len(queue) - 1 : queue[i] # tail
      BY <2>2, <1>5, <1>2 DEF NodesHaveOneOwner
    <3>3. next'[n] = NULL
      BY <3>1, <1>1, <1>2, <1>5, <2>2 DEF InsertLink, FreshIsLast, VariablesTyped
    <3>4. \A i \in 1..Len(queue) : next'[queue'[i]] = queue'[i + 1]
      <4>1. ASSUME NEW i \in 1..Len(queue)
            PROVE  next'[queue'[i]] = queue'[i + 1]
        <5>1. CASE i = Len(queue)
          BY <5>1, <3>1, <1>1, <1>2, <1>5, <2>2 DEF VariablesTyped
        <5>2. CASE i # Len(queue)
          <6>1. i \in 1..Len(queue) - 1 /\ i + 1 \in 1..Len(queue)
            BY <5>2, <1>2
          <6>2. next'[queue[i]] = next[queue[i]]
            BY <6>1, <3>1, <3>2 DEF VariablesTyped
          <6>3. next[queue[i]] = queue[i + 1]
            BY <6>1 DEF ChainMatchesStream, ChainShape
          <6> QED BY <6>1, <6>2, <6>3, <1>2
        <5> QED BY <5>1, <5>2
      <4> QED BY <4>1
    <3> QED BY <3>1, <3>3, <3>4, <1>2, <1>5, <2>2 DEF ChainMatchesStream, ChainShape
  <2> QED BY <2>1, <2>2
<1>11. ChainContent'
  <2>1. Len(inserted) = removed + Len(queue) /\ removed \in Nat
    BY DEF VariablesTyped, ChainMatchesStream, ChainContent
  <2>2. data' = data /\ removed' = removed
    BY DEF InsertLink
  <2>3. \A i \in 1..Len(queue) : data'[queue'[i]] = inserted'[removed' + i]
    BY <1>2, <1>3, <2>1, <2>2 DEF ChainMatchesStream, ChainContent
  <2>4. ASSUME NEW i \in 1..Len(queue')
        PROVE  data'[queue'[i]] = inserted'[removed' + i]
    <3>1. CASE i \in 1..Len(queue)
      BY <3>1, <2>3
    <3>2. CASE i = Len(queue) + 1
      <4>1. queue'[i] = n /\ removed' + i = Len(inserted) + 1
        BY <3>2, <1>2, <1>3, <2>1, <2>2
      <4> QED BY <4>1, <1>3, <2>2
    <3> QED BY <3>1, <3>2, <1>2
  <2>5. Len(inserted') = removed' + Len(queue')
    BY <1>2, <1>3, <2>1, <2>2
  <2> QED BY <2>4, <2>5 DEF ChainContent
<1>12. NodesHaveOneOwner'
  BY <1>1, <1>2, <1>4 DEF InsertLink, VariablesTyped, NodesHaveOneOwner, FreshOwned, WriterPcs, DataMgrPcs, StoragePcs
<1>13. TurnIsHonest'
  BY <1>4, <1>6 DEF InsertLink, VariablesTyped, TurnIsHonest, WriterPcs, DataMgrPcs, StoragePcs
<1>14. NoLostWakeup'
  BY <1>4 DEF InsertLink, VariablesTyped, NoLostWakeup, WriterPcs, DataMgrPcs, StoragePcs
<1>15. StopAtFirstEos'
  <2>1. peeked <= Len(inserted)
    <3>1. CASE peekDone
      BY <3>1, HeadIsOldest DEF VariablesTyped, TurnIsHonest
    <3>2. CASE ~peekDone
      BY <3>2, <1>2, <1>3 DEF VariablesTyped, TurnIsHonest, ChainMatchesStream, ChainContent
    <3> QED BY <3>1, <3>2
  <2>2. removed <= Len(inserted)
    BY <1>2, <1>3 DEF VariablesTyped, ChainMatchesStream, ChainContent
  <2> QED BY <2>1, <2>2, <1>3, <1>4 DEF InsertLink, VariablesTyped, StopAtFirstEos, WriterPcs, DataMgrPcs, StoragePcs
<1>16. FreshIsLast'
  <2>1. \A v \in Writers \ {w} : pc'[v] = pc[v] /\ fresh'[v] = fresh[v]
    BY <1>4 DEF InsertLink, VariablesTyped
  <2>2. \A v \in Writers \ {w} : pc[v] # "idle" => fresh[v] # tail \/ tail = NULL
    BY <1>2, <1>5 DEF NodesHaveOneOwner
  <2>3. \A v \in Writers \ {w} : pc[v] # "idle" => fresh[v] \in Nodes
    BY DEF VariablesTyped, FreshOwned
  <2> QED BY <2>1, <2>2, <2>3, <1>4 DEF InsertLink, LinkNode, VariablesTyped, FreshIsLast
<1>17. DummyOwned'
  BY <1>4 DEF InsertLink, VariablesTyped, DummyOwned, heap, WriterPcs, DataMgrPcs, StoragePcs
<1> QED BY <1>7, <1>8, <1>9, <1>10, <1>11, <1>12, <1>13, <1>14, <1>15, <1>16, <1>17 DEF ChainMatchesStream

(* The data manager copies the head and gives the turn away.               *)
LEMMA PeekCopyInv ==
    ASSUME IInv, PeekCopy
    PROVE  IInv'
<1> USE ThreadFacts, ConstantsAssumption DEF IInv
<1> DEFINE label == IF NoData(head) THEN "done" ELSE "peekLock"
<1>1. /\ Len(queue) \in Nat \ {0}
      /\ data[head] = inserted[removed + 1]
      /\ removed \in Nat
      /\ removed + 1 <= Len(inserted)
  BY HeadIsOldest DEF PeekCopy, VariablesTyped
<1>2. ~peekDone /\ peeked = removed
  BY DEF PeekCopy, PastTurnLoop, TurnIsHonest
<1>3. /\ mutex' = NULL
      /\ DOMAIN pc' = Threads
      /\ pc'[DataMgr] = label
      /\ \A u \in Threads \ {DataMgr} :
            \/ pc'[u] = pc[u]
            \/ u = StorageMgr /\ pc[u] = "remWait" /\ pc'[u] = "remLock"
      /\ pc[StorageMgr] = "remWait" => pc'[StorageMgr] = "remLock"
  <2>1. /\ pc[DataMgr] \notin CondVarPeek
        /\ SignalAndUnlock(DataMgr, label, CondVarPeek)
    BY DEF PeekCopy, PastTurnLoop, CondVarPeek
  <2>2. \A u \in Readers : pc[u] \in CondVarPeek => u = StorageMgr
    BY <2>1 DEF VariablesTyped, Readers
  <2> HIDE DEF label
  <2> QED BY <2>1, <2>2, SignalEffect DEF VariablesTyped, CondVarPeek, Resumed, Readers, StoragePcs
<1>4. VariablesTyped'
  <2>1. pc' \in [Threads -> WriterPcs \cup DataMgrPcs \cup StoragePcs]
    <3>1. pc' = [t \in Threads |-> pc'[t]]
      BY <1>3 DEF PeekCopy, SignalAndUnlock, VariablesTyped
    <3> QED BY <3>1, <1>3 DEF VariablesTyped, WriterPcs, DataMgrPcs, StoragePcs
  <2> QED BY <2>1, <1>3 DEF PeekCopy, VariablesTyped, list, heap, WriterPcs, DataMgrPcs, StoragePcs
<1>5. MutexHeld'
  BY <1>3 DEF PeekCopy, PastTurnLoop, VariablesTyped, MutexHeld, Critical, WriterPcs, DataMgrPcs, StoragePcs
<1>6. FreshOwned'
  BY <1>3 DEF PeekCopy, VariablesTyped, FreshOwned, heap, WriterPcs, DataMgrPcs, StoragePcs
<1>7. ChainMatchesStream'
  BY DEF PeekCopy, ChainMatchesStream, ChainShape, ChainContent, list
<1>8. NodesHaveOneOwner'
  BY <1>3 DEF PeekCopy, VariablesTyped, NodesHaveOneOwner, FreshOwned, heap, WriterPcs, DataMgrPcs, StoragePcs
<1>9. TurnIsHonest'
  BY <1>2, <1>3 DEF PeekCopy, VariablesTyped, TurnIsHonest, list, WriterPcs, DataMgrPcs, StoragePcs
<1>10. NoLostWakeup'
  BY <1>3 DEF PeekCopy, VariablesTyped, NoLostWakeup, list, WriterPcs, DataMgrPcs, StoragePcs
<1>11. StopAtFirstEos'
  BY <1>1, <1>2, <1>3 DEF PeekCopy, PastTurnLoop, NoData, VariablesTyped, StopAtFirstEos, WriterPcs, DataMgrPcs, StoragePcs
<1>12. FreshIsLast'
  BY <1>3 DEF PeekCopy, VariablesTyped, FreshIsLast, list, heap, WriterPcs, DataMgrPcs, StoragePcs
<1>13. DummyOwned'
  BY <1>3 DEF PeekCopy, VariablesTyped, DummyOwned, heap, WriterPcs, DataMgrPcs, StoragePcs
<1> QED BY <1>4, <1>5, <1>6, <1>7, <1>8, <1>9, <1>10, <1>11, <1>12, <1>13

(* The ends of what is left when one of several nodes is taken out.        *)
LEMMA EndsInRange ==
    ASSUME NEW n \in Nat \ {0}, n # 1
    PROVE  1 \in 1..n - 1 /\ n - 1 \in 1..n - 1
OBVIOUS

(* The storage manager takes the head out and gives the turn back.         *)
LEMMA RemoveHeadInv ==
    ASSUME IInv, RemoveHead
    PROVE  IInv'
<1> USE ThreadFacts, ConstantsAssumption DEF IInv
<1>1. /\ Len(queue) \in Nat \ {0}
      /\ head = queue[1]
      /\ data[head] = inserted[removed + 1]
      /\ removed \in Nat
      /\ removed + 1 <= Len(inserted)
      /\ peeked = removed + 1
  BY HeadIsOldest DEF RemoveHead, NoData, VariablesTyped, TurnIsHonest
<1>2. /\ queue' \in Seq(Nodes)
      /\ Len(queue') = Len(queue) - 1
      /\ \A i \in 1..Len(queue) - 1 : queue'[i] = queue[i + 1]
  BY <1>1, TailFacts DEF RemoveHead, VariablesTyped
<1>3. /\ mutex' = NULL
      /\ DOMAIN pc' = Threads
      /\ pc'[StorageMgr] = "remFree"
      /\ \A u \in Threads \ {StorageMgr} :
            \/ pc'[u] = pc[u]
            \/ u = DataMgr /\ pc[u] = "peekWait" /\ pc'[u] = "peekLock"
      /\ pc[DataMgr] = "peekWait" => pc'[DataMgr] = "peekLock"
  <2>1. /\ pc[StorageMgr] \notin CondVarPeek
        /\ SignalAndUnlock(StorageMgr, "remFree", CondVarPeek)
    BY DEF RemoveHead, CondVarPeek
  <2>2. \A u \in Readers : pc[u] \in CondVarPeek => u = DataMgr
    BY <2>1 DEF VariablesTyped, Readers
  <2> QED BY <2>1, <2>2, SignalEffect DEF VariablesTyped, CondVarPeek, Resumed, Readers, DataMgrPcs
<1>4. \A i \in 1..Len(queue) : queue[i] \in Nodes
  BY DEF VariablesTyped
<1>5. head = tail <=> Len(queue) = 1
  <2>1. tail = queue[Len(queue)]
    BY <1>1 DEF ChainMatchesStream, ChainShape
  <2>2. Len(queue) # 1 => queue[1] # queue[Len(queue)]
    <3>1. 1 \in 1..Len(queue) /\ Len(queue) \in 1..Len(queue)
      BY <1>1
    <3> QED BY <3>1 DEF NodesHaveOneOwner
  <2> QED BY <1>1, <2>1, <2>2
<1>6. VariablesTyped'
  <2>1. pc' \in [Threads -> WriterPcs \cup DataMgrPcs \cup StoragePcs]
    <3>1. pc' = [t \in Threads |-> pc'[t]]
      BY <1>3 DEF RemoveHead, SignalAndUnlock, VariablesTyped
    <3> QED BY <3>1, <1>3 DEF VariablesTyped, WriterPcs, DataMgrPcs, StoragePcs
  <2>2. dummy' \in Nodes
    BY <1>1, <1>4 DEF RemoveHead, NodeToFree
  <2>3. head' \in Nodes \cup {NULL} /\ tail' \in Nodes \cup {NULL}
    BY <1>1, <1>4 DEF RemoveHead, UnlinkHead, VariablesTyped
  <2> QED BY <2>1, <2>2, <2>3, <1>1, <1>2, <1>3 DEF RemoveHead, VariablesTyped, WriterPcs, DataMgrPcs, StoragePcs
<1>7. MutexHeld'
  BY <1>3 DEF RemoveHead, VariablesTyped, MutexHeld, Critical, WriterPcs, DataMgrPcs, StoragePcs
<1>8. FreshOwned'
  BY <1>3 DEF RemoveHead, VariablesTyped, FreshOwned, WriterPcs, DataMgrPcs, StoragePcs
<1>9. ChainShape'
  <2>1. CASE Len(queue) = 1
    BY <2>1, <1>2, <1>5 DEF RemoveHead, UnlinkHead, ChainShape
  <2>2. CASE Len(queue) # 1
    <3>1. head' = queue[2] /\ tail' = tail /\ next' = next
      BY <2>2, <1>1, <1>5 DEF RemoveHead, UnlinkHead, ChainMatchesStream, ChainShape
    <3>2. Len(queue') > 0 /\ head' = queue'[1] /\ tail' = queue'[Len(queue')]
      <4>1. 1 \in 1..Len(queue) - 1 /\ Len(queue) - 1 \in 1..Len(queue) - 1
        BY <2>2, <1>1, EndsInRange
      <4>2. tail = queue[Len(queue)]
        BY <1>1 DEF ChainMatchesStream, ChainShape
      <4>3. queue'[1] = queue[2] /\ queue'[Len(queue) - 1] = queue[Len(queue)]
        BY <4>1, <1>1, <1>2
      <4> QED BY <4>1, <4>2, <4>3, <3>1, <1>1, <1>2
    <3>3. next'[tail'] = NULL
      BY <3>1, <1>1 DEF ChainMatchesStream, ChainShape
    <3>4. \A i \in 1..Len(queue') - 1 : next'[queue'[i]] = queue'[i + 1]
      <4>1. \A i \in 1..Len(queue') - 1 :
                i \in 1..Len(queue) - 1 /\ i + 1 \in 1..Len(queue) - 1
        BY <1>1, <1>2
      <4>2. \A i \in 1..Len(queue) - 1 : next[queue[i]] = queue[i + 1]
        BY DEF ChainMatchesStream, ChainShape
      <4> QED BY <4>1, <4>2, <3>1, <1>2
    <3> QED BY <3>2, <3>3, <3>4 DEF ChainShape
  <2> QED BY <2>1, <2>2
<1>10. ChainContent'
  <2>1. data' = data /\ inserted' = inserted /\ removed' = removed + 1
    BY DEF RemoveHead
  <2>2. \A i \in 1..Len(queue) - 1 : data[queue[i + 1]] = inserted[removed + 1 + i]
    BY <1>1 DEF ChainMatchesStream, ChainContent
  <2>3. Len(inserted) = removed + Len(queue)
    BY DEF ChainMatchesStream, ChainContent
  <2>4. ASSUME NEW i \in 1..Len(queue')
        PROVE  data'[queue'[i]] = inserted'[removed' + i]
    <3>1. i \in 1..Len(queue) - 1 /\ i + 1 \in 1..Len(queue)
      BY <1>1, <1>2
    <3>2. data'[queue'[i]] = data[queue[i + 1]]
      BY <3>1, <1>2, <2>1
    <3>3. removed' + i = removed + 1 + i
      BY <3>1, <2>1, <1>1
    <3> QED BY <3>1, <3>2, <3>3, <2>1, <2>2
  <2>5. Len(inserted') = removed' + Len(queue')
    BY <1>1, <1>2, <2>1, <2>3
  <2> QED BY <2>4, <2>5 DEF ChainContent
<1>11. NodesHaveOneOwner'
  BY <1>1, <1>2, <1>3, <1>4 DEF RemoveHead, NodeToFree, VariablesTyped, NodesHaveOneOwner, FreshOwned, WriterPcs, DataMgrPcs, StoragePcs
<1>12. TurnIsHonest'
  BY <1>1, <1>3 DEF RemoveHead, VariablesTyped, TurnIsHonest, WriterPcs, DataMgrPcs, StoragePcs
<1>13. NoLostWakeup'
  BY <1>3 DEF RemoveHead, VariablesTyped, TurnIsHonest, NoLostWakeup, WriterPcs, DataMgrPcs, StoragePcs
<1>14. StopAtFirstEos'
  <2>1. /\ inserted' = inserted /\ peeked' = peeked /\ removed' = removed + 1
        /\ inserted[removed + 1] # EOS
    BY <1>1 DEF RemoveHead, NoData
  <2>2. \A i \in 1..removed' : inserted'[i] # EOS
    BY <1>1, <2>1 DEF StopAtFirstEos
  <2>3. pc'[StorageMgr] # "done" /\ (pc'[DataMgr] = "done" <=> pc[DataMgr] = "done")
    BY <1>3
  <2> QED BY <2>1, <2>2, <2>3 DEF StopAtFirstEos
<1>15. FreshIsLast'
  BY <1>3 DEF RemoveHead, VariablesTyped, FreshIsLast, list, heap, WriterPcs, DataMgrPcs, StoragePcs
<1>16. DummyOwned'
  BY <1>3 DEF RemoveHead, VariablesTyped, DummyOwned, heap, WriterPcs, DataMgrPcs, StoragePcs
<1> QED BY <1>6, <1>7, <1>8, <1>9, <1>10, <1>11, <1>12, <1>13, <1>14, <1>15, <1>16 DEF ChainMatchesStream

(* The node that was taken out is freed once.                              *)
LEMMA RemoveFreeInv ==
    ASSUME IInv, RemoveFree
    PROVE  IInv'
<1> USE ThreadFacts, ConstantsAssumption DEF IInv
<1>1. VariablesTyped'
  BY DEF RemoveFree, VariablesTyped, list, history, WriterPcs, DataMgrPcs, StoragePcs
<1>2. MutexHeld'
  BY DEF RemoveFree, VariablesTyped, MutexHeld, Critical, WriterPcs, DataMgrPcs, StoragePcs
<1>3. FreshOwned'
  BY DEF RemoveFree, VariablesTyped, FreshOwned, WriterPcs, DataMgrPcs, StoragePcs
<1>4. ChainMatchesStream'
  BY DEF RemoveFree, ChainMatchesStream, ChainShape, ChainContent, list, history
<1>5. NodesHaveOneOwner'
  <2>1. \A i \in 1..Len(queue) : queue[i] \in Nodes
    BY DEF VariablesTyped
  <2>2. \A w \in Writers : pc[w] # "idle" => fresh[w] \in Nodes
    BY DEF VariablesTyped, FreshOwned
  <2>3. /\ allocated' = allocated \ {dummy} /\ dummy' = NULL
        /\ queue' = queue /\ fresh' = fresh
        /\ pc'[StorageMgr] = "remLock"
        /\ \A w \in Writers : pc'[w] = pc[w]
    BY DEF RemoveFree, VariablesTyped, history
  <2> QED BY <2>1, <2>2, <2>3 DEF NodesHaveOneOwner
<1>6. TurnIsHonest'
  BY DEF RemoveFree, VariablesTyped, TurnIsHonest, list, history, WriterPcs, DataMgrPcs, StoragePcs
<1>7. NoLostWakeup'
  BY DEF RemoveFree, VariablesTyped, NoLostWakeup, list, WriterPcs, DataMgrPcs, StoragePcs
<1>8. StopAtFirstEos'
  BY DEF RemoveFree, VariablesTyped, StopAtFirstEos, history, WriterPcs, DataMgrPcs, StoragePcs
<1>9. FreshIsLast'
  BY DEF RemoveFree, VariablesTyped, FreshIsLast, list, heap, WriterPcs, DataMgrPcs, StoragePcs
<1>10. DummyOwned'
  BY DEF RemoveFree, VariablesTyped, DummyOwned, heap, WriterPcs, DataMgrPcs, StoragePcs
<1> QED BY <1>1, <1>2, <1>3, <1>4, <1>5, <1>6, <1>7, <1>8, <1>9, <1>10

-----------------------------------------------------------------------------
(* The theorems.                                                           *)

(* The initial states satisfy the invariant.                               *)
LEMMA InitInv == Init => IInv
<1> SUFFICES ASSUME Init PROVE IInv
  OBVIOUS
<1> USE ThreadFacts, ConstantsAssumption DEF Init
<1>1. /\ pc \in [Threads -> {"peekLock", "remLock", "idle"}]
      /\ pc[DataMgr] = "peekLock"
      /\ pc[StorageMgr] = "remLock"
      /\ \A w \in Writers : pc[w] = "idle"
  OBVIOUS
<1>2. Len(queue) = 0 /\ queue \in Seq(Nodes) /\ inserted \in Seq(Readings)
  OBVIOUS
<1>3. VariablesTyped
  <2>1. next \in [Nodes -> Nodes \cup {NULL}] /\ data \in [Nodes -> Readings]
    BY DEF Readings
  <2>2. pc \in [Threads -> WriterPcs \cup DataMgrPcs \cup StoragePcs]
    BY <1>1 DEF WriterPcs, DataMgrPcs, StoragePcs
  <2>3. /\ \A w \in Writers : pc[w] \in WriterPcs
        /\ pc[DataMgr] \in DataMgrPcs
        /\ pc[StorageMgr] \in StoragePcs
    BY <1>1 DEF WriterPcs, DataMgrPcs, StoragePcs
  <2>4. fresh \in [Writers -> Nodes \cup {NULL}]
    OBVIOUS
  <2>5. calls \in 0..MaxCalls /\ spurious \in 0..MaxSpurious
    OBVIOUS
  <2>6. /\ head \in Nodes \cup {NULL} /\ tail \in Nodes \cup {NULL}
        /\ mutex \in Threads \cup {NULL} /\ dummy \in Nodes \cup {NULL}
        /\ allocated \in SUBSET Nodes /\ peekDone \in BOOLEAN
        /\ peeked \in Nat /\ removed \in Nat
    OBVIOUS
  <2> HIDE DEF Init
  <2> QED BY <1>2, <2>1, <2>2, <2>3, <2>4, <2>5, <2>6 DEF VariablesTyped
<1>4. MutexHeld
  BY <1>1 DEF MutexHeld, Critical
<1>5. FreshOwned /\ FreshIsLast /\ DummyOwned
  BY <1>1 DEF FreshOwned, FreshIsLast, DummyOwned
<1>6. ChainMatchesStream
  BY <1>2 DEF ChainMatchesStream, ChainShape, ChainContent
<1>7. NodesHaveOneOwner /\ TurnIsHonest /\ NoLostWakeup /\ StopAtFirstEos
  BY <1>1, <1>2 DEF NodesHaveOneOwner, TurnIsHonest, NoLostWakeup, StopAtFirstEos
<1> QED BY <1>3, <1>4, <1>5, <1>6, <1>7 DEF IInv

(* A stuttering step keeps the invariant.                                  *)
LEMMA StutterInv == IInv /\ UNCHANGED vars => IInv'
BY DEF IInv, vars, list, heap, history, VariablesTyped, MutexHeld, Critical, FreshOwned,
       FreshIsLast, DummyOwned, ChainMatchesStream, ChainShape, ChainContent,
       NodesHaveOneOwner, TurnIsHonest, NoLostWakeup, StopAtFirstEos

(* Every step keeps the invariant.                                         *)
LEMMA NextInv == IInv /\ [Next]_vars => IInv'
<1> SUFFICES ASSUME IInv, [Next]_vars PROVE IInv'
  OBVIOUS
<1>1. CASE \E t \in Threads : Acquire(t)
  BY <1>1, AcquireInv
<1>2. CASE \E r \in Readers : SpuriousWake(r)
  BY <1>2, SpuriousWakeInv
<1>3. CASE \E w \in Writers : Insert(w)
  BY <1>3, InsertAllocInv, InsertFailInv, InsertLinkInv DEF Insert
<1>4. CASE Peek
  BY <1>4, PeekWaitTurnInv, PeekWaitDataInv, PeekCopyInv DEF Peek
<1>5. CASE Remove
  BY <1>5, RemoveWaitInv, RemoveEosInv, RemoveHeadInv, RemoveFreeInv DEF Remove
<1>6. CASE UNCHANGED vars
  BY <1>6, StutterInv
<1> QED BY <1>1, <1>2, <1>3, <1>4, <1>5, <1>6 DEF Next

(* The inductive invariant holds in every reachable state.                 *)
THEOREM Inductive == Safety => []IInv
BY InitInv, NextInv, PTL DEF Safety

(* Every variable keeps its type and its bounds, for all constants: the    *)
(* storage manager is never ahead of the data manager, nor that one of the *)
(* stream.                                                                 *)
THEOREM TypeCorrect == Safety => []TypeOK
<1>1. IInv => TypeOK
  <2> SUFFICES ASSUME IInv PROVE TypeOK
    OBVIOUS
  <2>1. VariablesTyped /\ ChainMatchesStream /\ TurnIsHonest
    BY DEF IInv
  <2>2. /\ peeked \in Nat /\ removed \in Nat /\ peekDone \in BOOLEAN
        /\ queue \in Seq(Nodes) /\ Len(queue) \in Nat
    BY <2>1 DEF VariablesTyped
  <2>3. Len(inserted) = removed + Len(queue) /\ (Len(queue) = 0 => head = NULL)
    BY <2>1 DEF ChainMatchesStream, ChainShape, ChainContent
  <2>4. removed <= peeked /\ peeked <= Len(inserted)
    <3>1. CASE peekDone
      BY <2>1, <2>2, <2>3, <3>1 DEF TurnIsHonest
    <3>2. CASE ~peekDone
      BY <2>1, <2>2, <2>3, <3>2 DEF TurnIsHonest
    <3> QED BY <2>2, <3>1, <3>2
  <2> QED BY <2>1, <2>2, <2>3, <2>4 DEF TypeOK
<1> QED BY <1>1, Inductive, PTL

(* The linked list always carries the unconsumed part of the stream.       *)
THEOREM ChainCorrect == Safety => []ChainMatchesStream
<1>1. IInv => ChainMatchesStream
  BY DEF IInv
<1> QED BY <1>1, Inductive, PTL

(* No node is used after free, freed twice or shared.                      *)
THEOREM MemorySafe == Safety => []NodesHaveOneOwner
<1>1. IInv => NodesHaveOneOwner
  BY DEF IInv
<1> QED BY <1>1, Inductive, PTL

(* The turn flag is right, so sbuffer_remove never reads through NULL.     *)
THEOREM TurnCorrect == Safety => []TurnIsHonest
<1>1. IInv => TurnIsHonest
  BY DEF IInv
<1> QED BY <1>1, Inductive, PTL

(* No reader sleeps on a condition that holds.                             *)
THEOREM WakeupsKept == Safety => []NoLostWakeup
<1>1. IInv => NoLostWakeup
  BY DEF IInv
<1> QED BY <1>1, Inductive, PTL

(* The readers stop at the first end-of-stream reading.                    *)
THEOREM EosCorrect == Safety => []StopAtFirstEos
<1>1. IInv => StopAtFirstEos
  BY DEF IInv
<1> QED BY <1>1, Inductive, PTL

(* An analysed reading stays at the head until it is removed.              *)
THEOREM AnalysedStays == Safety => AnalysedStaysAtHead
<1>1. ASSUME IInv, [Next]_vars
      PROVE  [peekDone => head' = head \/ (removed' = removed + 1 /\ ~peekDone')]_vars
  <2> SUFFICES ASSUME peekDone, Next, ~(removed' = removed + 1 /\ ~peekDone')
               PROVE  head' = head
    BY <1>1
  <2>1. CASE \E t \in Threads : Acquire(t)
    BY <2>1 DEF Acquire, list
  <2>2. CASE \E r \in Readers : SpuriousWake(r)
    BY <2>2 DEF SpuriousWake, list
  <2>3. CASE \E w \in Writers : Insert(w)
    <3>1. head # NULL /\ tail # NULL
      <4>1. head # NULL
        BY <1>1 DEF IInv, TurnIsHonest
      <4>2. Len(queue) \in Nat \ {0} /\ queue \in Seq(Nodes)
        BY <1>1, <4>1, HeadIsOldest DEF IInv, VariablesTyped
      <4> QED BY <1>1, <4>1, <4>2, ConstantsAssumption
              DEF IInv, ChainMatchesStream, ChainShape
    <3> QED BY <2>3, <3>1 DEF Insert, InsertAlloc, InsertFail, InsertLink, LinkNode, list
  <2>4. CASE Peek
    BY <2>4 DEF Peek, PeekWaitTurn, PeekWaitData, PeekCopy, list
  <2>5. CASE Remove
    BY <2>5 DEF Remove, RemoveWait, RemoveEos, RemoveHead, RemoveFree, list
  <2> QED BY <2>1, <2>2, <2>3, <2>4, <2>5 DEF Next
<1> QED BY <1>1, Inductive, PTL DEF Safety, AnalysedStaysAtHead

-----------------------------------------------------------------------------
(* Refinement: every step of the buffer is a step of the feed or none.     *)

(* The initial states of the buffer are initial states of the feed.        *)
LEMMA FeedInitial == Init => Feed!Init
BY ThreadFacts DEF Init, Feed!Init

(* A step that leaves the stream's history alone and does not end the      *)
(* storage manager is invisible in the feed.                               *)
LEMMA FeedStutter ==
    ASSUME UNCHANGED history,
           pc'[StorageMgr] = "done" <=> pc[StorageMgr] = "done"
    PROVE  UNCHANGED Feed!vars
BY DEF history, Feed!vars

(* Every step of the buffer is a step of the feed or invisible in it.      *)
LEMMA FeedStep == IInv /\ IInv' /\ [Next]_vars => [Feed!Next]_(Feed!vars)
<1> SUFFICES ASSUME IInv, [Next]_vars
             PROVE  Feed!Next \/ UNCHANGED Feed!vars
  OBVIOUS
<1> USE ThreadFacts DEF IInv
<1>1. ASSUME NEW t \in Threads, Acquire(t)
      PROVE  UNCHANGED Feed!vars
  BY <1>1, FeedStutter DEF Acquire, VariablesTyped, Locking, Entered, StoragePcs, DataMgrPcs, WriterPcs
<1>2. ASSUME NEW r \in Readers, SpuriousWake(r)
      PROVE  UNCHANGED Feed!vars
  BY <1>2, FeedStutter DEF SpuriousWake, VariablesTyped, Resumed, CondVar, CondVarPeek
<1>3. ASSUME NEW w \in Writers, Insert(w)
      PROVE  Feed!Next \/ UNCHANGED Feed!vars
  <2>1. ASSUME NEW d \in Readings, NEW n \in Nodes \ allocated, InsertAlloc(w, d, n)
        PROVE  UNCHANGED Feed!vars
    BY <2>1, FeedStutter DEF InsertAlloc, VariablesTyped
  <2>2. CASE InsertFail(w)
    BY <2>2, FeedStutter DEF InsertFail
  <2>3. CASE InsertLink(w)
    <3>1. data[fresh[w]] \in Readings
      BY <2>3 DEF InsertLink, VariablesTyped, FreshOwned
    <3>2. pc'[StorageMgr] = "done" <=> pc[StorageMgr] = "done"
      <4>1. pc[w] \notin CondVar /\ SignalAndUnlock(w, "idle", CondVar)
        BY <2>3 DEF InsertLink, CondVar
      <4> QED BY <4>1, SignalEffect DEF VariablesTyped, CondVar, StoragePcs
    <3>3. Feed!Accept(data[fresh[w]])
      BY <2>3, <3>2 DEF InsertLink, Feed!Accept
    <3> QED BY <3>1, <3>3 DEF Feed!Next, Readings
  <2> QED BY <1>3, <2>1, <2>2, <2>3 DEF Insert
<1>4. CASE Peek
  <2>1. CASE PeekWaitTurn
    BY <2>1, FeedStutter DEF PeekWaitTurn, Unlock, VariablesTyped
  <2>2. CASE PeekWaitData
    BY <2>2, FeedStutter DEF PeekWaitData, Unlock, VariablesTyped
  <2>3. CASE PeekCopy
    <3>1. ~peekDone /\ pc[DataMgr] # "done" /\ pc[DataMgr] \notin CondVarPeek
      BY <2>3 DEF PeekCopy, PastTurnLoop, TurnIsHonest, CondVarPeek
    <3>2. peeked = removed /\ peeked < Len(inserted)
      BY <2>3, <3>1, HeadIsOldest DEF PeekCopy, TurnIsHonest, VariablesTyped
    <3>3. pc'[StorageMgr] = "done" <=> pc[StorageMgr] = "done"
      <4>1. SignalAndUnlock(DataMgr, IF NoData(head) THEN "done" ELSE "peekLock",
                            CondVarPeek)
        BY <2>3 DEF PeekCopy
      <4>2. pc[StorageMgr] = "remWait" \/ pc[StorageMgr] \notin CondVarPeek
        BY DEF VariablesTyped, StoragePcs, CondVarPeek
      <4>3. \/ pc'[StorageMgr] = pc[StorageMgr]
            \/ pc[StorageMgr] \in CondVarPeek /\ pc'[StorageMgr] = Resumed(pc[StorageMgr])
        BY <3>1, <4>1, SignalEffect DEF VariablesTyped
      <4> QED BY <4>2, <4>3 DEF Resumed
    <3>4. ~Feed!AnalysisEnded
      BY <3>1 DEF StopAtFirstEos, Feed!AnalysisEnded
    <3>5. Feed!Analyse
      BY <2>3, <3>2, <3>3, <3>4 DEF PeekCopy, Feed!Analyse
    <3> QED BY <3>5 DEF Feed!Next
  <2> QED BY <1>4, <2>1, <2>2, <2>3 DEF Peek
<1>5. CASE Remove
  <2>1. CASE RemoveWait
    BY <2>1, FeedStutter DEF RemoveWait, Unlock, VariablesTyped
  <2>2. CASE RemoveFree
    BY <2>2, FeedStutter DEF RemoveFree, VariablesTyped
  <2>3. CASE RemoveEos
    <3>1. removed < peeked /\ inserted[removed + 1] = EOS
      BY <2>3, HeadIsOldest DEF RemoveEos, NoData, TurnIsHonest, VariablesTyped
    <3>2. pc'[StorageMgr] = "done" /\ pc[StorageMgr] # "done"
      BY <2>3 DEF RemoveEos, Unlock, VariablesTyped
    <3>3. Feed!Stop
      BY <2>3, <3>1, <3>2 DEF RemoveEos, history, Feed!Stop
    <3> QED BY <3>3 DEF Feed!Next
  <2>4. CASE RemoveHead
    <3>1. removed < peeked /\ inserted[removed + 1] # EOS
      BY <2>4, HeadIsOldest DEF RemoveHead, NoData, TurnIsHonest, VariablesTyped
    <3>2. pc'[StorageMgr] = "remFree" /\ pc[StorageMgr] = "remTest"
      <4>1. pc[StorageMgr] \notin CondVarPeek
            /\ SignalAndUnlock(StorageMgr, "remFree", CondVarPeek)
        BY <2>4 DEF RemoveHead, CondVarPeek
      <4> QED BY <2>4, <4>1, SignalEffect DEF VariablesTyped, RemoveHead
    <3>3. Feed!Store
      BY <2>4, <3>1, <3>2 DEF RemoveHead, Feed!Store
    <3> QED BY <3>3 DEF Feed!Next
  <2> QED BY <1>5, <2>1, <2>2, <2>3, <2>4 DEF Remove
<1>6. CASE UNCHANGED vars
  BY <1>6 DEF vars, history, Feed!vars
<1> QED BY <1>1, <1>2, <1>3, <1>4, <1>5, <1>6 DEF Next

(* The pointer-level buffer implements the feed's safety part: readings    *)
(* are analysed and stored in order, once, one at a time, up to the first  *)
(* end-of-stream reading.                                                  *)
THEOREM FeedRefinement == Safety => FeedSafety
BY FeedInitial, FeedStep, Inductive, PTL DEF Safety, FeedSafety, Feed!Safety
=============================================================================
