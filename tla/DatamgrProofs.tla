---------------------------- MODULE DatamgrProofs ----------------------------
(***************************************************************************)
(* Proofs about Datamgr: its types, that the window of every sensor holds  *)
(* that sensor's newest temperatures, and that what is logged follows from *)
(* their average, for any map, any number of sensors and readings, and any *)
(* RUN_AVG_LENGTH.                                                         *)
(***************************************************************************)
EXTENDS Datamgr, TLAPS

(* While the map is read no reading has arrived.                           *)
MapFirst ==
    pc = "map" => \A s \in SensorIds : arrived[s] = << >> /\ lastTime[s] = 0

(* A sensor that has not been heard of has no time either.                 *)
IInv == TypeOK /\ WindowIsRecent /\ MapFirst

(* A sensor has one first element.                                         *)
LEMMA IndexUnique ==
    ASSUME NEW s, NEW i, NEW j, IsIndexOf(i, s), IsIndexOf(j, s), Len(sensorList) \in Nat
    PROVE  i = j
<1>1. i \in Nat /\ j \in Nat
    BY DEF IsIndexOf
<1>2. ~(i < j)
    BY <1>1 DEF IsIndexOf
<1>3. ~(j < i)
    BY <1>1 DEF IsIndexOf
<1> QED
    BY <1>1, <1>2, <1>3

(* Recording a temperature keeps the type of an element and its sensor,    *)
(* and sets its time.                                                      *)
LEMMA RecordedType ==
    ASSUME NEW e \in Element, NEW t \in Temps, NEW ts \in Times
    PROVE  /\ Recorded(e, t, ts) \in Element
           /\ Recorded(e, t, ts).sensorId = e.sensorId
           /\ Recorded(e, t, ts).lastModified = ts
<1>1. t \in Int /\ ts \in Nat /\ RUN_AVG_LENGTH \in Nat \ {0}
    BY DatamgrAssumption DEF DatamgrAssumption
<1>2. CASE e.insertedData = RUN_AVG_LENGTH
    <2>1. Shifted(e, t) \in [1..RUN_AVG_LENGTH -> Int]
        BY <1>1 DEF Shifted, Element
    <2> QED
        BY <1>1, <1>2, <2>1 DEF Recorded, Element
<1>3. CASE e.insertedData # RUN_AVG_LENGTH
    <2>1. e.insertedData + 1 \in 1..RUN_AVG_LENGTH
        BY <1>1, <1>3 DEF Element
    <2>2. [e.runningAvg EXCEPT ![e.insertedData + 1] = t] \in [1..RUN_AVG_LENGTH -> Int]
        BY <1>1, <2>1 DEF Element
    <2>3. Recorded(e, t, ts)
              = [roomId |-> e.roomId, sensorId |-> e.sensorId,
                 runningAvg |-> [e.runningAvg EXCEPT ![e.insertedData + 1] = t],
                 insertedData |-> e.insertedData + 1, lastModified |-> ts]
        BY <1>3 DEF Recorded, Element
    <2>4. e.insertedData + 1 \in 0..RUN_AVG_LENGTH
        BY <1>1, <2>1
    <2> QED
        BY <1>1, <2>2, <2>3, <2>4 DEF Element
<1> QED
    BY <1>2, <1>3

(* Recording the next temperature keeps the window the newest ones: while  *)
(* it fills the new value goes behind the others, and when it is full all  *)
(* of them move up by one.                                                 *)
LEMMA RecordedNewest ==
    ASSUME NEW e \in Element, NEW t \in Temps, NEW ts \in Times,
           NEW temps \in Seq(Temps), HoldsNewest(e, temps)
    PROVE  HoldsNewest(Recorded(e, t, ts), Append(temps, t))
<1> DEFINE n   == Len(temps)
           all == Append(temps, t)
           r   == Recorded(e, t, ts)
<1>1. n \in Nat /\ RUN_AVG_LENGTH \in Nat \ {0} /\ t \in Int
    BY DatamgrAssumption DEF DatamgrAssumption
<1>2. Len(all) = n + 1 /\ all[n + 1] = t /\ \A k \in 1..n : all[k] = temps[k]
    OBVIOUS
<1>3. CASE e.insertedData = RUN_AVG_LENGTH
    <2>1. n >= RUN_AVG_LENGTH
        BY <1>1, <1>3 DEF HoldsNewest
    <2>2. r.insertedData = RUN_AVG_LENGTH /\ r.runningAvg = Shifted(e, t)
        BY <1>3 DEF Recorded, Element
    <2>3. \A k \in 1..RUN_AVG_LENGTH :
              r.runningAvg[k] = all[n + 1 - RUN_AVG_LENGTH + k]
        <3>1. TAKE k \in 1..RUN_AVG_LENGTH
        <3>2. CASE k = RUN_AVG_LENGTH
            BY <1>1, <1>2, <2>2, <3>2 DEF Shifted
        <3>3. CASE k < RUN_AVG_LENGTH
            <4>1. r.runningAvg[k] = e.runningAvg[k + 1]
                BY <1>1, <2>2, <3>3 DEF Shifted
            <4>2. k + 1 \in 1..e.insertedData
                BY <1>1, <1>3, <3>3
            <4>3. e.runningAvg[k + 1] = temps[n - RUN_AVG_LENGTH + (k + 1)]
                BY <1>3, <4>2 DEF HoldsNewest
            <4>4. n + 1 - RUN_AVG_LENGTH + k \in 1..n
                BY <1>1, <2>1, <3>3
            <4>5. n - RUN_AVG_LENGTH + (k + 1) = n + 1 - RUN_AVG_LENGTH + k
                BY <1>1
            <4> QED
                BY <1>2, <4>1, <4>3, <4>4, <4>5
        <3>4. k = RUN_AVG_LENGTH \/ k < RUN_AVG_LENGTH
            BY <1>1
        <3> QED
            BY <3>2, <3>3, <3>4
    <2>4. Len(all) >= RUN_AVG_LENGTH /\ Len(all) - RUN_AVG_LENGTH = n + 1 - RUN_AVG_LENGTH
        BY <1>1, <1>2, <2>1
    <2> QED
        BY <1>1, <1>2, <2>2, <2>3, <2>4 DEF HoldsNewest
<1>4. CASE e.insertedData # RUN_AVG_LENGTH
    <2>1. n < RUN_AVG_LENGTH /\ e.insertedData = n
        BY <1>1, <1>4 DEF HoldsNewest
    <2>2. /\ r.insertedData = n + 1
          /\ r.runningAvg = [e.runningAvg EXCEPT ![n + 1] = t]
        BY <1>4, <2>1 DEF Recorded, Element
    <2>3. \A k \in 1..n + 1 : r.runningAvg[k] = all[k]
        <3>1. TAKE k \in 1..n + 1
        <3>2. e.runningAvg \in [1..RUN_AVG_LENGTH -> Int] /\ k \in 1..RUN_AVG_LENGTH
            BY <1>1, <2>1 DEF Element
        <3>3. CASE k = n + 1
            BY <1>2, <2>2, <3>2, <3>3
        <3>4. CASE k # n + 1
            <4>1. k \in 1..n
                BY <1>1, <3>4
            <4>2. e.runningAvg[k] = temps[k]
                BY <1>1, <2>1, <4>1 DEF HoldsNewest
            <4> QED
                BY <1>2, <2>2, <3>2, <3>4, <4>1, <4>2
        <3> QED
            BY <3>3, <3>4
    <2> QED
        BY <1>1, <1>2, <2>1, <2>2, <2>3 DEF HoldsNewest
<1> QED
    BY <1>3, <1>4

-----------------------------------------------------------------------------
(* The initial states satisfy the invariant.                               *)
LEMMA InitInv == Init => IInv
<1> SUFFICES ASSUME Init PROVE IInv
    OBVIOUS
<1>1. TypeOK
    BY DEF Init, TypeOK
<1>2. WindowIsRecent /\ MapFirst
    BY DEF Init, WindowIsRecent, MapFirst
<1> QED
    BY <1>1, <1>2 DEF IInv

(* A line of the map adds an empty element, whether its sensor is new or   *)
(* not: nothing has arrived yet.                                           *)
LEMMA ReadMapLineInv ==
    ASSUME IInv, NEW room \in RoomIds, NEW s \in SensorIds, ReadMapLine(room, s)
    PROVE  IInv'
<1> DEFINE new == [roomId |-> room, sensorId |-> s,
                   runningAvg |-> [k \in 1..RUN_AVG_LENGTH |-> 0],
                   insertedData |-> 0, lastModified |-> 0]
           len == Len(sensorList)
<1>1. RUN_AVG_LENGTH \in Nat \ {0}
    BY DatamgrAssumption DEF DatamgrAssumption
<1>2. /\ TypeOK /\ WindowIsRecent /\ MapFirst /\ pc = "map"
      /\ sensorList' = Append(sensorList, new)
      /\ UNCHANGED <<pc, lastId, verdict, arrived, lastTime>>
    BY DEF IInv, ReadMapLine
<1>3. new \in Element
    BY <1>1 DEF Element
<1>4. sensorList \in Seq(Element) /\ len \in Nat
    BY <1>2 DEF TypeOK
<1>5. /\ sensorList' \in Seq(Element)
      /\ Len(sensorList') = len + 1
      /\ sensorList'[len + 1] = new
      /\ \A i \in 1..len : sensorList'[i] = sensorList[i]
    BY <1>2, <1>3, <1>4
<1>6. TypeOK'
    BY <1>2, <1>5 DEF TypeOK
<1>7. MapFirst'
    BY <1>2 DEF MapFirst
<1>8. WindowIsRecent'
    <2> SUFFICES ASSUME NEW i \in 1..Len(sensorList')
                 PROVE  WindowOf(i)'
        BY DEF WindowIsRecent
    <2>1. CASE i = len + 1
        <3>1. sensorList'[i] = new /\ new.insertedData = 0 /\ new.lastModified = 0
            BY <1>5, <2>1
        <3>2. arrived[s] = << >> /\ lastTime[s] = 0 /\ new.sensorId = s
            BY <1>2 DEF MapFirst
        <3>3. HoldsNewest(new, << >>)
            BY <1>1 DEF HoldsNewest
        <3> QED
            BY <1>2, <3>1, <3>2, <3>3 DEF WindowOf, HoldsNewest
    <2>2. CASE i \in 1..len
        <3>1. sensorList'[i] = sensorList[i]
            BY <1>5, <2>2
        <3>2. IsIndexOf(i, sensorList[i].sensorId)' <=> IsIndexOf(i, sensorList[i].sensorId)
            <4>1. \A j \in 1..i : j \in 1..len
                BY <1>4, <2>2
            <4>2. i \in 1..Len(sensorList')
                OBVIOUS
            <4>3. \A j \in 1..i - 1 : j \in 1..i
                BY <1>4, <2>2
            <4>4. i \in 1..Len(sensorList)
                BY <1>4, <2>2
            <4>5. \A j \in 1..i - 1 : sensorList'[j] = sensorList[j]
                BY <1>5, <4>1, <4>3
            <4> QED
                BY <3>1, <4>2, <4>4, <4>5 DEF IsIndexOf
        <3>3. WindowOf(i)
            BY <1>2, <2>2 DEF WindowIsRecent
        <3> QED
            BY <1>2, <3>1, <3>2, <3>3 DEF WindowOf, HoldsNewest
    <2> QED
        BY <1>4, <1>5, <2>1, <2>2
<1> QED
    BY <1>6, <1>7, <1>8 DEF IInv

(* A reading changes the first element of its sensor and no other.         *)
LEMMA AnalyseInv ==
    ASSUME IInv, NEW s \in SensorIds, NEW t \in Temps, NEW ts \in Times,
           Analyse(s, t, ts)
    PROVE  IInv'
<1>1. PICK f \in 1..Len(sensorList) :
          /\ IsIndexOf(f, s)
          /\ sensorList' = [sensorList EXCEPT ![f] = Recorded(sensorList[f], t, ts)]
          /\ verdict' = Verdict(Recorded(sensorList[f], t, ts))
    BY DEF Analyse
<1> DEFINE r == Recorded(sensorList[f], t, ts)
<1>2. /\ TypeOK /\ WindowIsRecent /\ pc = "read" /\ pc' = pc /\ lastId' = s
      /\ arrived' = [arrived EXCEPT ![s] = Append(@, t)]
      /\ lastTime' = [lastTime EXCEPT ![s] = ts]
    BY DEF IInv, Analyse, Arrives
<1>3. /\ sensorList \in Seq(Element) /\ Len(sensorList) \in Nat
      /\ sensorList[f] \in Element
      /\ arrived \in [SensorIds -> Seq(Temps)] /\ lastTime \in [SensorIds -> Nat]
      /\ ts \in Nat
    BY <1>2, DatamgrAssumption DEF TypeOK, DatamgrAssumption
<1>4. /\ r \in Element /\ r.sensorId = s /\ r.lastModified = ts
      /\ sensorList[f].sensorId = s
    BY <1>1, <1>3, RecordedType DEF IsIndexOf
<1>5. /\ sensorList' \in Seq(Element) /\ Len(sensorList') = Len(sensorList)
      /\ sensorList'[f] = r
      /\ \A i \in 1..Len(sensorList) : i # f => sensorList'[i] = sensorList[i]
    BY <1>1, <1>3, <1>4
<1>6. TypeOK'
    <2>1. verdict' \in {"nothing", "hot", "cold", "invalid"}
        BY <1>1 DEF Verdict
    <2>2. arrived' \in [SensorIds -> Seq(Temps)] /\ lastTime' \in [SensorIds -> Nat]
        BY <1>2, <1>3
    <2> QED
        BY <1>2, <1>5, <2>1, <2>2 DEF TypeOK
<1>7. MapFirst'
    BY <1>2 DEF MapFirst
<1>8. \A i \in 1..Len(sensorList) : sensorList'[i].sensorId = sensorList[i].sensorId
    BY <1>4, <1>5
<1>9. \A i, id : IsIndexOf(i, id)' <=> IsIndexOf(i, id)
    <2> SUFFICES ASSUME NEW i \in 1..Len(sensorList), NEW id
                 PROVE  IsIndexOf(i, id)' <=> IsIndexOf(i, id)
        BY <1>5 DEF IsIndexOf
    <2>1. \A j \in 1..i - 1 : j \in 1..Len(sensorList)
        BY <1>3
    <2> QED
        BY <1>5, <1>8, <2>1 DEF IsIndexOf
<1>10. WindowIsRecent'
    <2> SUFFICES ASSUME NEW i \in 1..Len(sensorList) PROVE WindowOf(i)'
        BY <1>5 DEF WindowIsRecent
    <2>0. WindowOf(i)
        BY <1>2 DEF WindowIsRecent
    <2>1. CASE i = f
        <3>1. HoldsNewest(sensorList[f], arrived[s])
            BY <1>1, <1>4, <2>0, <2>1 DEF WindowOf
        <3>2. HoldsNewest(r, Append(arrived[s], t))
            BY <1>3, <3>1, RecordedNewest
        <3>3. arrived'[s] = Append(arrived[s], t) /\ lastTime'[s] = ts
            BY <1>2, <1>3
        <3>4. /\ sensorList'[i].sensorId = s
              /\ sensorList'[i].lastModified = lastTime'[s]
              /\ IsIndexOf(i, s)'
            BY <1>1, <1>4, <1>5, <1>9, <2>1, <3>3
        <3>5. HoldsNewest(sensorList'[i], arrived'[s])
            BY <1>5, <2>1, <3>2, <3>3
        <3> QED
            BY <3>4, <3>5 DEF WindowOf, HoldsNewest
    <2>2. CASE i # f
        <3>1. sensorList'[i] = sensorList[i]
            BY <1>5, <2>2
        <3>2. CASE IsIndexOf(i, sensorList[i].sensorId)
            <4>1. sensorList[i].sensorId # s
                BY <1>1, <1>3, <2>2, <3>2, IndexUnique
            <4>2. sensorList[i].sensorId \in SensorIds
                <5>1. sensorList[i] \in Element
                    BY <1>3
                <5> QED
                    BY <5>1 DEF Element
            <4>3. /\ arrived'[sensorList[i].sensorId] = arrived[sensorList[i].sensorId]
                  /\ lastTime'[sensorList[i].sensorId] = lastTime[sensorList[i].sensorId]
                BY <1>2, <1>3, <4>1, <4>2
            <4> QED
                BY <1>9, <2>0, <3>1, <3>2, <4>3 DEF WindowOf, HoldsNewest
        <3>3. CASE ~IsIndexOf(i, sensorList[i].sensorId)
            BY <1>9, <2>0, <3>1, <3>3 DEF WindowOf
        <3> QED
            BY <3>2, <3>3
    <2> QED
        BY <2>1, <2>2
<1> QED
    BY <1>6, <1>7, <1>10 DEF IInv

(* A reading of a sensor that is not in the map changes no element.        *)
LEMMA RejectInv ==
    ASSUME IInv, NEW s \in SensorIds, NEW t \in Temps, NEW ts \in Times,
           Reject(s, t, ts)
    PROVE  IInv'
<1>1. /\ TypeOK /\ WindowIsRecent /\ pc = "read" /\ pc' = pc /\ lastId' = s
      /\ arrived' = [arrived EXCEPT ![s] = Append(@, t)]
      /\ lastTime' = [lastTime EXCEPT ![s] = ts]
      /\ verdict' = "invalid" /\ sensorList' = sensorList /\ ~Known(s)
    BY DEF IInv, Reject, Arrives
<1>2. /\ arrived \in [SensorIds -> Seq(Temps)] /\ lastTime \in [SensorIds -> Nat]
      /\ ts \in Nat /\ sensorList \in Seq(Element)
    BY <1>1, DatamgrAssumption DEF TypeOK, DatamgrAssumption
<1>3. TypeOK'
    <2>1. arrived' \in [SensorIds -> Seq(Temps)] /\ lastTime' \in [SensorIds -> Nat]
        BY <1>1, <1>2
    <2> QED
        BY <1>1, <2>1 DEF TypeOK
<1>4. MapFirst'
    BY <1>1 DEF MapFirst
<1>5. WindowIsRecent'
    <2> SUFFICES ASSUME NEW i \in 1..Len(sensorList) PROVE WindowOf(i)'
        BY <1>1 DEF WindowIsRecent
    <2>0. sensorList[i] \in Element
        BY <1>2
    <2>1. sensorList[i].sensorId # s /\ sensorList[i].sensorId \in SensorIds
        BY <1>1, <2>0 DEF Known, Element
    <2>2. /\ arrived'[sensorList[i].sensorId] = arrived[sensorList[i].sensorId]
          /\ lastTime'[sensorList[i].sensorId] = lastTime[sensorList[i].sensorId]
        BY <1>1, <1>2, <2>1
    <2>3. WindowOf(i)
        BY <1>1 DEF WindowIsRecent
    <2> QED
        BY <1>1, <2>2, <2>3 DEF WindowOf, HoldsNewest, IsIndexOf
<1> QED
    BY <1>3, <1>4, <1>5 DEF IInv

(* The other steps leave sensorList and the histories alone.               *)
LEMMA OtherInv ==
    ASSUME IInv, MapMissing \/ EndOfMap \/ EndOfStream \/ UNCHANGED vars
    PROVE  IInv'
<1>1. /\ TypeOK /\ WindowIsRecent /\ MapFirst
      /\ UNCHANGED <<sensorList, lastId, verdict, arrived, lastTime>>
      /\ pc' \in {"map", "read", "done", "exited"}
      /\ pc' = "map" => pc = "map"
    BY DEF IInv, TypeOK, MapMissing, EndOfMap, EndOfStream, vars
<1>2. TypeOK'
    BY <1>1 DEF TypeOK
<1>3. WindowIsRecent'
    BY <1>1 DEF WindowIsRecent, WindowOf, HoldsNewest, IsIndexOf
<1>4. MapFirst'
    BY <1>1 DEF MapFirst
<1> QED
    BY <1>2, <1>3, <1>4 DEF IInv

(* Every step keeps the invariant.                                         *)
LEMMA NextInv == IInv /\ [Next]_vars => IInv'
<1> SUFFICES ASSUME IInv, [Next]_vars PROVE IInv'
    OBVIOUS
<1>1. CASE MapMissing \/ EndOfMap \/ EndOfStream \/ UNCHANGED vars
    BY <1>1, OtherInv
<1>2. CASE \E room \in RoomIds, s \in SensorIds : ReadMapLine(room, s)
    BY <1>2, ReadMapLineInv
<1>3. CASE \E s \in SensorIds, t \in Temps, ts \in Times :
              Analyse(s, t, ts) \/ Reject(s, t, ts)
    BY <1>3, AnalyseInv, RejectInv
<1> QED
    BY <1>1, <1>2, <1>3 DEF Next

(* The invariant holds throughout.                                         *)
THEOREM Inductive == Safety => []IInv
    BY InitInv, NextInv, PTL DEF Safety

(* Every variable keeps its type; insertedData never passes                *)
(* RUN_AVG_LENGTH, so no value is written behind the array.                *)
THEOREM TypeCorrect == Safety => []TypeOK
<1>1. IInv => TypeOK
    BY DEF IInv
<1> QED
    BY <1>1, Inductive, PTL

(* The running average is taken over the newest temperatures of its own    *)
(* sensor, however the readings of the sensors are mixed.                  *)
THEOREM WindowCorrect == Safety => []WindowIsRecent
<1>1. IInv => WindowIsRecent
    BY DEF IInv
<1> QED
    BY <1>1, Inductive, PTL

(* A subsequence as a function.                                            *)
LEMMA SubSeqElements ==
    ASSUME NEW s, NEW a \in Int, NEW b \in Int
    PROVE  SubSeq(s, a, b) = [k \in 1..(b - a + 1) |-> s[a + k - 1]]
    OBVIOUS

(* The average is taken over the newest temperatures: the part of the      *)
(* window that is filled and the end of the history are the same sequence. *)
LEMMA SameSum ==
    ASSUME NEW e \in Element, NEW temps \in Seq(Temps), HoldsNewest(e, temps),
           NEW n, n = IF Len(temps) < RUN_AVG_LENGTH THEN Len(temps) ELSE RUN_AVG_LENGTH
    PROVE  /\ Count(e) = n
           /\ AvgSum(e) = Total(SubSeq(temps, Len(temps) - n + 1, Len(temps)))
<1> DEFINE window == SubSeq(e.runningAvg, 1, n)
           newest == SubSeq(temps, Len(temps) - n + 1, Len(temps))
<1>1. RUN_AVG_LENGTH \in Nat \ {0} /\ Len(temps) \in Nat
    BY DatamgrAssumption DEF DatamgrAssumption
<1>2. n \in 0..RUN_AVG_LENGTH /\ n <= Len(temps) /\ e.insertedData = n
    BY <1>1 DEF HoldsNewest
<1>3. Count(e) = n
    BY <1>1, <1>2 DEF Count
<1>4. \A k \in 1..n : e.runningAvg[k] = temps[Len(temps) - n + k]
    BY <1>2 DEF HoldsNewest
<1>5. window = [k \in 1..n |-> e.runningAvg[k]]
    <2>1. 1 + n - 1 = n
        BY <1>2
    <2>2. \A k \in 1..n : 1 + k - 1 = k
        OBVIOUS
    <2>3. window = [k \in 1..(1 + n - 1) |-> e.runningAvg[1 + k - 1]]
        BY <1>2
    <2> QED
        BY <2>1, <2>2, <2>3
<1>6. newest = [k \in 1..n |-> temps[Len(temps) - n + k]]
    <2> DEFINE m == Len(temps) - n + 1
    <2>1. m \in Int /\ Len(temps) - m + 1 = n
        BY <1>1, <1>2
    <2>2. \A k \in 1..n : m + k - 1 = Len(temps) - n + k
        BY <1>1, <1>2
    <2>3. newest = [k \in 1..(Len(temps) - m + 1) |-> temps[m + k - 1]]
        <3> HIDE DEF m
        <3>1. SubSeq(temps, m, Len(temps))
                  = [k \in 1..(Len(temps) - m + 1) |-> temps[m + k - 1]]
            BY <1>1, <2>1, SubSeqElements
        <3> QED
            BY <3>1 DEF m
    <2> HIDE DEF m, newest
    <2>4. newest = [k \in 1..n |-> temps[m + k - 1]]
        BY <2>1, <2>3, Zenon
    <2>5. \A k \in 1..n : temps[m + k - 1] = temps[Len(temps) - n + k]
        BY <2>2, Zenon
    <2>6. [k \in 1..n |-> temps[m + k - 1]] = [k \in 1..n |-> temps[Len(temps) - n + k]]
        BY <2>5, Zenon
    <2> QED
        BY <2>4, <2>6, Zenon
<1>7. window = newest
    <2> HIDE DEF window, newest
    <2>1. [k \in 1..n |-> e.runningAvg[k]] = [k \in 1..n |-> temps[Len(temps) - n + k]]
        BY <1>4
    <2> QED
        BY <1>5, <1>6, <2>1
<1> QED
    BY <1>3, <1>7 DEF AvgSum

(* A reading of a sensor in the map is judged by the newest temperatures.  *)
LEMMA AnalyseVerdict ==
    ASSUME IInv, IInv', NEW s \in SensorIds, NEW t \in Temps, NEW ts \in Times,
           Analyse(s, t, ts)
    PROVE  VerdictMatchesAverage'
<1>1. PICK f \in 1..Len(sensorList) :
          /\ IsIndexOf(f, s)
          /\ sensorList' = [sensorList EXCEPT ![f] = Recorded(sensorList[f], t, ts)]
          /\ verdict' = Verdict(Recorded(sensorList[f], t, ts))
    BY DEF Analyse
<1> DEFINE r     == Recorded(sensorList[f], t, ts)
           temps == arrived'[s]
           sum   == Total(SubSeq(temps, Len(temps) - RUN_AVG_LENGTH + 1, Len(temps)))
<1>2. /\ TypeOK /\ TypeOK' /\ WindowIsRecent /\ lastId' = s
      /\ arrived' = [arrived EXCEPT ![s] = Append(@, t)]
    BY DEF IInv, Analyse, Arrives
<1>3. /\ sensorList \in Seq(Element) /\ sensorList[f] \in Element
      /\ sensorList[f].sensorId = s
      /\ arrived \in [SensorIds -> Seq(Temps)] /\ temps = Append(arrived[s], t)
      /\ temps \in Seq(Temps)
    BY <1>1, <1>2 DEF TypeOK, IsIndexOf
<1>4. r \in Element /\ r.sensorId = s
    BY <1>3, RecordedType
<1>5. HoldsNewest(r, temps)
    <2>1. HoldsNewest(sensorList[f], arrived[s])
        BY <1>1, <1>2, <1>3 DEF WindowIsRecent, WindowOf
    <2> QED
        BY <1>3, <2>1, RecordedNewest
<1>6. ASSUME Len(temps) >= RUN_AVG_LENGTH
      PROVE  Count(r) = RUN_AVG_LENGTH /\ AvgSum(r) = sum
    <2>1. RUN_AVG_LENGTH = IF Len(temps) < RUN_AVG_LENGTH THEN Len(temps) ELSE RUN_AVG_LENGTH
        BY <1>3, <1>6, DatamgrAssumption DEF DatamgrAssumption
    <2> QED
        BY <1>3, <1>4, <1>5, <2>1, SameSum
<1>7. Known(s)'
    <2>1. Len(sensorList') = Len(sensorList) /\ sensorList'[f] = r
        BY <1>1, <1>3, <1>4
    <2> QED
        BY <1>4, <2>1 DEF Known
<1>8. Len(temps) >= RUN_AVG_LENGTH =>
          /\ TooHot(r) <=> sum > SET_MAX_TEMP * RUN_AVG_LENGTH
          /\ TooCold(r) <=> sum < SET_MIN_TEMP * RUN_AVG_LENGTH
    BY <1>6 DEF TooHot, TooCold
<1>9. /\ verdict' # "invalid"
      /\ verdict' = "hot" <=> TooHot(r)
      /\ verdict' = "cold" <=> ~TooHot(r) /\ TooCold(r)
    BY <1>1 DEF Verdict
<1> HIDE DEF r
<1> QED
    BY <1>2, <1>7, <1>8, <1>9 DEF VerdictMatchesAverage

(* No temperatures are fewer than a window has.                            *)
LEMMA NothingIsShort == ~(Len(<< >>) >= RUN_AVG_LENGTH)
    BY DatamgrAssumption DEF DatamgrAssumption

(* The steps that bring no reading change neither the verdict nor what it  *)
(* is about; the map can still grow only while nothing has arrived.        *)
LEMMA VerdictStep ==
    IInv /\ IInv' /\ VerdictMatchesAverage /\ [Next]_vars => VerdictMatchesAverage'
<1> SUFFICES ASSUME IInv, IInv', VerdictMatchesAverage, [Next]_vars
             PROVE  VerdictMatchesAverage'
    OBVIOUS
<1>1. CASE MapMissing \/ EndOfMap \/ EndOfStream \/ UNCHANGED vars
    <2>1. UNCHANGED <<sensorList, lastId, verdict, arrived>>
        BY <1>1 DEF MapMissing, EndOfMap, EndOfStream, vars
    <2> QED
        BY <2>1 DEF VerdictMatchesAverage, Known
<1>2. ASSUME NEW room \in RoomIds, NEW s \in SensorIds, ReadMapLine(room, s)
      PROVE  VerdictMatchesAverage'
    <2>1. arrived'[lastId'] = << >>
        BY <1>2 DEF IInv, TypeOK, MapFirst, ReadMapLine
    <2> QED
        BY <2>1, NothingIsShort DEF VerdictMatchesAverage
<1>3. ASSUME NEW s \in SensorIds, NEW t \in Temps, NEW ts \in Times, Analyse(s, t, ts)
      PROVE  VerdictMatchesAverage'
    BY <1>3, AnalyseVerdict
<1>4. ASSUME NEW s \in SensorIds, NEW t \in Temps, NEW ts \in Times, Reject(s, t, ts)
      PROVE  VerdictMatchesAverage'
    <2>1. verdict' = "invalid" /\ lastId' = s /\ ~Known(s)'
        BY <1>4 DEF Reject, Arrives, Known
    <2> QED
        BY <2>1 DEF VerdictMatchesAverage
<1> QED
    BY <1>1, <1>2, <1>3, <1>4 DEF Next

(* A reading is logged as of an invalid sensor exactly when the map says   *)
(* so, and from the RUN_AVG_LENGTH-th on as too hot or too cold exactly    *)
(* when the average of its sensor's newest temperatures does.              *)
THEOREM VerdictCorrect == Safety => []VerdictMatchesAverage
<1>1. Init => VerdictMatchesAverage
    <2>1. Init => arrived[lastId] = << >>
        BY DEF Init
    <2> QED
        BY <2>1, NothingIsShort DEF VerdictMatchesAverage
<1> QED
    BY <1>1, Inductive, VerdictStep, PTL DEF Safety
=============================================================================
