------------------------------- MODULE Datamgr -------------------------------
(***************************************************************************)
(* The data manager of the gateway, src/project/datamgr.c: it reads the    *)
(* map of rooms and sensors into sensorList, then takes one reading after  *)
(* another out of the buffer, keeps a running window of temperatures per   *)
(* sensor, and logs averages that are too hot or too cold and readings of  *)
(* sensors that are not in the map.                                        *)
(*                                                                         *)
(* sensorList is a sequence here; module Dplist has the linked list behind *)
(* it.  The sequences start at 1 where the C indexes start at 0, so the    *)
(* index of an absent sensor is 0.  Temperatures are integers, and an      *)
(* average is compared through its sum, never divided.                     *)
(***************************************************************************)
EXTENDS Integers, Sequences

CONSTANTS SensorIds,         \* ids in the map or in readings, other than 0
          RoomIds,
          Temps, Times,
          RUN_AVG_LENGTH, SET_MIN_TEMP, SET_MAX_TEMP,
          MaxLines,          \* bound: lines of room_sensor.map
          MaxReadings        \* bound: readings of one sensor

ASSUME DatamgrAssumption ==
    /\ RUN_AVG_LENGTH \in Nat \ {0}
    /\ Temps \subseteq Int
    /\ Times \subseteq Nat
    /\ SET_MIN_TEMP \in Int /\ SET_MAX_TEMP \in Int
    /\ MaxLines \in Nat /\ MaxReadings \in Nat

VARIABLES
    pc,            \* map, read, done, or exited: the whole process has
    sensorList,    \* my_element_t of every line of the map
    lastId,        \* sensor of the last reading
    verdict,       \* what was logged for it: hot, cold, invalid, or nothing
    arrived,       \* history: the temperatures of every sensor, in order
    lastTime       \* history: the time in the last reading of every sensor

vars == <<pc, sensorList, lastId, verdict, arrived, lastTime>>

Element == [roomId : RoomIds, sensorId : SensorIds,
            runningAvg : [1..RUN_AVG_LENGTH -> Int],
            insertedData : 0..RUN_AVG_LENGTH,
            lastModified : Nat]

Init ==
    /\ pc = "map"
    /\ sensorList = << >>
    /\ lastId \in SensorIds
    /\ verdict = "nothing"
    /\ arrived = [s \in SensorIds |-> << >>]
    /\ lastTime = [s \in SensorIds |-> 0]

(* The first element whose sensorId is s.                                  *)
IsIndexOf(i, s) ==
    /\ i \in 1..Len(sensorList)
    /\ sensorList[i].sensorId = s
    /\ \A j \in 1..i - 1 : sensorList[j].sensorId # s

Known(s) == \E i \in 1..Len(sensorList) : sensorList[i].sensorId = s

-----------------------------------------------------------------------------
(* The window of one element.                                              *)

(* Fault: the values do not move up.                                       *)
OverwriteLast(e, temperature) ==
    [e.runningAvg EXCEPT ![RUN_AVG_LENGTH] = temperature]

Shifted(e, temperature) ==
    [k \in 1..RUN_AVG_LENGTH |->
        IF k < RUN_AVG_LENGTH THEN e.runningAvg[k + 1] ELSE temperature]

(* Fault: a full window goes on counting.                                  *)
CountsOn(e, temperature, timestamp) ==
    [e EXCEPT !.runningAvg = Shifted(e, temperature),
              !.insertedData = @ + 1,
              !.lastModified = timestamp]

Recorded(e, temperature, timestamp) ==
    IF e.insertedData = RUN_AVG_LENGTH
    THEN [e EXCEPT !.runningAvg = Shifted(e, temperature),
                   !.lastModified = timestamp]
    ELSE [e EXCEPT !.runningAvg[e.insertedData + 1] = temperature,
                   !.insertedData = @ + 1,
                   !.lastModified = timestamp]

(* The sum of a sequence of temperatures.                                  *)
Total(temps) ==
    LET sum[k \in 0..Len(temps)] == IF k = 0 THEN 0 ELSE sum[k - 1] + temps[k]
    IN  sum[Len(temps)]

(* Fault: the last value of a full window is left out.                     *)
OneShort(e) == IF e.insertedData < RUN_AVG_LENGTH THEN e.insertedData ELSE RUN_AVG_LENGTH - 1

Count(e) == IF e.insertedData < RUN_AVG_LENGTH THEN e.insertedData ELSE RUN_AVG_LENGTH

(* datamgr_get_avg of e, times Count(e).                                   *)
AvgSum(e) == Total(SubSeq(e.runningAvg, 1, Count(e)))

TooHot(e)  == AvgSum(e) > SET_MAX_TEMP * Count(e)
TooCold(e) == AvgSum(e) < SET_MIN_TEMP * Count(e)

Verdict(e) ==
    CASE TooHot(e)               -> "hot"
      [] ~TooHot(e) /\ TooCold(e) -> "cold"
      [] OTHER                   -> "nothing"

-----------------------------------------------------------------------------
(* fopen of the map failed: ERROR_HANDLER ends the whole process.          *)
MapMissing ==
    /\ pc = "map"
    /\ sensorList = << >>
    /\ pc' = "exited"
    /\ UNCHANGED <<sensorList, lastId, verdict, arrived, lastTime>>

(* A line with a room and a sensor id.  Any other line is skipped, and a   *)
(* sensor id that was read before is not looked for.                       *)
ReadMapLine(room, s) ==
    /\ pc = "map"
    /\ Len(sensorList) < MaxLines
    /\ sensorList' = Append(sensorList,
            [roomId |-> room, sensorId |-> s,
             runningAvg |-> [k \in 1..RUN_AVG_LENGTH |-> 0],
             insertedData |-> 0, lastModified |-> 0])
    /\ UNCHANGED <<pc, lastId, verdict, arrived, lastTime>>

EndOfMap ==
    /\ pc = "map"
    /\ pc' = "read"
    /\ UNCHANGED <<sensorList, lastId, verdict, arrived, lastTime>>

Arrives(s, temperature, timestamp) ==
    /\ pc = "read"
    /\ Len(arrived[s]) < MaxReadings
    /\ lastId' = s
    /\ arrived' = [arrived EXCEPT ![s] = Append(@, temperature)]
    /\ lastTime' = [lastTime EXCEPT ![s] = timestamp]
    /\ UNCHANGED pc

(* sbuffer_peek returns a reading of a sensor in the map.                  *)
Analyse(s, temperature, timestamp) ==
    /\ Arrives(s, temperature, timestamp)
    /\ \E i \in 1..Len(sensorList) :
          /\ IsIndexOf(i, s)
          /\ LET e == Recorded(sensorList[i], temperature, timestamp)
             IN  /\ sensorList' = [sensorList EXCEPT ![i] = e]
                 /\ verdict' = Verdict(e)

(* ... or of a sensor that is not.                                         *)
Reject(s, temperature, timestamp) ==
    /\ Arrives(s, temperature, timestamp)
    /\ ~Known(s)
    /\ verdict' = "invalid"
    /\ UNCHANGED sensorList

(* sbuffer_peek returns SBUFFER_NO_DATA: the reading with id 0.            *)
EndOfStream ==
    /\ pc = "read"
    /\ pc' = "done"
    /\ UNCHANGED <<sensorList, lastId, verdict, arrived, lastTime>>

Next ==
    \/ MapMissing
    \/ \E room \in RoomIds, s \in SensorIds : ReadMapLine(room, s)
    \/ EndOfMap
    \/ \E s \in SensorIds, temperature \in Temps, timestamp \in Times :
          Analyse(s, temperature, timestamp) \/ Reject(s, temperature, timestamp)
    \/ EndOfStream

Safety == Init /\ [][Next]_vars

-----------------------------------------------------------------------------
(* Types of every variable.                                                *)
TypeOK ==
    /\ pc \in {"map", "read", "done", "exited"}
    /\ sensorList \in Seq(Element)
    /\ lastId \in SensorIds
    /\ verdict \in {"nothing", "hot", "cold", "invalid"}
    /\ arrived \in [SensorIds -> Seq(Temps)]
    /\ lastTime \in [SensorIds -> Nat]

(* What an element holds of its sensor: the newest RUN_AVG_LENGTH of the   *)
(* temperatures that arrived, fewer while fewer have, the oldest first.    *)
HoldsNewest(e, temps) ==
    /\ e.insertedData = IF Len(temps) < RUN_AVG_LENGTH THEN Len(temps) ELSE RUN_AVG_LENGTH
    /\ \A k \in 1..e.insertedData :
          e.runningAvg[k] = temps[Len(temps) - e.insertedData + k]

(* A first element holds what arrived from its sensor, another nothing.    *)
WindowOf(i) ==
    LET e == sensorList[i]
    IN  IF IsIndexOf(i, e.sensorId)
        THEN /\ HoldsNewest(e, arrived[e.sensorId])
             /\ e.lastModified = lastTime[e.sensorId]
        ELSE e.insertedData = 0 /\ e.lastModified = 0

(* However the readings of several sensors are mixed, the window of a      *)
(* sensor is its own newest temperatures and its time that of its last     *)
(* reading.  When the map names a sensor twice, its first line gets all    *)
(* of them and the others stay empty.                                      *)
WindowIsRecent == \A i \in 1..Len(sensorList) : WindowOf(i)

(* A reading is logged as invalid exactly when its sensor is not in the    *)
(* map, and from the RUN_AVG_LENGTH-th reading of a sensor on it is logged *)
(* as too hot or too cold exactly when the average of the RUN_AVG_LENGTH   *)
(* newest temperatures of that sensor, this reading's included, says so.   *)
VerdictMatchesAverage ==
    LET temps  == arrived[lastId]
        sum    == Total(SubSeq(temps, Len(temps) - RUN_AVG_LENGTH + 1, Len(temps)))
        hot    == sum > SET_MAX_TEMP * RUN_AVG_LENGTH
        cold   == sum < SET_MIN_TEMP * RUN_AVG_LENGTH
    IN  /\ temps # << >> => (verdict = "invalid" <=> ~Known(lastId))
        /\ Known(lastId) /\ Len(temps) >= RUN_AVG_LENGTH =>
              /\ verdict = "hot" <=> hot
              /\ verdict = "cold" <=> ~hot /\ cold

(* Refuted.  datamgr.h:54 says of datamgr_get_avg that "if less then       *)
(* RUN_AVG_LENGTH measurements are recorded the avg is 0": a sensor that   *)
(* was heard of less often has the average 0.                              *)
AverageZeroUntilFull ==
    \A i \in 1..Len(sensorList) :
       LET s == sensorList[i].sensorId
       IN  IsIndexOf(i, s) /\ Len(arrived[s]) < RUN_AVG_LENGTH => AvgSum(sensorList[i]) = 0
=============================================================================
