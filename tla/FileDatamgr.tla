----------------------------- MODULE FileDatamgr -----------------------------
(***************************************************************************)
(* How the data manager finds a sensor: plab1/datamgr.c, which read its    *)
(* readings from a file, and the queries of the gateway's, which it took   *)
(* over.  Both hand the address of a 16-bit id to element_compare, which   *)
(* reads it as an element: the id stands where roomId is, and sensorId is  *)
(* whatever follows in memory.  The file version compares both of them,    *)
(* the gateway's only sensorId; for its readings the gateway passes a      *)
(* whole element.  The list is a sequence from 0, by the rules of          *)
(* plab1/lib/dplist.c.                                                     *)
(***************************************************************************)
EXTENDS Integers, Sequences, FiniteSets

CONSTANTS Id,               \* 16-bit numbers, of rooms, of sensors and in memory
          RUN_AVG_LENGTH,
          MaxLines, MaxReadings    \* bounds: lines of the map, readings of the file

VARIABLES version,          \* rigid: file or gateway
          pc,               \* map, read, done or exited
          sensorList,
          arrived,          \* history: the ids of the readings so far
          answer            \* history: the last query and what it returned

vars == <<version, pc, sensorList, arrived, answer>>

None == [asked |-> 0, element |-> -1]

Init ==
    /\ version \in {"file", "gateway"}
    /\ pc = "map" /\ sensorList = << >> /\ arrived = << >>
    /\ answer = None

-----------------------------------------------------------------------------
(* element_compare with an id, and what is behind it in memory.            *)
element_compare(e, id, behind) ==
    e.sensorId = behind /\ (version = "file" => e.roomId = id)

(* plab1/lib/dplist.c on sequences; callers know the list is there.        *)

dpl_size(list) == Len(list)

dpl_insert_at_index(list, e, index) ==
    LET i == IF index <= 0 THEN 0 ELSE IF index < Len(list) THEN index ELSE Len(list)
    IN  SubSeq(list, 1, i) \o <<e>> \o SubSeq(list, i + 1, Len(list))

dpl_get_index_of_element(list, id, behind) ==
    LET equal == {i \in 0..Len(list) - 1 : element_compare(list[i + 1], id, behind)}
    IN  IF equal = {} THEN -1 ELSE CHOOSE i \in equal : \A j \in equal : i <= j

dpl_get_element_at_index(list, index) ==
    list[IF index <= 0 THEN 1 ELSE IF index < Len(list) THEN index + 1 ELSE Len(list)]

-----------------------------------------------------------------------------
IndexOf(id, behind) == dpl_get_index_of_element(sensorList, id, behind)

IndexForReading(id, behind) ==
    IF version = "file" THEN IndexOf(id, behind) ELSE IndexOf(id, id)

(* The window, by the numbers of the readings in it, oldest first.         *)
Recorded(e, n) ==
    [e EXCEPT !.runningAvg =
        IF Len(@) = RUN_AVG_LENGTH THEN Append(Tail(@), n) ELSE Append(@, n)]

(* A file is missing, or an allocation fails: ERROR_HANDLER.               *)
MapFails ==
    /\ pc = "map"
    /\ pc' = "exited"
    /\ UNCHANGED <<version, sensorList, arrived, answer>>

ReadMapLine(room, sensor) ==
    /\ pc = "map" /\ Len(sensorList) < MaxLines
    /\ sensorList' = dpl_insert_at_index(sensorList,
            [roomId |-> room, sensorId |-> sensor, runningAvg |-> << >>], dpl_size(sensorList))
    /\ UNCHANGED <<version, pc, arrived, answer>>

EndOfMap ==
    /\ pc = "map"
    /\ pc' = "read"
    /\ UNCHANGED <<version, sensorList, arrived, answer>>

(* A whole record; an id that is not found is left out.                    *)
ReadRecord(id, behind) ==
    /\ pc = "read" /\ Len(arrived) < MaxReadings
    /\ arrived' = Append(arrived, id)
    /\ LET index == IndexForReading(id, behind)
       IN  sensorList' = IF index = -1 THEN sensorList
                         ELSE [sensorList EXCEPT ![index + 1] =
                                  Recorded(dpl_get_element_at_index(sensorList, index), Len(arrived'))]
    /\ UNCHANGED <<version, pc, answer>>

(* The end of the file, which may be in the middle of a record.            *)
EndOfData ==
    /\ pc = "read"
    /\ pc' = "done"
    /\ UNCHANGED <<version, sensorList, arrived, answer>>

(* datamgr_get_room_id and datamgr_get_last_modified: not found is exit.   *)
Query(id, behind) ==
    /\ pc = "done"
    /\ LET index == IndexOf(id, behind)
       IN  /\ answer' = [asked |-> id, element |-> index]
           /\ pc' = IF index = -1 THEN "exited" ELSE "done"
    /\ UNCHANGED <<version, sensorList, arrived>>

Next ==
    \/ \E room, sensor \in Id : ReadMapLine(room, sensor)
    \/ MapFails \/ EndOfMap
    \/ \E id, behind \in Id : ReadRecord(id, behind) \/ Query(id, behind)
    \/ EndOfData

Spec == Init /\ [][Next]_vars
-----------------------------------------------------------------------------
(* The window has reading n, or as many as it holds that came later.       *)
Has(w, n) == n \in {w[k] : k \in 1..Len(w)} \/ (Len(w) = RUN_AVG_LENGTH /\ n < w[1])

(* Whatever lies in memory behind the ids, a window has the newest of its  *)
(* readings in their order, and all of one sensor; a reading is in one     *)
(* window.  In the gateway the first element of a sensor has the newest of *)
(* all its readings.                                                       *)
ReadingsAreFiled ==
    /\ \A i \in 1..Len(sensorList) :
          LET w == sensorList[i].runningAvg
          IN  /\ Len(w) <= RUN_AVG_LENGTH
              /\ \A k \in 1..Len(w) :
                    /\ arrived[w[k]] = arrived[w[1]]
                    /\ version = "gateway" => arrived[w[k]] = sensorList[i].sensorId
              /\ \A k \in 1..Len(w) - 1 : w[k] < w[k + 1]
              /\ \A j \in 1..Len(sensorList) : \A k \in 1..Len(w) :
                    j # i => ~\E l \in 1..Len(sensorList[j].runningAvg) :
                                  sensorList[j].runningAvg[l] = w[k]
    /\ version = "gateway" =>
          \A n \in 1..Len(arrived), i \in 1..Len(sensorList) :
             /\ sensorList[i].sensorId = arrived[n]
             /\ \A j \in 1..i - 1 : sensorList[j].sensorId # arrived[n]
             => Has(sensorList[i].runningAvg, n)

(* plab1/datamgr.h:51, "Gets the room ID for a certain sensor ID", which   *)
(* the gateway took over: the element that answers is one of that sensor.  *)
AnswersForSensor ==
    version = "gateway" /\ answer.element # -1 =>
        sensorList[answer.element + 1].sensorId = answer.asked

(* plab1/datamgr.h:38, "When the method finishes all data should be in the *)
(* internal pointer list": the newest readings of every sensor of the map. *)
AllDataIsInTheList ==
    pc = "done" => \A n \in 1..Len(arrived) :
        (\E i \in 1..Len(sensorList) : sensorList[i].sensorId = arrived[n])
        => \E i \in 1..Len(sensorList) :
              sensorList[i].sensorId = arrived[n] /\ Has(sensorList[i].runningAvg, n)
=============================================================================
