------------------------------ MODULE ListsProofs ------------------------------
(***************************************************************************)
(* Proofs about the programs that search and keep lists: the lookup of a   *)
(* sensor by its id, the lists of lab3m1, and the unit tests of the list,  *)
(* each with an inductive invariant over v1 to v11 as in ProgramsProofs.   *)
(* For the unit tests the lemmas of DplistProofs are instantiated with     *)
(* these variables: one call does to the list what is proved there, and    *)
(* what the calls of a test make of it, one after the other, is computed   *)
(* here, call by call.                                                     *)
(***************************************************************************)
EXTENDS Programs, FiniteSetTheorems, SequenceTheorems, TLAPS

LEMMA SameProgram ==
    ASSUME [Next]_vars
    PROVE  program' = program
    BY DEF Next, Step, Milestone3Step, Others, Accidents, vars,
           After2, After4, After5, After6, After8, After9, After10

(* The list as it is proved about: v1 to v7 are the variables of Dplist.   *)
Proven == INSTANCE DplistProofs WITH
    CarefulCallers <- TRUE,
    exists <- v1, head <- v2, heap <- v3, key <- v4, mine <- v5, spoilt <- v6, contents <- v7

LEMMA ListConstants ==
    /\ Proven!IsFiniteSet(Nodes) /\ NULL \notin Nodes \cup Objs
    /\ Indexes \subseteq Int
    /\ 1..13 \subseteq Keys
    BY ProgramsAssumption DEF ProgramsAssumption, IsFiniteSet, Proven!IsFiniteSet

-----------------------------------------------------------------------------
(* The lookup by id: v1 is version, v2 pc, v3 sensorList, v4 arrived and   *)
(* v5 answer.                                                              *)

Entry == [roomId : Id, sensorId : Id, runningAvg : Seq(Nat)]

(* A window has readings that arrived under the number that is compared.   *)
Filed(e, version, arrived) ==
    /\ Len(e.runningAvg) <= RUN_AVG_LENGTH
    /\ \A k \in 1..Len(e.runningAvg) :
          /\ e.runningAvg[k] \in 1..Len(arrived)
          /\ arrived[e.runningAvg[k]] = IF version = "file" THEN e.roomId ELSE e.sensorId
    /\ \A k \in 1..Len(e.runningAvg) - 1 : e.runningAvg[k] < e.runningAvg[k + 1]

(* No reading is in two windows.                                           *)
Apart ==
    \A i, j \in 1..Len(v3) : i # j =>
        \A k \in 1..Len(v3[i].runningAvg), l \in 1..Len(v3[j].runningAvg) :
            v3[i].runningAvg[k] # v3[j].runningAvg[l]

(* In the gateway the first element of a sensor has all its readings.      *)
FirstHas ==
    v1 = "gateway" =>
        \A n \in 1..Len(v4), i \in 1..Len(v3) :
            /\ v3[i].sensorId = v4[n]
            /\ \A j \in 1..i - 1 : v3[j].sensorId # v4[n]
            => Datamgr!Has(v3[i].runningAvg, n)

LookupInv ==
    /\ v1 \in {"file", "gateway"}
    /\ v3 \in Seq(Entry) /\ v4 \in Seq(Id)
    /\ v2 = "map" => v4 = << >>
    /\ \A i \in 1..Len(v3) : Filed(v3[i], v1, v4)
    /\ Apart /\ FirstHas

(* The loop finds the first element that is equal, or none.                *)
LEMMA FirstEqual ==
    ASSUME v3 \in Seq(Entry), NEW id, NEW behind,
           Datamgr!IndexOf(id, behind) # -1
    PROVE  /\ Datamgr!IndexOf(id, behind) \in 0..Len(v3) - 1
           /\ Datamgr!element_compare(v3[Datamgr!IndexOf(id, behind) + 1], id, behind)
           /\ \A i \in 1..Datamgr!IndexOf(id, behind) :
                 ~Datamgr!element_compare(v3[i], id, behind)
<1> DEFINE equal == {i \in 0..Len(v3) - 1 : Datamgr!element_compare(v3[i + 1], id, behind)}
           n     == Datamgr!IndexOf(id, behind)
<1>1. n = IF equal = {} THEN -1 ELSE CHOOSE i \in equal : \A j \in equal : i <= j
    BY DEF Datamgr!IndexOf, Datamgr!dpl_get_index_of_element
<1>2. equal \in SUBSET Nat /\ equal # {} /\ Len(v3) \in Nat
    BY <1>1
<1>3. n \in equal /\ \A j \in equal : n <= j
    <2> HIDE DEF equal, n
    <2>1. \E i \in equal : \A j \in equal : i <= j
        BY <1>2, ListConstants, Proven!Least
    <2> QED
        BY <1>1, <1>2, <2>1
<1>4. ASSUME NEW i \in 1..n PROVE ~Datamgr!element_compare(v3[i], id, behind)
    <2> HIDE DEF n
    <2>1. i - 1 \in 0..Len(v3) - 1 /\ ~(n <= i - 1) /\ (i - 1) + 1 = i
        BY <1>2, <1>3
    <2> QED
        BY <1>3, <2>1
<1> QED
    BY <1>3, <1>4

LEMMA NoneEqual ==
    ASSUME v3 \in Seq(Entry), NEW id, NEW behind,
           Datamgr!IndexOf(id, behind) = -1, NEW i \in 1..Len(v3)
    PROVE  ~Datamgr!element_compare(v3[i], id, behind)
<1> DEFINE equal == {j \in 0..Len(v3) - 1 : Datamgr!element_compare(v3[j + 1], id, behind)}
           n     == Datamgr!IndexOf(id, behind)
<1>1. n = IF equal = {} THEN -1 ELSE CHOOSE j \in equal : \A m \in equal : j <= m
    BY DEF Datamgr!IndexOf, Datamgr!dpl_get_index_of_element
<1>2. equal \in SUBSET Nat /\ Len(v3) \in Nat
    OBVIOUS
<1>3. equal = {}
    <2> SUFFICES ASSUME equal # {} PROVE FALSE
        OBVIOUS
    <2> HIDE DEF equal, n
    <2>1. \E j \in equal : \A m \in equal : j <= m
        BY <1>2, ListConstants, Proven!Least
    <2>2. n \in equal
        BY <1>1, <1>2, <2>1
    <2> QED
        BY <1>2, <2>2 DEF n
<1>4. i - 1 \in 0..Len(v3) - 1 /\ (i - 1) + 1 = i
    BY <1>2
<1> QED
    BY <1>3, <1>4

LEMMA LookupMapLine ==
    ASSUME LookupInv, NEW room \in Id, NEW sensor \in Id, Datamgr!ReadMapLine(room, sensor)
    PROVE  LookupInv'
<1> DEFINE e == [roomId |-> room, sensorId |-> sensor, runningAvg |-> << >>]
           one == <<e>>
<1>1. /\ v1' = v1 /\ v2 = "map" /\ v2' = v2 /\ v4' = v4 /\ v4 = << >>
    BY DEF Datamgr!ReadMapLine, LookupInv
<1>2. v3' = SubSeq(v3, 1, Len(v3)) \o one \o SubSeq(v3, Len(v3) + 1, Len(v3))
    <2>1. v3' = Datamgr!dpl_insert_at_index(v3, e, Len(v3))
        BY DEF Datamgr!ReadMapLine, Datamgr!dpl_size
    <2>2. (IF Len(v3) <= 0 THEN 0 ELSE IF Len(v3) < Len(v3) THEN Len(v3) ELSE Len(v3)) = Len(v3)
        BY DEF LookupInv
    <2> QED
        BY <2>1, <2>2 DEF Datamgr!dpl_insert_at_index
<1>3. e \in Entry
    BY DEF Entry
<1>4. /\ v3' \in Seq(Entry) /\ Len(v3') = Len(v3) + 1 /\ Len(v3) \in Nat
      /\ v3'[Len(v3) + 1] = e
      /\ \A i \in 1..Len(v3) : v3'[i] = v3[i]
    <2> HIDE DEF e
    <2>1. v3 \in Seq(Entry) /\ Len(v3) \in Nat /\ one \in Seq(Entry)
        BY <1>3 DEF LookupInv
    <2>2. SubSeq(v3, 1, Len(v3)) = v3
        BY <2>1
    <2>3. SubSeq(v3, Len(v3) + 1, Len(v3)) = << >>
        BY <2>1, SubSeqEmpty
    <2>4. v3' = v3 \o one
        <3>1. v3 \o one \in Seq(Entry)
            BY <2>1, ConcatProperties
        <3> QED
            BY <1>2, <2>2, <2>3, <3>1, ConcatEmptySeq
    <2> QED
        BY <2>1, <2>4
<1>5. ASSUME NEW i \in 1..Len(v3') PROVE Filed(v3'[i], v1, v4')
    <2>1. CASE i \in 1..Len(v3)
        <3>1. Filed(v3[i], v1, v4)
            BY <2>1 DEF LookupInv
        <3>2. v3'[i] = v3[i]
            BY <1>4, <2>1
        <3> QED
            BY <1>1, <3>1, <3>2 DEF Filed
    <2>2. CASE i = Len(v3) + 1
        <3>1. v3'[i].runningAvg = << >>
            BY <1>4, <2>2
        <3>2. Len(<< >>) = 0
            OBVIOUS
        <3>3. RUN_AVG_LENGTH \in Nat
            BY ProgramsAssumption
        <3> QED
            BY <3>1, <3>2, <3>3 DEF Filed
    <2> QED
        BY <1>4, <2>1, <2>2
<1>6. Len(v4') = 0 /\ v4' = << >>
    BY <1>1
<1>7. ASSUME NEW i \in 1..Len(v3') PROVE 1..Len(v3'[i].runningAvg) = {}
    <2>1. \A k \in 1..Len(v3'[i].runningAvg) : v3'[i].runningAvg[k] \in 1..0
        BY <1>5, <1>6 DEF Filed
    <2> QED
        BY <2>1
<1>8. Apart'
    BY <1>7 DEF Apart
<1>9. FirstHas'
    BY <1>6 DEF FirstHas
<1> QED
    BY <1>1, <1>4, <1>5, <1>6, <1>8, <1>9 DEF LookupInv

(* The number of a new reading is the largest.                             *)
LEMMA LookupRecorded ==
    ASSUME NEW e \in Entry, Filed(e, v1, v4), v4 \in Seq(Id),
           v4' \in Seq(Id), Len(v4') = Len(v4) + 1,
           \A i \in 1..Len(v4) : v4'[i] = v4[i],
           v4'[Len(v4')] = IF v1 = "file" THEN e.roomId ELSE e.sensorId
    PROVE  /\ Datamgr!Recorded(e, Len(v4')) \in Entry
           /\ Filed(Datamgr!Recorded(e, Len(v4')), v1, v4')
           /\ Datamgr!Recorded(e, Len(v4')).sensorId = e.sensorId
           /\ \A k \in 1..Len(Datamgr!Recorded(e, Len(v4')).runningAvg) :
                 \/ Datamgr!Recorded(e, Len(v4')).runningAvg[k] = Len(v4')
                 \/ \E j \in 1..Len(e.runningAvg) :
                       Datamgr!Recorded(e, Len(v4')).runningAvg[k] = e.runningAvg[j]
           /\ \A m \in 1..Len(v4') :
                 m = Len(v4') \/ Datamgr!Has(e.runningAvg, m)
                 => Datamgr!Has(Datamgr!Recorded(e, Len(v4')).runningAvg, m)
<1> DEFINE w == e.runningAvg
           n == Len(v4')
           x == IF Len(w) = RUN_AVG_LENGTH THEN Append(Tail(w), n) ELSE Append(w, n)
<1>1. /\ w \in Seq(Nat) /\ Len(w) \in Nat /\ n \in Nat /\ Len(v4) \in Nat /\ n = Len(v4) + 1
      /\ Len(w) <= RUN_AVG_LENGTH /\ RUN_AVG_LENGTH \in Nat \ {0}
    <2>1. w \in Seq(Nat)
        BY DEF Entry
    <2>2. Len(w) <= RUN_AVG_LENGTH
        BY DEF Filed
    <2>3. RUN_AVG_LENGTH \in Nat \ {0}
        BY ProgramsAssumption
    <2> QED
        BY <2>1, <2>2, <2>3, LenProperties
<1>2. Datamgr!Recorded(e, n) = [e EXCEPT !.runningAvg = x]
    BY DEF Datamgr!Recorded
<1>3. /\ x \in Seq(Nat) /\ Len(x) <= RUN_AVG_LENGTH /\ Len(x) \in Nat \ {0} /\ x[Len(x)] = n
      /\ \/ /\ Len(x) = Len(w) + 1 /\ Len(w) # RUN_AVG_LENGTH
            /\ \A k \in 1..Len(x) - 1 : x[k] = w[k]
         \/ /\ Len(x) = Len(w) /\ Len(w) = RUN_AVG_LENGTH
            /\ \A k \in 1..Len(x) - 1 : x[k] = w[k + 1]
    <2> HIDE DEF w, n
    <2>1. CASE Len(w) = RUN_AVG_LENGTH
        <3>1. /\ Tail(w) \in Seq(Nat) /\ Len(Tail(w)) = Len(w) - 1
              /\ \A k \in 1..Len(Tail(w)) : Tail(w)[k] = w[k + 1]
            BY <1>1, <2>1, HeadTailProperties
        <3>2. x = Append(Tail(w), n)
            BY <2>1
        <3> HIDE DEF x
        <3>3. /\ x \in Seq(Nat) /\ Len(x) = Len(Tail(w)) + 1
              /\ \A k \in 1..Len(Tail(w)) : x[k] = Tail(w)[k]
              /\ x[Len(Tail(w)) + 1] = n
            BY <1>1, <3>1, <3>2, AppendProperties
        <3> QED
            BY <1>1, <2>1, <3>1, <3>3
    <2>2. CASE Len(w) # RUN_AVG_LENGTH
        <3>1. x = Append(w, n)
            BY <2>2
        <3> HIDE DEF x
        <3>2. /\ x \in Seq(Nat) /\ Len(x) = Len(w) + 1
              /\ \A k \in 1..Len(w) : x[k] = w[k]
              /\ x[Len(w) + 1] = n
            BY <1>1, <3>1, AppendProperties
        <3> QED
            BY <1>1, <2>2, <3>2
    <2> QED
        BY <2>1, <2>2
<1>4. /\ [e EXCEPT !.runningAvg = x] \in Entry
      /\ [e EXCEPT !.runningAvg = x].runningAvg = x
      /\ [e EXCEPT !.runningAvg = x].roomId = e.roomId
      /\ [e EXCEPT !.runningAvg = x].sensorId = e.sensorId
    <2> HIDE DEF x
    <2> QED
        BY <1>3 DEF Entry
<1> DEFINE by == IF v1 = "file" THEN e.roomId ELSE e.sensorId
<1>5. /\ \A k \in 1..Len(w) : w[k] \in 1..Len(v4) /\ v4[w[k]] = by
      /\ \A k \in 1..Len(w) - 1 : w[k] < w[k + 1]
    BY DEF Filed
<1>6. v4'[n] = by
    OBVIOUS
<1> HIDE DEF x, w, n, by
<1>7. ASSUME NEW k \in 1..Len(x) - 1
      PROVE  \E j \in 1..Len(w) : /\ x[k] = w[j]
                                  /\ k + 1 # Len(x) => j + 1 \in 1..Len(w) /\ x[k + 1] = w[j + 1]
    <2>1. CASE /\ Len(x) = Len(w) + 1
               /\ \A i \in 1..Len(x) - 1 : x[i] = w[i]
        <3>1. k \in 1..Len(w) /\ (k + 1 # Len(x) => k + 1 \in 1..Len(w) /\ k + 1 \in 1..Len(x) - 1)
            <4>1. Len(w) \in Nat /\ Len(x) = Len(w) + 1
                BY <1>1, <2>1
            <4> QED
                BY <4>1
        <3> QED
            BY <2>1, <3>1
    <2>2. CASE /\ Len(x) = Len(w)
               /\ \A i \in 1..Len(x) - 1 : x[i] = w[i + 1]
        <3>1. /\ k + 1 \in 1..Len(w)
              /\ k + 1 # Len(x) => (k + 1) + 1 \in 1..Len(w) /\ k + 1 \in 1..Len(x) - 1
            <4>1. Len(w) \in Nat /\ Len(x) = Len(w)
                BY <1>1, <2>2
            <4> QED
                BY <4>1
        <3> QED
            BY <2>2, <3>1
    <2> QED
        BY <1>3, <2>1, <2>2
<1>8. ASSUME NEW k \in 1..Len(x) PROVE x[k] \in 1..n /\ v4'[x[k]] = by
    <2>1. CASE k = Len(x)
        BY <1>1, <1>3, <1>6, <2>1
    <2>2. CASE k \in 1..Len(x) - 1
        <3>1. PICK j \in 1..Len(w) : x[k] = w[j]
            BY <1>7, <2>2
        <3>2. w[j] \in 1..Len(v4) /\ v4[w[j]] = by
            BY <1>5
        <3> QED
            BY <1>1, <3>1, <3>2
    <2> QED
        BY <1>3, <2>1, <2>2
<1>9. ASSUME NEW k \in 1..Len(x) - 1 PROVE x[k] < x[k + 1]
    <2>1. PICK j \in 1..Len(w) : /\ x[k] = w[j]
                                 /\ k + 1 # Len(x) => j + 1 \in 1..Len(w) /\ x[k + 1] = w[j + 1]
        BY <1>7
    <2>2. CASE k + 1 = Len(x)
        <3>1. w[j] \in 1..Len(v4)
            BY <1>5
        <3>2. x[k + 1] = n
            BY <1>3, <2>2
        <3> QED
            BY <1>1, <2>1, <3>1, <3>2
    <2>3. CASE k + 1 # Len(x)
        <3>1. j \in 1..Len(w) - 1
            BY <1>1, <2>1, <2>3
        <3> QED
            BY <1>5, <2>1, <2>3, <3>1
    <2> QED
        BY <2>2, <2>3
<1>10. \A k \in 1..Len(x) : x[k] = n \/ \E j \in 1..Len(w) : x[k] = w[j]
    <2> SUFFICES ASSUME NEW k \in 1..Len(x) PROVE x[k] = n \/ \E j \in 1..Len(w) : x[k] = w[j]
        OBVIOUS
    <2>1. CASE k = Len(x)
        BY <1>3, <2>1
    <2>2. CASE k \in 1..Len(x) - 1
        BY <1>7, <2>2
    <2> QED
        BY <1>3, <2>1, <2>2
<1>11. ASSUME NEW m \in 1..n, m = n \/ Datamgr!Has(w, m) PROVE Datamgr!Has(x, m)
    <2>1. CASE m = n
        <3>1. Len(x) \in 1..Len(x) /\ x[Len(x)] = m
            BY <1>3, <2>1
        <3> QED
            BY <3>1 DEF Datamgr!Has
    <2>2. CASE /\ m # n /\ Len(x) = Len(w) + 1 /\ Len(w) # RUN_AVG_LENGTH
               /\ \A k \in 1..Len(x) - 1 : x[k] = w[k]
        <3>1. PICK k \in 1..Len(w) : m = w[k]
            BY <1>11, <2>2 DEF Datamgr!Has
        <3>2. k \in 1..Len(x) - 1 /\ k \in 1..Len(x)
            BY <1>1, <2>2
        <3>3. x[k] = m
            BY <2>2, <3>1, <3>2
        <3> QED
            BY <3>2, <3>3 DEF Datamgr!Has
    <2>3. CASE /\ m # n /\ Len(x) = Len(w) /\ Len(w) = RUN_AVG_LENGTH
               /\ \A k \in 1..Len(x) - 1 : x[k] = w[k + 1]
        <3>1. w[1] \in Nat /\ x[1] \in Nat /\ w[1] < x[1]
            <4>1. CASE Len(w) = 1
                <5>1. w[1] \in 1..Len(v4)
                    BY <1>5, <4>1
                <5>2. x[1] = n
                    BY <1>3, <2>3, <4>1
                <5> QED
                    BY <1>1, <5>1, <5>2
            <4>2. CASE Len(w) # 1
                <5>1. 1 \in 1..Len(x) - 1 /\ 1 \in 1..Len(w) - 1 /\ 2 \in 1..Len(w) /\ 1 \in 1..Len(w)
                    BY <1>1, <2>3, <4>2
                <5>2. x[1] = w[2]
                    BY <2>3, <5>1
                <5>3. w[1] < w[2] /\ w[1] \in 1..Len(v4) /\ w[2] \in 1..Len(v4)
                    BY <1>5, <5>1
                <5> QED
                    BY <1>1, <5>2, <5>3
            <4> QED
                BY <4>1, <4>2
        <3>2. CASE m < w[1] \/ m = w[1]
            <4>1. m < x[1]
                BY <1>1, <3>1, <3>2
            <4> QED
                BY <2>3, <4>1 DEF Datamgr!Has
        <3>3. ASSUME NEW k \in 1..Len(w), k # 1, m = w[k] PROVE Datamgr!Has(x, m)
            <4>1. k - 1 \in 1..Len(x) - 1 /\ k - 1 \in 1..Len(x) /\ (k - 1) + 1 = k
                BY <1>1, <2>3, <3>3
            <4>2. x[k - 1] = m
                BY <2>3, <3>3, <4>1
            <4> QED
                BY <4>1, <4>2 DEF Datamgr!Has
        <3>4. m < w[1] \/ \E k \in 1..Len(w) : m = w[k]
            BY <1>11, <2>3 DEF Datamgr!Has
        <3> QED
            BY <3>2, <3>3, <3>4
    <2> QED
        BY <1>3, <2>1, <2>2, <2>3
<1>12. Datamgr!Recorded(e, n) \in Entry /\ Filed(Datamgr!Recorded(e, n), v1, v4')
    BY <1>2, <1>3, <1>4, <1>8, <1>9 DEF Filed, n, by
<1>13. /\ Datamgr!Recorded(e, n).sensorId = e.sensorId
       /\ Datamgr!Recorded(e, n).runningAvg = x
    BY <1>2, <1>4
<1> QED
    BY <1>10, <1>11, <1>12, <1>13 DEF n, w

LEMMA LookupRecord ==
    ASSUME LookupInv, NEW id \in Id, NEW behind \in Id, Datamgr!ReadRecord(id, behind)
    PROVE  LookupInv'
<1> DEFINE index == Datamgr!IndexForReading(id, behind)
<1>1. /\ v1' = v1 /\ v2 = "read" /\ v2' = v2
      /\ v4' = Append(v4, id)
    BY DEF Datamgr!ReadRecord
<1>2. /\ v4 \in Seq(Id) /\ Len(v4) \in Nat /\ v4' \in Seq(Id) /\ Len(v4') = Len(v4) + 1
      /\ \A i \in 1..Len(v4) : v4'[i] = v4[i]
      /\ v4'[Len(v4')] = id
    BY <1>1, AppendProperties DEF LookupInv
<1>3. /\ v3 \in Seq(Entry) /\ Len(v3) \in Nat
      /\ \A i \in 1..Len(v3) : v3[i] \in Entry /\ Filed(v3[i], v1, v4)
    BY ElementOfSeq DEF LookupInv
<1>4. ASSUME NEW e \in Entry, Filed(e, v1, v4) PROVE Filed(e, v1, v4')
    <2>1. ASSUME NEW k \in 1..Len(v4) PROVE k \in 1..Len(v4') /\ v4'[k] = v4[k]
        BY <1>2
    <2> QED
        BY <1>4, <2>1 DEF Filed
<1>5. v1 = "gateway" => index = Datamgr!IndexOf(id, id)
    BY DEF Datamgr!IndexForReading
<1>6. CASE index = -1
    <2>1. v3' = v3
        BY <1>6 DEF Datamgr!ReadRecord
    <2>2. Apart'
        BY <2>1 DEF LookupInv, Apart
    <2>3. FirstHas'
        <3> SUFFICES ASSUME v1 = "gateway", NEW n \in 1..Len(v4'), NEW i \in 1..Len(v3),
                            v3[i].sensorId = v4'[n],
                            \A j \in 1..i - 1 : v3[j].sensorId # v4'[n]
                     PROVE  Datamgr!Has(v3[i].runningAvg, n)
            BY <1>1, <2>1 DEF FirstHas
        <3>1. v3[i].sensorId # id
            <4>1. ~Datamgr!element_compare(v3[i], id, id)
                BY <1>3, <1>5, <1>6, NoneEqual
            <4> QED
                BY <4>1 DEF Datamgr!element_compare
        <3>2. n \in 1..Len(v4) /\ v4'[n] = v4[n]
            BY <1>2, <3>1
        <3> QED
            BY <3>2 DEF LookupInv, FirstHas
    <2> QED
        BY <1>1, <1>2, <1>3, <1>4, <2>1, <2>2, <2>3 DEF LookupInv
<1>7. CASE index # -1
    <2> DEFINE e == v3[index + 1]
    <2>1. /\ index \in 0..Len(v3) - 1
          /\ id = IF v1 = "file" THEN e.roomId ELSE e.sensorId
        <3>1. CASE v1 = "file"
            <4>1. index = Datamgr!IndexOf(id, behind)
                BY <3>1 DEF Datamgr!IndexForReading
            <4> QED
                BY <1>3, <1>7, <3>1, <4>1, FirstEqual DEF Datamgr!element_compare
        <3>2. CASE v1 # "file"
            <4>1. index = Datamgr!IndexOf(id, id)
                BY <3>2 DEF Datamgr!IndexForReading
            <4> QED
                BY <1>3, <1>7, <3>2, <4>1, FirstEqual DEF Datamgr!element_compare
        <3> QED
            BY <3>1, <3>2
    <2>10. v1 = "gateway" => \A i \in 1..index : v3[i].sensorId # id
        BY <1>3, <1>5, <1>7, FirstEqual DEF Datamgr!element_compare
    <2> HIDE DEF index
    <2>2. e \in Entry /\ Filed(e, v1, v4)
        BY <1>3, <2>1
    <2>3. v3' = [v3 EXCEPT ![index + 1] = Datamgr!Recorded(e, Len(v4'))]
        <3>1. v3' = [v3 EXCEPT ![index + 1] =
                        Datamgr!Recorded(Datamgr!dpl_get_element_at_index(v3, index), Len(v4'))]
            BY <1>7 DEF Datamgr!ReadRecord, index
        <3>2. Datamgr!dpl_get_element_at_index(v3, index) = e
            BY <1>3, <2>1 DEF Datamgr!dpl_get_element_at_index
        <3> QED
            BY <3>1, <3>2
    <2> DEFINE r == Datamgr!Recorded(e, Len(v4'))
    <2>4. /\ r \in Entry /\ Filed(r, v1, v4') /\ r.sensorId = e.sensorId
          /\ \A k \in 1..Len(r.runningAvg) :
                \/ r.runningAvg[k] = Len(v4')
                \/ \E j \in 1..Len(e.runningAvg) : r.runningAvg[k] = e.runningAvg[j]
          /\ \A m \in 1..Len(v4') :
                m = Len(v4') \/ Datamgr!Has(e.runningAvg, m) => Datamgr!Has(r.runningAvg, m)
        <3> HIDE DEF e
        <3> QED
            BY <1>1, <1>2, <2>1, <2>2, LookupRecorded
    <2>5. /\ v3' \in Seq(Entry) /\ Len(v3') = Len(v3)
          /\ \A i \in 1..Len(v3) :
                v3'[i] = IF i = index + 1 THEN r ELSE v3[i]
        <3>1. v3' = [v3 EXCEPT ![index + 1] = r] /\ r \in Entry
            BY <2>3, <2>4
        <3> HIDE DEF e, r
        <3> QED
            BY <1>3, <2>1, <3>1
    <2>6. \A i \in 1..Len(v3') : Filed(v3'[i], v1, v4')
        <3> HIDE DEF e, r
        <3> QED
            BY <1>3, <1>4, <2>4, <2>5
    <2>7. index + 1 \in 1..Len(v3) /\ v3[index + 1] = e
        BY <1>3, <2>1
    <2> HIDE DEF e, r
    <2>8. ASSUME NEW i \in 1..Len(v3), NEW k \in 1..Len(v3'[i].runningAvg)
          PROVE  \/ i = index + 1 /\ v3'[i].runningAvg[k] = Len(v4')
                 \/ \E l \in 1..Len(v3[i].runningAvg) : v3'[i].runningAvg[k] = v3[i].runningAvg[l]
        <3>1. CASE i = index + 1
            BY <2>4, <2>5, <2>7, <3>1
        <3>2. CASE i # index + 1
            BY <2>5, <3>2
        <3> QED
            BY <3>1, <3>2
    <2>9. Apart'
        <3> SUFFICES ASSUME NEW i \in 1..Len(v3), NEW j \in 1..Len(v3), i # j,
                            NEW k \in 1..Len(v3'[i].runningAvg), NEW l \in 1..Len(v3'[j].runningAvg)
                     PROVE  v3'[i].runningAvg[k] # v3'[j].runningAvg[l]
            BY <2>5 DEF Apart
        <3>1. \A m \in 1..Len(v3) : \A q \in 1..Len(v3[m].runningAvg) :
                    v3[m].runningAvg[q] # Len(v4')
            BY <1>2, <1>3 DEF Filed
        <3>2. /\ \/ i = index + 1 /\ v3'[i].runningAvg[k] = Len(v4')
                 \/ \E q \in 1..Len(v3[i].runningAvg) : v3'[i].runningAvg[k] = v3[i].runningAvg[q]
              /\ \/ j = index + 1 /\ v3'[j].runningAvg[l] = Len(v4')
                 \/ \E q \in 1..Len(v3[j].runningAvg) : v3'[j].runningAvg[l] = v3[j].runningAvg[q]
            BY <2>8
        <3>3. Apart
            BY DEF LookupInv
        <3> QED
            BY <3>1, <3>2, <3>3 DEF Apart
    <2>11. FirstHas'
        <3> SUFFICES ASSUME v1 = "gateway", NEW n \in 1..Len(v4'), NEW i \in 1..Len(v3),
                            v3'[i].sensorId = v4'[n],
                            \A j \in 1..i - 1 : v3'[j].sensorId # v4'[n]
                     PROVE  Datamgr!Has(v3'[i].runningAvg, n)
            BY <1>1, <2>5 DEF FirstHas
        <3>1. \A j \in 1..Len(v3) : v3'[j].sensorId = v3[j].sensorId
            BY <2>4, <2>5, <2>7
        <3>2. v3[i].sensorId = v4'[n] /\ \A j \in 1..i - 1 : v3[j].sensorId # v4'[n]
            BY <1>3, <3>1
        <3>3. CASE n \in 1..Len(v4)
            <4>1. v4'[n] = v4[n]
                BY <1>2, <3>3
            <4>2. Datamgr!Has(v3[i].runningAvg, n)
                BY <3>2, <3>3, <4>1 DEF LookupInv, FirstHas
            <4> QED
                BY <2>4, <2>5, <2>7, <4>2
        <3>4. CASE n = Len(v4')
            <4>1. v4'[n] = id
                BY <1>2, <3>4
            <4>2. e.sensorId = id
                BY <2>1, <2>7
            <4>3. i = index + 1
                <5>1. ~(i \in 1..index)
                    BY <2>10, <3>2, <4>1
                <5>2. ~(index + 1 \in 1..i - 1)
                    BY <2>7, <3>2, <4>1, <4>2
                <5> QED
                    BY <1>3, <2>1, <5>1, <5>2
            <4> QED
                BY <2>4, <2>5, <3>4, <4>3
        <3> QED
            BY <1>2, <3>3, <3>4
    <2> QED
        BY <1>1, <1>2, <2>5, <2>6, <2>9, <2>11 DEF LookupInv
<1> QED
    BY <1>6, <1>7

LEMMA LookupNext ==
    ASSUME LookupInv, Datamgr!Next \/ UNCHANGED Datamgr!vars
    PROVE  LookupInv'
<1>1. ASSUME NEW room \in Id, NEW sensor \in Id, Datamgr!ReadMapLine(room, sensor)
      PROVE  LookupInv'
    BY <1>1, LookupMapLine
<1>2. ASSUME NEW id \in Id, NEW behind \in Id, Datamgr!ReadRecord(id, behind)
      PROVE  LookupInv'
    BY <1>2, LookupRecord
<1>3. CASE v1' = v1 /\ v3' = v3 /\ v4' = v4 /\ (v2' = "map" => v2 = "map")
    BY <1>3 DEF LookupInv, Apart, FirstHas, Filed
<1>4. CASE Datamgr!MapFails \/ Datamgr!EndOfMap \/ Datamgr!EndOfData \/ UNCHANGED Datamgr!vars
    BY <1>3, <1>4 DEF Datamgr!MapFails, Datamgr!EndOfMap, Datamgr!EndOfData, Datamgr!vars
<1>5. ASSUME NEW id \in Id, NEW behind \in Id, Datamgr!Query(id, behind)
      PROVE  LookupInv'
    BY <1>3, <1>5 DEF Datamgr!Query
<1> QED
    BY <1>1, <1>2, <1>4, <1>5 DEF Datamgr!Next

(* Whatever the map and the readings, and whatever lies in memory behind   *)
(* an id: a window is no longer than it may be and has readings of one     *)
(* sensor in their order, no reading is in two windows, and in the gateway *)
(* the first element of a sensor has the newest of all its readings.       *)
THEOREM LookupCorrect == Safety => [](program = "datamgr" => Datamgr!ReadingsAreFiled)
<1> DEFINE Inv == program = "datamgr" => LookupInv
<1>1. Init => Inv
    <2> SUFFICES ASSUME Init, program = "datamgr" PROVE LookupInv
        OBVIOUS
    <2>1. Datamgr!Init
        BY DEF Init
    <2>2. v3 = << >> /\ v4 = << >> /\ v1 \in {"file", "gateway"}
        BY <2>1 DEF Datamgr!Init
    <2> QED
        BY <2>2 DEF LookupInv, Apart, FirstHas
<1>2. Inv /\ [Next]_vars => Inv'
    <2> SUFFICES ASSUME Inv, [Next]_vars, program' = "datamgr" PROVE LookupInv'
        OBVIOUS
    <2>1. program = "datamgr"
        BY SameProgram
    <2>2. Datamgr!Next \/ UNCHANGED Datamgr!vars
        BY <2>1 DEF Next, Step, Milestone3Step, Others, Accidents, vars, Datamgr!vars
    <2> QED
        BY <2>1, <2>2, LookupNext
<1>3. Inv => (program = "datamgr" => Datamgr!ReadingsAreFiled)
    <2> SUFFICES ASSUME LookupInv PROVE Datamgr!ReadingsAreFiled
        OBVIOUS
    <2>1. ASSUME NEW i \in 1..Len(v3), NEW k \in 1..Len(v3[i].runningAvg)
          PROVE  /\ v4[v3[i].runningAvg[k]] = v4[v3[i].runningAvg[1]]
                 /\ v1 = "gateway" => v4[v3[i].runningAvg[k]] = v3[i].sensorId
        <3>1. Filed(v3[i], v1, v4) /\ v1 \in {"file", "gateway"} /\ 1 \in 1..Len(v3[i].runningAvg)
            BY DEF LookupInv
        <3> QED
            BY <3>1 DEF Filed
    <2>2. \A i \in 1..Len(v3) :
             /\ Len(v3[i].runningAvg) <= RUN_AVG_LENGTH
             /\ \A k \in 1..Len(v3[i].runningAvg) - 1 : v3[i].runningAvg[k] < v3[i].runningAvg[k + 1]
        BY DEF LookupInv, Filed
    <2>3. Apart /\ FirstHas
        BY DEF LookupInv
    <2>4. ASSUME NEW i \in 1..Len(v3), NEW j \in 1..Len(v3), NEW k \in 1..Len(v3[i].runningAvg),
                 j # i
          PROVE  ~\E l \in 1..Len(v3[j].runningAvg) : v3[j].runningAvg[l] = v3[i].runningAvg[k]
        BY <2>3, <2>4 DEF Apart
    <2>5. ASSUME v1 = "gateway", NEW n \in 1..Len(v4), NEW i \in 1..Len(v3),
                 v3[i].sensorId = v4[n], \A j \in 1..i - 1 : v3[j].sensorId # v4[n]
          PROVE  Datamgr!Has(v3[i].runningAvg, n)
        BY <2>3, <2>5 DEF FirstHas
    <2> QED
        BY <2>1, <2>2, <2>4, <2>5, Zenon DEF Datamgr!ReadingsAreFiled
<1> QED
    BY <1>1, <1>2, <1>3, PTL DEF Safety
-----------------------------------------------------------------------------
(* The lists that Dplist grew from: v1 is kind, v2 exists, v3 head, v4     *)
(* tail, v5 heap, v6 contents, v7 crash and v8 done.  As in DplistProofs   *)
(* a chain names the nodes in their order.                                 *)

Letters == Element \cup {97, 27, 98}
Links == [prev : 0..MaxNodes, next : 0..MaxNodes, element : Letters]
Length == Len(v6)

(* The node at place i of the chain, or Nil next to either end.            *)
NodeAt(chain, i) == IF i \in 1..Length THEN chain[i] ELSE 0

Chained(chain) ==
    /\ chain \in [1..Length -> 1..MaxNodes]
    /\ DOMAIN v5 = {chain[i] : i \in 1..Length}
    /\ \A i, j \in 1..Length : chain[i] = chain[j] => i = j
    /\ v3 = NodeAt(chain, 1)
    /\ v2 /\ v1 = "ex2" => v4 = NodeAt(chain, Length)
    /\ \A i \in 1..Length : /\ v5[chain[i]].next = NodeAt(chain, i + 1)
                            /\ v5[chain[i]].prev = NodeAt(chain, i - 1)
                            /\ v5[chain[i]].element = v6[i]

HasChain == \E chain \in [1..Length -> 1..MaxNodes] : Chained(chain)

ListTyped ==
    /\ v1 \in {"ex1", "ex2", "program"} /\ v2 \in BOOLEAN
    /\ v5 \in [DOMAIN v5 -> Links]
    /\ v6 \in Seq(Letters)
    /\ ~v2 => v6 = << >>

(* The calls of program.c that leave no list, and the sizes they leave.    *)
NoList == {0, 4, 12}
LengthAfter(d) ==
    IF d \in {6, 7, 16} THEN 1 ELSE IF d \in {8, 9} THEN 2 ELSE IF d \in {10, 11} THEN 3 ELSE 0

(* Its 17th call is the surprising one, which is not made.                 *)
ProgramAt ==
    v1 = "program" => v8 \in 0..16 /\ v2 = (v8 \notin NoList) /\ Length = LengthAfter(v8)

ListInv ==
    /\ ListTyped /\ HasChain
    /\ v7 = Lists!None
    /\ ProgramAt
-----------------------------------------------------------------------------
(* Walking the chain.                                                      *)

LEMMA AfterFollowsChain ==
    ASSUME ListTyped, NEW chain, Chained(chain)
    PROVE  \A k \in Nat : Lists!After[k] = NodeAt(chain, k + 1)
<1> DEFINE F(f) == [k \in Nat |-> IF k = 0 THEN v3
                                  ELSE IF f[k - 1] = Lists!Nil THEN Lists!Nil
                                  ELSE v5[f[k - 1]].next]
           g    == [k \in Nat |-> NodeAt(chain, k + 1)]
           Same == {k \in Nat : Lists!After[k] = NodeAt(chain, k + 1)}
<1>1. Length \in Nat /\ \A i \in 1..Length : chain[i] \in 1..MaxNodes
    BY DEF ListTyped, Length, Chained
<1>2. \A k \in Nat : g[k] = IF k = 0 THEN v3
                            ELSE IF g[k - 1] = Lists!Nil THEN Lists!Nil ELSE v5[g[k - 1]].next
    <2> SUFFICES ASSUME NEW k \in Nat, k # 0
                 PROVE  NodeAt(chain, k + 1) = IF NodeAt(chain, k) = 0 THEN 0
                                               ELSE v5[NodeAt(chain, k)].next
        <3>1. \A k \in Nat : k # 0 => k - 1 \in Nat /\ (k - 1) + 1 = k
            OBVIOUS
        <3>2. g[0] = v3 /\ \A k \in Nat : k # 0 => g[k - 1] = NodeAt(chain, k)
            BY <3>1 DEF Chained
        <3> QED
            BY <3>2 DEF Lists!Nil
    <2> QED
        BY <1>1 DEF Chained, NodeAt
<1>3. g = F(g)
    <2>1. g = [k \in Nat |-> g[k]]
        OBVIOUS
    <2> QED
        BY <1>2, <2>1, Zenon
<1>4. Lists!After = F(Lists!After)
    <2>1. Lists!After = CHOOSE f : f = F(f)
        BY DEF Lists!After
    <2> QED
        BY <1>3, <2>1, Zenon
<1>5. 0 \in Same
    BY <1>4 DEF Chained
<1>6. \A k \in Nat \cap Same : k + 1 \in Same
    <2> SUFFICES ASSUME NEW k \in Nat, Lists!After[k] = NodeAt(chain, k + 1)
                 PROVE  Lists!After[k + 1] = NodeAt(chain, k + 2)
        OBVIOUS
    <2>1. Lists!After[k + 1] = IF Lists!After[k] = Lists!Nil THEN Lists!Nil
                               ELSE v5[Lists!After[k]].next
        BY <1>4
    <2> QED
        BY <1>1, <2>1 DEF Chained, NodeAt, Lists!Nil
<1>7. Nat \subseteq Same
    <2> HIDE DEF Same
    <2> QED
        BY <1>5, <1>6, ListConstants, Proven!Induction
<1> QED
    BY <1>7

LEMMA ChainFacts ==
    ASSUME ListTyped, NEW chain, Chained(chain)
    PROVE  /\ Length \in Nat /\ MaxNodes \in Nat
           /\ Lists!dpl_size = Length
           /\ \A i \in 1..Length : /\ Lists!After[i - 1] = chain[i]
                                   /\ chain[i] \in Lists!nodes /\ chain[i] \in 1..MaxNodes
                                   /\ v5[chain[i]] \in Links
           /\ 0 \notin Lists!nodes
           /\ v3 = 0 <=> Length = 0
<1>1. Length \in Nat /\ MaxNodes \in Nat
    BY ProgramsAssumption DEF ListTyped, Length
<1>2. \A i \in 1..Length : /\ chain[i] \in 1..MaxNodes /\ chain[i] # 0
                           /\ chain[i] \in Lists!nodes
                           /\ v5[chain[i]] \in Links
    BY <1>1 DEF Chained, Lists!nodes, ListTyped
<1>3. \A k \in Nat : Lists!After[k] = NodeAt(chain, k + 1)
    BY AfterFollowsChain
<1>4. Length <= MaxNodes
    <2>1. chain \in Injection(1..Length, 1..MaxNodes)
        BY DEF Chained, Injection, IsInjective
    <2>2. IsFiniteSet(1..MaxNodes) /\ Cardinality(1..Length) = Length /\ Cardinality(1..MaxNodes) = MaxNodes
        BY <1>1, FS_Interval
    <2> QED
        BY <1>1, <2>1, <2>2, FS_Injection
<1>5. {k \in 0..MaxNodes : Lists!After[k] # Lists!Nil} = 0..(Length - 1)
    <2>1. \A k \in 0..MaxNodes : Lists!After[k] = 0 <=> k + 1 \notin 1..Length
        BY <1>1, <1>2, <1>3 DEF NodeAt
    <2> QED
        BY <1>1, <1>4, <2>1 DEF Lists!Nil
<1>6. Lists!dpl_size = Length
    <2>1. Cardinality(0..(Length - 1)) = Length
        BY <1>1, FS_Interval
    <2> QED
        BY <1>5, <2>1 DEF Lists!dpl_size, Lists!Cardinality, Cardinality
<1>7. \A i \in 1..Length : Lists!After[i - 1] = chain[i]
    BY <1>1, <1>3 DEF NodeAt
<1>8. 0 \notin Lists!nodes
    <2>1. Lists!nodes = {chain[i] : i \in 1..Length}
        BY DEF Chained, Lists!nodes
    <2> QED
        BY <1>2, <2>1
<1>9. v3 = 0 <=> Length = 0
    BY <1>1, <1>2 DEF Chained, NodeAt
<1> QED
    BY <1>1, <1>2, <1>6, <1>7, <1>8, <1>9

(* The node an index of at least 1 stands for.                             *)
LEMMA ReferenceAtIndex ==
    ASSUME ListTyped, NEW chain, Chained(chain), v2, Length > 0,
           NEW index \in Int, index > 0
    PROVE  Lists!dpl_get_reference_at_index(index)
               = chain[IF index < Length THEN index + 1 ELSE Length]
<1>1. /\ Length \in Nat /\ Lists!dpl_size = Length
      /\ \A i \in 1..Length : Lists!After[i - 1] = chain[i]
    BY ChainFacts
<1>2. CASE index < Length
    <2>1. index + 1 \in 1..Length /\ (index + 1) - 1 = index
        BY <1>1, <1>2
    <2> QED
        BY <1>1, <1>2, <2>1 DEF Lists!dpl_get_reference_at_index
<1>3. CASE ~(index < Length)
    <2>1. Lists!LastNode = chain[Length]
        BY <1>1 DEF Lists!LastNode
    <2>2. v1 = "ex2" => v4 = chain[Length]
        BY <1>1 DEF Chained, NodeAt
    <2> QED
        BY <1>1, <1>3, <2>1, <2>2 DEF Lists!dpl_get_reference_at_index
<1> QED
    BY <1>2, <1>3
-----------------------------------------------------------------------------
(* Insertion.                                                              *)

(* What the headers make of the contents, place by place.                  *)
PutAt(longer, p, e) ==
    /\ longer \in Seq(Letters) /\ Len(longer) = Length + 1
    /\ \A i \in 1..Length + 1 :
          longer[i] = IF i < p THEN v6[i] ELSE IF i = p THEN e ELSE v6[i - 1]

LEMMA InsertAtPuts ==
    ASSUME v6 \in Seq(Letters), NEW e \in Letters, NEW p \in 1..Length + 1
    PROVE  PutAt(Lists!InsertAt(v6, p, e), p, e)
<1> DEFINE front == SubSeq(v6, 1, p - 1)
           back  == SubSeq(v6, p, Length)
           one   == <<e>>
<1>1. Length \in Nat /\ p \in Nat /\ Length = Len(v6)
    BY DEF Length
<1>2. /\ front \in Seq(Letters) /\ Len(front) = p - 1
      /\ \A i \in 1..p - 1 : front[i] = v6[i]
    BY <1>1
<1>3. /\ back \in Seq(Letters) /\ Len(back) = Length + 1 - p
      /\ \A i \in 1..Length + 1 - p : back[i] = v6[p + i - 1]
    BY <1>1
<1>4. one \in Seq(Letters) /\ Len(one) = 1 /\ one[1] = e
    OBVIOUS
<1>5. Lists!InsertAt(v6, p, e) = front \o one \o back
    BY DEF Lists!InsertAt, Length
<1> HIDE DEF front, back, one
<1> DEFINE left == front \o one
<1>6. /\ left \in Seq(Letters) /\ Len(left) = p
      /\ \A i \in 1..p : left[i] = IF i < p THEN v6[i] ELSE e
    <2>1. /\ left \in Seq(Letters) /\ Len(left) = p
          /\ \A i \in 1..p : left[i] = IF i <= p - 1 THEN front[i] ELSE one[i - (p - 1)]
        <3>1. (p - 1) + 1 = p
            BY <1>1
        <3>2. /\ front \o one \in Seq(Letters) /\ Len(front \o one) = Len(front) + Len(one)
              /\ \A i \in 1..Len(front) + Len(one) :
                    (front \o one)[i] = IF i <= Len(front) THEN front[i] ELSE one[i - Len(front)]
            BY <1>2, <1>4, ConcatProperties
        <3> QED
            BY <1>2, <1>4, <3>1, <3>2
    <2> HIDE DEF left
    <2> QED
        BY <1>1, <1>2, <1>4, <2>1
<1> HIDE DEF left
<1>7. /\ left \o back \in Seq(Letters) /\ Len(left \o back) = Length + 1
      /\ \A i \in 1..Length + 1 : (left \o back)[i] = IF i <= p THEN left[i] ELSE back[i - p]
    <2>1. /\ left \o back \in Seq(Letters) /\ Len(left \o back) = Len(left) + Len(back)
          /\ \A i \in 1..Len(left) + Len(back) :
                (left \o back)[i] = IF i <= Len(left) THEN left[i] ELSE back[i - Len(left)]
        BY <1>3, <1>6, ConcatProperties
    <2>2. Len(left) + Len(back) = Length + 1
        BY <1>1, <1>3, <1>6
    <2> QED
        BY <1>6, <2>1, <2>2
<1>8. ASSUME NEW i \in 1..Length + 1
      PROVE  (left \o back)[i] = IF i < p THEN v6[i] ELSE IF i = p THEN e ELSE v6[i - 1]
    <2>1. CASE i <= p
        BY <1>1, <1>6, <1>7, <2>1
    <2>2. CASE i > p
        <3>1. i - p \in 1..Length + 1 - p /\ p + (i - p) - 1 = i - 1
            BY <1>1, <2>2
        <3> QED
            BY <1>1, <1>3, <1>7, <2>2, <3>1
    <2>3. i <= p \/ i > p
        BY <1>1
    <2> QED
        BY <2>1, <2>2, <2>3
<1> QED
    BY <1>5, <1>7, <1>8 DEF PutAt, left

(* The place of the new node.                                              *)
NewPlace(index) ==
    IF index <= 0 THEN 1 ELSE IF index < Length THEN index + 1 ELSE Length + 1

LEMMA WithInsertedPuts ==
    ASSUME v6 \in Seq(Letters), NEW e \in Letters, NEW index \in Int
    PROVE  /\ NewPlace(index) \in 1..Length + 1
           /\ PutAt(Lists!WithInserted(e, index), NewPlace(index), e)
<1>1. Length \in Nat /\ Length = Len(v6)
    BY DEF Length
<1>2. NewPlace(index) \in 1..Length + 1
    BY <1>1 DEF NewPlace
<1>3. CASE index <= 0
    <2>1. Lists!WithInserted(e, index) = <<e>> \o v6 /\ NewPlace(index) = 1
        BY <1>1, <1>3 DEF Lists!WithInserted, NewPlace
    <2>2. <<e>> \in Seq(Letters) /\ Len(<<e>>) = 1 /\ <<e>>[1] = e
        OBVIOUS
    <2>3. /\ <<e>> \o v6 \in Seq(Letters) /\ Len(<<e>> \o v6) = 1 + Length
          /\ \A i \in 1..1 + Length :
                (<<e>> \o v6)[i] = IF i <= 1 THEN <<e>>[i] ELSE v6[i - 1]
        BY <1>1, <2>2, ConcatProperties
    <2> QED
        BY <1>1, <2>1, <2>2, <2>3 DEF PutAt
<1>4. CASE index > 0 /\ index < Length
    <2>1. Lists!WithInserted(e, index) = Lists!InsertAt(v6, index + 1, e)
        BY <1>1, <1>4 DEF Lists!WithInserted
    <2>2. NewPlace(index) = index + 1 /\ index + 1 \in 1..Length + 1
        BY <1>1, <1>4 DEF NewPlace
    <2> QED
        BY <2>1, <2>2, InsertAtPuts
<1>5. CASE index > 0 /\ ~(index < Length)
    <2>1. Lists!WithInserted(e, index) = Append(v6, e)
        BY <1>1, <1>5 DEF Lists!WithInserted
    <2>2. NewPlace(index) = Length + 1
        BY <1>1, <1>5 DEF NewPlace
    <2>3. /\ Append(v6, e) \in Seq(Letters) /\ Len(Append(v6, e)) = Length + 1
          /\ \A i \in 1..Length : Append(v6, e)[i] = v6[i]
          /\ Append(v6, e)[Length + 1] = e
        BY <1>1, AppendProperties
    <2> QED
        BY <1>1, <2>1, <2>2, <2>3 DEF PutAt
<1> QED
    BY <1>1, <1>2, <1>3, <1>4, <1>5

(* The heap after a node is linked at place p, node by node.               *)
LinkedAt(chain, p, n, e) ==
    /\ DOMAIN v5' = Lists!nodes \cup {n}
    /\ v5' \in [DOMAIN v5' -> Links]
    /\ v5'[n] = [prev |-> NodeAt(chain, p - 1), next |-> NodeAt(chain, p), element |-> e]
    /\ \A i \in 1..Length :
          /\ v5'[chain[i]].next = IF i = p - 1 THEN n ELSE NodeAt(chain, i + 1)
          /\ v5'[chain[i]].prev = IF i = p THEN n ELSE NodeAt(chain, i - 1)
          /\ v5'[chain[i]].element = v6[i]

LEMMA LinkedNodes ==
    ASSUME ListTyped, NEW chain, Chained(chain),
           NEW p \in 1..Length + 1, NEW n \in 1..MaxNodes, n \notin Lists!nodes, NEW e \in Letters,
           v5' = Lists!Between(NodeAt(chain, p - 1), n, NodeAt(chain, p), e)
    PROVE  LinkedAt(chain, p, n, e)
<1> DEFINE before == NodeAt(chain, p - 1)
           behind == NodeAt(chain, p)
<1>1. /\ Length \in Nat /\ MaxNodes \in Nat /\ 0 \notin Lists!nodes
      /\ \A i \in 1..Length : /\ chain[i] \in Lists!nodes /\ chain[i] \in 1..MaxNodes
                              /\ v5[chain[i]] \in Links
    BY ChainFacts
<1>2. before \in 0..MaxNodes /\ behind \in 0..MaxNodes
    BY <1>1 DEF NodeAt
<1>3. \A i \in 1..Length : (chain[i] = before <=> i = p - 1) /\ (chain[i] = behind <=> i = p)
    BY <1>1 DEF NodeAt, Chained
<1> HIDE DEF before, behind
<1>4. v5' = [m \in Lists!nodes \cup {n} |->
                IF m = n THEN [prev |-> before, next |-> behind, element |-> e]
                ELSE [v5[m] EXCEPT !.next = IF m = before THEN n ELSE @,
                                   !.prev = IF m = behind THEN n ELSE @]]
    BY DEF Lists!Between, before, behind
<1>5. DOMAIN v5' = Lists!nodes \cup {n}
    BY <1>4
<1>6. v5'[n] = [prev |-> before, next |-> behind, element |-> e]
    BY <1>4
<1>7. ASSUME NEW m \in Lists!nodes
      PROVE  /\ v5'[m] \in Links
             /\ v5'[m].next = IF m = before THEN n ELSE v5[m].next
             /\ v5'[m].prev = IF m = behind THEN n ELSE v5[m].prev
             /\ v5'[m].element = v5[m].element
    <2>1. v5'[m] = [v5[m] EXCEPT !.next = IF m = before THEN n ELSE @,
                                 !.prev = IF m = behind THEN n ELSE @]
        BY <1>4
    <2>2. v5[m] \in [prev : 0..MaxNodes, next : 0..MaxNodes, element : Letters]
        BY DEF ListTyped, Lists!nodes, Links
    <2>3. n \in 0..MaxNodes
        BY <1>1
    <2> QED
        BY <2>1, <2>2, <2>3 DEF Links
<1>8. v5'[n] \in Links
    BY <1>2, <1>6 DEF Links
<1>9. v5' \in [DOMAIN v5' -> Links]
    <2>1. v5' = [m \in DOMAIN v5' |-> v5'[m]]
        BY <1>4
    <2>2. \A m \in DOMAIN v5' : v5'[m] \in Links
        BY <1>5, <1>7, <1>8
    <2> QED
        BY <2>1, <2>2
<1>10. ASSUME NEW i \in 1..Length
       PROVE  /\ v5'[chain[i]].next = IF i = p - 1 THEN n ELSE NodeAt(chain, i + 1)
              /\ v5'[chain[i]].prev = IF i = p THEN n ELSE NodeAt(chain, i - 1)
              /\ v5'[chain[i]].element = v6[i]
    <2>1. /\ v5[chain[i]].next = NodeAt(chain, i + 1)
          /\ v5[chain[i]].prev = NodeAt(chain, i - 1)
          /\ v5[chain[i]].element = v6[i]
        BY DEF Chained
    <2> QED
        BY <1>1, <1>3, <1>7, <2>1
<1> QED
    BY <1>5, <1>6, <1>9, <1>10 DEF LinkedAt, before, behind

(* The chain with the new node in it is the chain of the new state.        *)
LEMMA LongerChain ==
    ASSUME ListTyped, NEW chain, Chained(chain),
           NEW p \in 1..Length + 1, NEW n \in 1..MaxNodes, n \notin Lists!nodes, NEW e \in Letters,
           v5' = Lists!Between(NodeAt(chain, p - 1), n, NodeAt(chain, p), e),
           v3' = IF NodeAt(chain, p - 1) = 0 THEN n ELSE v3,
           PutAt(v6', p, e), v1' = v1, v2' = v2,
           v2 /\ v1 = "ex2" => v4' = IF p = Length + 1 THEN n ELSE v4
    PROVE  HasChain'
<1>0. PICK size : size = Length
    OBVIOUS
<1> DEFINE longer == [i \in 1..(size + 1) |->
                         IF i < p THEN chain[i] ELSE IF i = p THEN n ELSE chain[i - 1]]
<1>1. /\ size \in Nat /\ size = Length /\ Length' = size + 1 /\ MaxNodes \in Nat
      /\ \A i \in 1..size : chain[i] \in Lists!nodes /\ chain[i] \in 1..MaxNodes
      /\ p \in 1..(size + 1)
    BY <1>0, ChainFacts DEF PutAt, Length
<1>2. \A i \in 1..(size + 1) : \/ i < p /\ i \in 1..size /\ longer[i] = chain[i]
                               \/ i = p /\ longer[i] = n
                               \/ i > p /\ i - 1 \in 1..size /\ longer[i] = chain[i - 1]
    BY <1>1
<1>3. longer \in [1..(size + 1) -> 1..MaxNodes]
    BY <1>1
<1>4. \A i \in 1..size : \E j \in 1..(size + 1) : longer[j] = chain[i]
    <2> TAKE i \in 1..size
    <2>1. CASE i < p
        BY <1>1, <2>1
    <2>2. CASE i >= p
        <3>1. i + 1 \in 1..(size + 1) /\ i + 1 > p /\ i + 1 - 1 = i
            BY <1>1, <2>2
        <3>2. longer[i + 1] = chain[i]
            BY <1>1, <3>1
        <3> QED
            BY <3>1, <3>2
    <2> QED
        BY <1>1, <2>1, <2>2
<1>5. /\ DOMAIN v5' = Lists!nodes \cup {n}
      /\ v5'[n] = [prev |-> NodeAt(chain, p - 1), next |-> NodeAt(chain, p), element |-> e]
      /\ \A i \in 1..size :
            /\ v5'[chain[i]].next = IF i = p - 1 THEN n ELSE NodeAt(chain, i + 1)
            /\ v5'[chain[i]].prev = IF i = p THEN n ELSE NodeAt(chain, i - 1)
            /\ v5'[chain[i]].element = v6[i]
    <2>1. LinkedAt(chain, p, n, e)
        BY LinkedNodes
    <2> QED
        BY <1>1, <2>1 DEF LinkedAt
<1>6. DOMAIN v5' = {longer[i] : i \in 1..(size + 1)}
    <2>1. longer[p] = n /\ p \in 1..(size + 1)
        BY <1>1
    <2>2. \A i \in 1..(size + 1) : longer[i] \in DOMAIN v5'
        BY <1>1, <1>2, <1>5
    <2>3. Lists!nodes = {chain[i] : i \in 1..size}
        BY <1>1 DEF Chained, Lists!nodes
    <2> HIDE DEF longer
    <2>4. \A m \in DOMAIN v5' : \E i \in 1..(size + 1) : longer[i] = m
        BY <1>4, <1>5, <2>1, <2>3
    <2> QED
        BY <2>2, <2>4
<1>7. \A i, j \in 1..(size + 1) : longer[i] = longer[j] => i = j
    <2>1. \A i, j \in 1..size : chain[i] = chain[j] => i = j
        BY <1>1 DEF Chained
    <2>2. \A i \in 1..size : chain[i] # n
        BY <1>1
    <2> HIDE DEF longer
    <2> QED
        BY <1>1, <1>2, <2>1, <2>2
<1>8. v3' = longer[1]
    <2>1. CASE p = 1
        BY <1>1, <2>1 DEF NodeAt
    <2>2. CASE p # 1
        <3>1. NodeAt(chain, p - 1) # 0 /\ longer[1] = chain[1] /\ NodeAt(chain, 1) = chain[1]
            BY <1>1, <2>2 DEF NodeAt
        <3> QED
            BY <3>1 DEF Chained
    <2> QED
        BY <2>1, <2>2
<1>9. v2 /\ v1 = "ex2" => v4' = longer[size + 1]
    <2> SUFFICES ASSUME v2, v1 = "ex2" PROVE v4' = longer[size + 1]
        OBVIOUS
    <2>1. v4 = NodeAt(chain, size)
        BY <1>1 DEF Chained
    <2>2. CASE p = size + 1
        BY <1>1, <2>2
    <2>3. CASE p # size + 1
        <3>1. longer[size + 1] = chain[size] /\ size \in 1..Length
            BY <1>1, <2>3
        <3> QED
            BY <1>1, <2>1, <2>3, <3>1 DEF NodeAt
    <2> QED
        BY <2>2, <2>3
<1> DEFINE around(i) == IF i \in 1..(size + 1) THEN longer[i] ELSE 0
<1>10. ASSUME NEW i \in 1..(size + 1)
       PROVE  /\ v5'[longer[i]].next = around(i + 1)
              /\ v5'[longer[i]].prev = around(i - 1)
              /\ v5'[longer[i]].element = v6'[i]
    <2>0. v6'[i] = IF i < p THEN v6[i] ELSE IF i = p THEN e ELSE v6[i - 1]
        BY <1>1 DEF PutAt
    <2>1. CASE i < p
        <3>1. i \in 1..size /\ longer[i] = chain[i]
            BY <1>1, <2>1
        <3>2. v5'[chain[i]].next = around(i + 1)
            BY <1>1, <1>5, <2>1, <3>1 DEF NodeAt
        <3>3. v5'[chain[i]].prev = around(i - 1)
            BY <1>1, <1>5, <2>1, <3>1 DEF NodeAt
        <3>4. v5'[chain[i]].element = v6'[i]
            BY <1>5, <2>0, <2>1, <3>1
        <3> QED
            BY <3>1, <3>2, <3>3, <3>4
    <2>2. CASE i = p
        <3>1. longer[i] = n
            BY <2>2
        <3>2. NodeAt(chain, p) = around(i + 1)
            BY <1>1, <2>2 DEF NodeAt
        <3>3. NodeAt(chain, p - 1) = around(i - 1)
            BY <1>1, <2>2 DEF NodeAt
        <3> HIDE DEF longer, around
        <3> QED
            BY <1>5, <2>0, <2>2, <3>1, <3>2, <3>3
    <2>3. CASE i > p
        <3>1. i - 1 \in 1..size /\ longer[i] = chain[i - 1]
            BY <1>1, <2>3
        <3>2. v5'[chain[i - 1]].next = around(i + 1)
            BY <1>1, <1>5, <2>3, <3>1 DEF NodeAt
        <3>3. v5'[chain[i - 1]].prev = around(i - 1)
            BY <1>1, <1>5, <2>3, <3>1 DEF NodeAt
        <3>4. v5'[chain[i - 1]].element = v6'[i]
            BY <1>1, <1>5, <2>0, <2>3, <3>1
        <3> QED
            BY <3>1, <3>2, <3>3, <3>4
    <2> QED
        BY <1>1, <2>1, <2>2, <2>3
<1>11. \A i \in Int : NodeAt(longer, i)' = around(i)
    BY <1>1 DEF NodeAt
<1>12. Chained(longer)'
    <2>1. around(1) = longer[1] /\ around(size + 1) = longer[size + 1]
        BY <1>1
    <2>2. size + 1 \in Int
        BY <1>1
    <2> HIDE DEF longer, around
    <2>3. longer \in [1..Length' -> 1..MaxNodes] /\ DOMAIN v5' = {longer[i] : i \in 1..Length'}
        BY <1>1, <1>3, <1>6
    <2>4. v3' = NodeAt(longer, 1)'
        BY <1>8, <1>11, <2>1
    <2>5. v2' /\ v1' = "ex2" => v4' = NodeAt(longer, Length)'
        BY <1>1, <1>9, <1>11, <2>1, <2>2
    <2>6. ASSUME NEW i \in 1..Length'
          PROVE  /\ v5'[longer[i]].next = NodeAt(longer, i + 1)'
                 /\ v5'[longer[i]].prev = NodeAt(longer, i - 1)'
                 /\ v5'[longer[i]].element = v6'[i]
        <3>1. i \in 1..(size + 1) /\ i + 1 \in Int /\ i - 1 \in Int
            BY <1>1
        <3> QED
            BY <1>10, <1>11, <3>1
    <2>7. \A i, j \in 1..Length' : longer[i] = longer[j] => i = j
        BY <1>1, <1>7
    <2> QED
        BY <2>3, <2>4, <2>5, <2>6, <2>7 DEF Chained
<1> QED
    BY <1>1, <1>3, <1>12 DEF HasChain

LEMMA ListInsertion ==
    ASSUME ListTyped, HasChain, v1' = v1, NEW e \in Letters, NEW index \in Int,
           Lists!dpl_insert_at_index(e, index)
    PROVE  ListTyped' /\ HasChain' /\ v2 /\ v2' /\ v7' = v7 /\ Length' = Length + 1
<1> DEFINE p == NewPlace(index)
<1>1. PICK chain \in [1..Length -> 1..MaxNodes] : Chained(chain)
    BY DEF HasChain
<1>2. /\ Length \in Nat /\ Lists!dpl_size = Length
      /\ v3 = 0 <=> Length = 0
      /\ v6 \in Seq(Letters) /\ v1 \in {"ex1", "ex2", "program"} /\ v2 \in BOOLEAN
    BY <1>1, ChainFacts DEF ListTyped
<1>3. /\ v2 /\ v2' = v2 /\ v7' = v7 /\ v6' = Lists!WithInserted(e, index)
      /\ v1 = "ex2" /\ v3 # 0 => index < Length
    <2>1. ~Lists!Surprising("insert", index)
        BY DEF Lists!dpl_insert_at_index, Lists!Avoided
    <2>2. v1 = "ex2" /\ v3 # 0 => index < Length
        BY <1>2, <2>1 DEF Lists!Surprising, Lists!Nil
    <2> QED
        BY <2>2 DEF Lists!dpl_insert_at_index
<1>4. p \in 1..Length + 1 /\ PutAt(v6', p, e)
    BY <1>2, <1>3, WithInsertedPuts
<1> DEFINE ref   == Lists!dpl_get_reference_at_index(index)
           front == v3 = Lists!Nil \/ index <= 0
           one   == IF front THEN Lists!Nil ELSE IF Lists!Behind(index) THEN ref ELSE v5[ref].prev
           other == IF front THEN v3 ELSE IF Lists!Behind(index) THEN Lists!Nil ELSE ref
<1>5. PICK n \in (1..MaxNodes) \ Lists!nodes :
         /\ v5' = Lists!Between(one, n, other, e)
         /\ v3' = IF one = Lists!Nil THEN n ELSE v3
         /\ v4' = IF v1 = "ex2" /\ v3 = Lists!Nil THEN n ELSE v4
    BY DEF Lists!dpl_insert_at_index
<1>6. one = NodeAt(chain, p - 1) /\ other = NodeAt(chain, p)
    <2>1. CASE front
        <3>1. p = 1
            BY <1>2, <2>1 DEF NewPlace, Lists!Nil
        <3> QED
            BY <1>1, <1>2, <2>1, <3>1 DEF NodeAt, Chained, Lists!Nil
    <2>2. CASE ~front
        <3>1. /\ Length > 0 /\ index > 0
              /\ ref = chain[IF index < Length THEN index + 1 ELSE Length]
            BY <1>1, <1>2, <1>3, <2>2, ReferenceAtIndex DEF Lists!Nil
        <3> HIDE DEF ref
        <3>2. CASE Lists!Behind(index)
            <4>1. p = Length + 1 /\ ref = chain[Length]
                BY <1>2, <3>1, <3>2 DEF Lists!Behind, NewPlace
            <4>2. one = ref /\ other = 0
                BY <2>2, <3>2 DEF Lists!Nil
            <4> QED
                BY <1>2, <3>1, <4>1, <4>2 DEF NodeAt
        <3>3. CASE ~Lists!Behind(index)
            <4>1. p \in 1..Length /\ ref = chain[p]
                <5>1. index < Length
                    BY <1>2, <1>3, <3>1, <3>3 DEF Lists!Behind
                <5> QED
                    BY <1>2, <3>1, <5>1 DEF NewPlace
            <4>2. one = v5[ref].prev /\ other = ref
                BY <2>2, <3>3
            <4> HIDE DEF p, one, other
            <4> QED
                BY <1>1, <1>2, <4>1, <4>2 DEF NodeAt, Chained
        <3> QED
            BY <3>2, <3>3
    <2> QED
        BY <2>1, <2>2
<1>7. v2 /\ v1 = "ex2" => v4' = IF p = Length + 1 THEN n ELSE v4
    <2>1. v1 = "ex2" => (p = Length + 1 <=> v3 = 0)
        BY <1>2, <1>3 DEF NewPlace
    <2> QED
        BY <1>5, <2>1 DEF Lists!Nil
<1> HIDE DEF p, one, other
<1>8. PICK place \in 1..Length + 1 : place = p
    BY <1>4
<1>9. /\ v5' = Lists!Between(NodeAt(chain, place - 1), n, NodeAt(chain, place), e)
      /\ v3' = IF NodeAt(chain, place - 1) = 0 THEN n ELSE v3
      /\ PutAt(v6', place, e) /\ n \in 1..MaxNodes /\ n \notin Lists!nodes
      /\ v2 /\ v1 = "ex2" => v4' = IF place = Length + 1 THEN n ELSE v4
    BY <1>4, <1>5, <1>6, <1>7, <1>8 DEF Lists!Nil
<1>10. HasChain'
    BY <1>1, <1>3, <1>9, LongerChain
<1>11. LinkedAt(chain, place, n, e)
    BY <1>1, <1>9, LinkedNodes
<1>12. v5' \in [DOMAIN v5' -> Links]
    BY <1>11 DEF LinkedAt
<1>13. v6' \in Seq(Letters) /\ Length' = Length + 1
    BY <1>9 DEF PutAt, Length
<1> QED
    BY <1>2, <1>3, <1>10, <1>12, <1>13 DEF ListTyped
-----------------------------------------------------------------------------
(* Removal.                                                                *)

LEMMA RemoveAtElements ==
    ASSUME v6 \in Seq(Letters), NEW q \in 1..Length
    PROVE  /\ Lists!RemoveAt(v6, q) \in Seq(Letters)
           /\ Len(Lists!RemoveAt(v6, q)) = Length - 1
           /\ \A i \in 1..Length - 1 :
                 Lists!RemoveAt(v6, q)[i] = IF i < q THEN v6[i] ELSE v6[i + 1]
<1> DEFINE front == SubSeq(v6, 1, q - 1)
           back  == SubSeq(v6, q + 1, Length)
<1>1. Length \in Nat /\ q \in Nat /\ q >= 1 /\ q <= Length /\ Length = Len(v6)
    BY DEF Length
<1>2. /\ front \in Seq(Letters) /\ Len(front) = q - 1
      /\ \A i \in 1..q - 1 : front[i] = v6[i]
    BY <1>1
<1>3. /\ back \in Seq(Letters) /\ Len(back) = Length - q
      /\ \A i \in 1..Length - q : back[i] = v6[q + i]
    BY <1>1
<1>4. Lists!RemoveAt(v6, q) = front \o back
    BY DEF Lists!RemoveAt, Length
<1> HIDE DEF front, back
<1>5. /\ front \o back \in Seq(Letters) /\ Len(front \o back) = Length - 1
      /\ \A i \in 1..Length - 1 :
            (front \o back)[i] = IF i <= q - 1 THEN front[i] ELSE back[i - (q - 1)]
    BY <1>1, <1>2, <1>3, ConcatProperties
<1>6. ASSUME NEW i \in 1..Length - 1
      PROVE  (front \o back)[i] = IF i < q THEN v6[i] ELSE v6[i + 1]
    <2>1. CASE i < q
        BY <1>1, <1>2, <1>5, <2>1
    <2>2. CASE i >= q
        <3>1. i - (q - 1) \in 1..Length - q /\ q + (i - (q - 1)) = i + 1 /\ ~(i <= q - 1) /\ ~(i < q)
            BY <1>1, <2>2
        <3> QED
            BY <1>3, <1>5, <3>1
    <2>3. i < q \/ i >= q
        BY <1>1
    <2> QED
        BY <2>1, <2>2, <2>3
<1> QED
    BY <1>4, <1>5, <1>6

(* The contents without the element at place q, place by place.            *)
TakenAt(shorter, q) ==
    /\ shorter \in Seq(Letters) /\ Len(shorter) = Length - 1
    /\ \A i \in 1..Length - 1 : shorter[i] = IF i < q THEN v6[i] ELSE v6[i + 1]

(* The place an index stands for.                                          *)
OldPlace(index) ==
    IF index <= 0 THEN 1 ELSE IF index < Length THEN index + 1 ELSE Length

LEMMA WithRemovedTakes ==
    ASSUME v6 \in Seq(Letters), Length > 0, NEW index \in Int
    PROVE  /\ OldPlace(index) \in 1..Length
           /\ TakenAt(Lists!WithRemoved(index), OldPlace(index))
<1>1. Length \in Nat /\ Length = Len(v6) /\ v6 # << >>
    BY DEF Length
<1>2. OldPlace(index) \in 1..Length
    BY <1>1 DEF OldPlace
<1>3. CASE index <= 0
    <2>1. Lists!WithRemoved(index) = Tail(v6) /\ OldPlace(index) = 1
        BY <1>1, <1>3 DEF Lists!WithRemoved, OldPlace
    <2>2. /\ Tail(v6) \in Seq(Letters) /\ Len(Tail(v6)) = Length - 1
          /\ \A i \in 1..Length - 1 : Tail(v6)[i] = v6[i + 1]
        BY <1>1, HeadTailProperties
    <2> QED
        BY <1>1, <2>1, <2>2 DEF TakenAt
<1>4. CASE index > 0 /\ index < Length
    <2>1. Lists!WithRemoved(index) = Lists!RemoveAt(v6, index + 1)
        BY <1>1, <1>4 DEF Lists!WithRemoved
    <2>2. OldPlace(index) = index + 1 /\ index + 1 \in 1..Length
        BY <1>1, <1>4 DEF OldPlace
    <2> QED
        BY <2>1, <2>2, RemoveAtElements DEF TakenAt
<1>5. CASE index > 0 /\ ~(index < Length)
    <2>1. Lists!WithRemoved(index) = Lists!Front(v6) /\ OldPlace(index) = Length
        BY <1>1, <1>5 DEF Lists!WithRemoved, OldPlace
    <2>2. Lists!Front(v6) = SubSeq(v6, 1, Length - 1)
        BY DEF Lists!Front, Length
    <2>3. /\ SubSeq(v6, 1, Length - 1) \in Seq(Letters)
          /\ Len(SubSeq(v6, 1, Length - 1)) = Length - 1
          /\ \A i \in 1..Length - 1 : SubSeq(v6, 1, Length - 1)[i] = v6[i]
        BY <1>1
    <2> QED
        BY <1>1, <2>1, <2>2, <2>3 DEF TakenAt
<1> QED
    BY <1>1, <1>2, <1>3, <1>4, <1>5

LEMMA ListRemoval ==
    ASSUME ListTyped, v1' = v1, v2, NEW chain, Chained(chain),
           NEW q \in 1..Length, Lists!RemoveNode(chain[q]), TakenAt(v6', q)
    PROVE  ListTyped' /\ HasChain' /\ v2' /\ v7' = v7 /\ Length' = Length - 1
<1>0. PICK size : size = Length
    OBVIOUS
<1> DEFINE n == chain[q]
           shorter == [i \in 1..(size - 1) |-> IF i < q THEN chain[i] ELSE chain[i + 1]]
<1>1. /\ size \in Nat /\ size = Length /\ Lists!dpl_size = size /\ 0 \notin Lists!nodes
      /\ q \in 1..size /\ MaxNodes \in Nat
      /\ \A i \in 1..size : /\ Lists!After[i - 1] = chain[i]
                            /\ chain[i] \in Lists!nodes /\ chain[i] \in 1..MaxNodes
                            /\ v5[chain[i]] \in Links
    BY <1>0, ChainFacts
<1>2. /\ \A i, j \in 1..size : chain[i] = chain[j] => i = j
      /\ Lists!nodes = {chain[i] : i \in 1..size}
      /\ \A i \in 1..size : /\ v5[chain[i]].next = NodeAt(chain, i + 1)
                            /\ v5[chain[i]].prev = NodeAt(chain, i - 1)
                            /\ v5[chain[i]].element = v6[i]
    BY <1>1 DEF Chained, Lists!nodes
<1>3. /\ v2' = v2 /\ v7' = v7
      /\ v4' = Lists!TailWithout(n)
      /\ v3' = IF n = v3 THEN v5[n].next ELSE v3
      /\ v5' = [m \in Lists!nodes \ {n} |->
                   [v5[m] EXCEPT !.next = IF m = v5[n].prev THEN v5[n].next ELSE @,
                                 !.prev = IF m = v5[n].next THEN v5[n].prev ELSE @]]
    BY DEF Lists!RemoveNode
<1>5. /\ v6' \in Seq(Letters) /\ Length' = size - 1
      /\ \A i \in 1..(size - 1) : v6'[i] = IF i < q THEN v6[i] ELSE v6[i + 1]
    BY <1>1 DEF TakenAt, Length
<1>6. /\ v5[n].next = NodeAt(chain, q + 1) /\ v5[n].prev = NodeAt(chain, q - 1)
      /\ n \in Lists!nodes
    BY <1>1, <1>2
<1>7. /\ NodeAt(chain, q + 1) \in 0..MaxNodes /\ NodeAt(chain, q - 1) \in 0..MaxNodes
      /\ \A i \in 1..size : /\ chain[i] = NodeAt(chain, q - 1) <=> i = q - 1
                            /\ chain[i] = NodeAt(chain, q + 1) <=> i = q + 1
    BY <1>1, <1>2 DEF NodeAt
<1> HIDE DEF n
<1>8. DOMAIN v5' = Lists!nodes \ {n}
    BY <1>3
<1>9. ASSUME NEW m \in Lists!nodes \ {n}
      PROVE  /\ v5'[m] \in Links
             /\ v5'[m].next = IF m = v5[n].prev THEN v5[n].next ELSE v5[m].next
             /\ v5'[m].prev = IF m = v5[n].next THEN v5[n].prev ELSE v5[m].prev
             /\ v5'[m].element = v5[m].element
    <2>1. v5'[m] = [v5[m] EXCEPT !.next = IF m = v5[n].prev THEN v5[n].next ELSE @,
                                 !.prev = IF m = v5[n].next THEN v5[n].prev ELSE @]
        BY <1>3
    <2>2. v5[m] \in [prev : 0..MaxNodes, next : 0..MaxNodes, element : Letters]
        BY DEF ListTyped, Lists!nodes, Links
    <2>3. v5[n].prev \in 0..MaxNodes /\ v5[n].next \in 0..MaxNodes
        BY <1>6, <1>7
    <2> QED
        BY <2>1, <2>2, <2>3 DEF Links
<1>10. v5' \in [DOMAIN v5' -> Links]
    <2>1. v5' = [m \in DOMAIN v5' |-> v5'[m]]
        BY <1>3
    <2> QED
        BY <1>8, <1>9, <2>1
<1>11. ListTyped'
    BY <1>3, <1>5, <1>10 DEF ListTyped
<1>12. \A i \in 1..(size - 1) : \/ i < q /\ i \in 1..size /\ i # q /\ shorter[i] = chain[i]
                                \/ i >= q /\ i + 1 \in 1..size /\ i + 1 # q /\ shorter[i] = chain[i + 1]
    BY <1>1
<1>13. shorter \in [1..(size - 1) -> 1..MaxNodes]
    BY <1>1
<1>14. \A i \in 1..size : i # q => chain[i] # n
    BY <1>1, <1>2 DEF n
<1>15. DOMAIN v5' = {shorter[i] : i \in 1..(size - 1)}
    <2>1. \A i \in 1..(size - 1) : shorter[i] \in DOMAIN v5'
        <3> HIDE DEF shorter
        <3> QED
            BY <1>1, <1>8, <1>12, <1>14
    <2>2. ASSUME NEW i \in 1..size, i # q PROVE \E j \in 1..(size - 1) : shorter[j] = chain[i]
        <3>1. CASE i < q
            <4>1. i \in 1..(size - 1) /\ shorter[i] = chain[i]
                BY <1>1, <3>1
            <4> QED
                BY <4>1
        <3>2. CASE i > q
            <4>1. i - 1 \in 1..(size - 1) /\ ~(i - 1 < q) /\ (i - 1) + 1 = i
                BY <1>1, <3>2
            <4>2. shorter[i - 1] = chain[i]
                BY <4>1
            <4> QED
                BY <4>1, <4>2
        <3> QED
            BY <1>1, <2>2, <3>1, <3>2
    <2>3. \A m \in DOMAIN v5' : \E j \in 1..(size - 1) : shorter[j] = m
        <3> TAKE m \in DOMAIN v5'
        <3>1. PICK i \in 1..size : m = chain[i]
            BY <1>2, <1>8
        <3>2. i # q
            BY <1>8, <3>1 DEF n
        <3> QED
            BY <2>2, <3>1, <3>2
    <2> HIDE DEF shorter
    <2> QED
        BY <2>1, <2>3
<1>16. \A i, j \in 1..(size - 1) : shorter[i] = shorter[j] => i = j
    <2> HIDE DEF shorter
    <2> QED
        BY <1>1, <1>2, <1>12
<1> DEFINE around(i) == IF i \in 1..(size - 1) THEN shorter[i] ELSE 0
<1>17. v3' = around(1)
    <2>1. v3 = chain[1] /\ 1 \in 1..size
        BY <1>1 DEF Chained, NodeAt
    <2>2. CASE q = 1
        <3>1. v3' = NodeAt(chain, 2)
            <4>1. n = v3
                BY <2>1, <2>2 DEF n
            <4>2. q + 1 = 2
                BY <2>2
            <4> QED
                BY <1>3, <1>6, <4>1, <4>2
        <3> QED
            BY <1>1, <2>2, <3>1 DEF NodeAt
    <2>3. CASE q # 1
        <3>1. v3' = chain[1]
            BY <1>3, <1>14, <2>1, <2>3
        <3> QED
            BY <1>1, <2>3, <3>1
    <2> QED
        BY <2>2, <2>3
<1>18. v1 = "ex2" => v4' = around(size - 1)
    <2> SUFFICES ASSUME v1 = "ex2" PROVE v4' = around(size - 1)
        OBVIOUS
    <2>1. v4 = chain[size] /\ size \in 1..size
        BY <1>1 DEF Chained, NodeAt
    <2>2. v4' = IF n = v4 THEN v5[n].prev ELSE v4
        BY <1>3 DEF Lists!TailWithout
    <2>3. CASE q = size
        <3>1. v4' = NodeAt(chain, size - 1)
            BY <1>6, <2>1, <2>2, <2>3 DEF n
        <3> QED
            BY <1>1, <2>3, <3>1 DEF NodeAt
    <2>4. CASE q # size
        <3>1. v4' = chain[size]
            BY <1>14, <2>1, <2>2, <2>4
        <3>2. size - 1 \in 1..(size - 1) /\ ~(size - 1 < q) /\ (size - 1) + 1 = size
            BY <1>1, <2>4
        <3> QED
            BY <3>1, <3>2
    <2> QED
        BY <2>3, <2>4
<1>19. ASSUME NEW i \in 1..size, i # q
       PROVE  /\ v5'[chain[i]].next = IF i = q - 1 THEN NodeAt(chain, q + 1) ELSE NodeAt(chain, i + 1)
              /\ v5'[chain[i]].prev = IF i = q + 1 THEN NodeAt(chain, q - 1) ELSE NodeAt(chain, i - 1)
              /\ v5'[chain[i]].element = v6[i]
    <2>1. chain[i] \in Lists!nodes \ {n}
        BY <1>1, <1>14, <1>19
    <2> QED
        BY <1>2, <1>6, <1>7, <1>9, <2>1
<1>20. ASSUME NEW i \in 1..(size - 1)
       PROVE  /\ v5'[shorter[i]].next = around(i + 1)
              /\ v5'[shorter[i]].prev = around(i - 1)
              /\ v5'[shorter[i]].element = v6'[i]
    <2>1. CASE i < q
        <3>1. i \in 1..size /\ i # q /\ i # q + 1 /\ shorter[i] = chain[i]
            BY <1>1, <2>1
        <3>2. (IF i = q - 1 THEN NodeAt(chain, q + 1) ELSE NodeAt(chain, i + 1)) = around(i + 1)
            BY <1>1, <2>1 DEF NodeAt
        <3>3. NodeAt(chain, i - 1) = around(i - 1)
            BY <1>1, <2>1 DEF NodeAt
        <3> HIDE DEF shorter, around
        <3> QED
            BY <1>5, <1>19, <2>1, <3>1, <3>2, <3>3
    <2>2. CASE i >= q
        <3>1. i + 1 \in 1..size /\ i + 1 # q /\ i + 1 # q - 1 /\ shorter[i] = chain[i + 1]
            BY <1>1, <2>2
        <3>2. NodeAt(chain, (i + 1) + 1) = around(i + 1)
            BY <1>1, <2>2 DEF NodeAt
        <3>3. (IF i + 1 = q + 1 THEN NodeAt(chain, q - 1) ELSE NodeAt(chain, (i + 1) - 1)) = around(i - 1)
            BY <1>1, <2>2 DEF NodeAt
        <3>4. v6'[i] = v6[i + 1]
            BY <1>1, <1>5, <2>2
        <3> HIDE DEF shorter, around
        <3> QED
            BY <1>19, <3>1, <3>2, <3>3, <3>4
    <2> QED
        BY <1>1, <2>1, <2>2
<1>21. \A i \in Int : NodeAt(shorter, i)' = around(i)
    BY <1>5 DEF NodeAt
<1>22. Chained(shorter)'
    <2> HIDE DEF shorter, around
    <2>1. shorter \in [1..Length' -> 1..MaxNodes] /\ DOMAIN v5' = {shorter[i] : i \in 1..Length'}
        BY <1>5, <1>13, <1>15
    <2>2. v3' = NodeAt(shorter, 1)'
        BY <1>17, <1>21
    <2>3. v2' /\ v1' = "ex2" => v4' = NodeAt(shorter, Length)'
        BY <1>1, <1>5, <1>18, <1>21
    <2>4. ASSUME NEW i \in 1..Length'
          PROVE  /\ v5'[shorter[i]].next = NodeAt(shorter, i + 1)'
                 /\ v5'[shorter[i]].prev = NodeAt(shorter, i - 1)'
                 /\ v5'[shorter[i]].element = v6'[i]
        <3>1. i \in 1..(size - 1) /\ i + 1 \in Int /\ i - 1 \in Int
            BY <1>1, <1>5
        <3> QED
            BY <1>20, <1>21, <3>1
    <2>5. \A i, j \in 1..Length' : shorter[i] = shorter[j] => i = j
        BY <1>5, <1>16
    <2> QED
        BY <2>1, <2>2, <2>3, <2>4, <2>5 DEF Chained
<1> QED
    BY <1>1, <1>3, <1>5, <1>11, <1>13, <1>22 DEF HasChain
-----------------------------------------------------------------------------
(* The calls.                                                              *)

LEMMA SameList ==
    ASSUME ListTyped, HasChain, UNCHANGED <<v1, v2, v3, v4, v5, v6>>
    PROVE  ListTyped' /\ HasChain' /\ Length' = Length
<1>1. PICK chain \in [1..Length -> 1..MaxNodes] : Chained(chain)
    BY DEF HasChain
<1>2. Length' = Length
    BY DEF Length
<1>3. \A i : NodeAt(chain, i)' = NodeAt(chain, i)
    BY <1>2 DEF NodeAt
<1>4. Chained(chain)'
    BY <1>1, <1>2, <1>3 DEF Chained
<1>5. HasChain'
    BY <1>1, <1>2, <1>4 DEF HasChain
<1>6. ListTyped'
    BY DEF ListTyped
<1> QED
    BY <1>2, <1>5, <1>6

(* What a removal of a careful caller does to the length.                  *)
LEMMA ListRemovals ==
    ASSUME ListTyped, HasChain, v1' = v1, NEW index \in Int, Lists!dpl_remove_at_index(index)
    PROVE  /\ ListTyped' /\ HasChain' /\ v2 /\ v2' /\ v7' = v7
           /\ Length' = IF Length = 0 THEN Length ELSE Length - 1
           /\ v1 # "ex2" => ~(index > 0 /\ Length > 0 /\ index >= Length - 1)
<1>1. PICK chain \in [1..Length -> 1..MaxNodes] : Chained(chain)
    BY DEF HasChain
<1>2. /\ Length \in Nat /\ Lists!dpl_size = Length
      /\ v3 = 0 <=> Length = 0
      /\ v2 /\ v6 \in Seq(Letters)
      /\ \A i \in 1..Length : chain[i] \in 1..MaxNodes
    BY <1>1, ChainFacts DEF Lists!dpl_remove_at_index, ListTyped
<1>3. /\ v1 # "ex2" => ~(index > 0 /\ Length > 0 /\ index >= Length - 1)
      /\ v1 = "ex2" /\ Length > 0 => index >= 0 /\ ~(index > 0 /\ Length = 1)
    <2>1. ~Lists!Surprising("remove", index)
        BY DEF Lists!dpl_remove_at_index, Lists!Avoided
    <2> QED
        BY <1>2, <2>1 DEF Lists!Surprising, Lists!Nil
<1>4. CASE v3 = Lists!Nil
    <2>1. UNCHANGED <<v2, v3, v4, v5, v7>> /\ v6' = Lists!WithRemoved(index)
        BY <1>4 DEF Lists!dpl_remove_at_index
    <2>2. v6 = << >>
        BY <1>2, <1>4, EmptySeq DEF Lists!Nil, Length
    <2>3. v6' = v6
        BY <2>1, <2>2 DEF Lists!WithRemoved
    <2>4. ListTyped' /\ HasChain' /\ Length' = Length
        BY <2>1, <2>3, SameList
    <2> QED
        BY <1>2, <1>3, <1>4, <2>1, <2>4 DEF Lists!Nil
<1>5. CASE v3 # Lists!Nil
    <2> DEFINE n == IF index <= 0 THEN v3 ELSE Lists!dpl_get_reference_at_index(index)
    <2>1. Length > 0 /\ ~(v1 = "ex2" /\ index < 0)
        BY <1>2, <1>3, <1>5 DEF Lists!Nil
    <2>2. PICK place \in 1..Length : /\ place = OldPlace(index)
                                     /\ TakenAt(Lists!WithRemoved(index), place)
        BY <1>2, <2>1, WithRemovedTakes
    <2>3. n = chain[place]
        <3>1. CASE index <= 0
            BY <1>1, <1>2, <2>1, <2>2, <3>1 DEF Chained, NodeAt, OldPlace
        <3>2. CASE index > 0
            BY <1>1, <1>2, <2>1, <2>2, <3>2, ReferenceAtIndex DEF OldPlace
        <3> QED
            BY <3>1, <3>2
    <2>4. IF index > 0 /\ (v5[n].prev = Lists!Nil \/ (v1 # "ex2" /\ v5[n].next = Lists!Nil))
          THEN Lists!Crash("remove", index)
          ELSE Lists!RemoveNode(n) /\ v6' = Lists!WithRemoved(index)
        BY <1>5, <2>1 DEF Lists!dpl_remove_at_index
    <2>5. index > 0 => place # 1 /\ (v1 # "ex2" => place # Length)
        BY <1>2, <1>3, <2>1, <2>2 DEF OldPlace
    <2> HIDE DEF n
    <2>6. index > 0 => v5[n].prev # Lists!Nil /\ (v1 # "ex2" => v5[n].next # Lists!Nil)
        <3>1. v5[n].prev = NodeAt(chain, place - 1) /\ v5[n].next = NodeAt(chain, place + 1)
            BY <1>1, <2>3 DEF Chained
        <3> QED
            BY <1>2, <2>2, <2>5, <3>1 DEF NodeAt, Lists!Nil
    <2>7. Lists!RemoveNode(chain[place]) /\ TakenAt(v6', place)
        BY <2>2, <2>3, <2>4, <2>6
    <2>8. ListTyped' /\ HasChain' /\ v2' /\ v7' = v7 /\ Length' = Length - 1
        BY <1>1, <1>2, <2>7, ListRemoval
    <2> QED
        BY <1>2, <1>3, <2>1, <2>8
<1> QED
    BY <1>4, <1>5

(* A list that is made or freed is empty.                                  *)
LEMMA EmptyChain ==
    ASSUME v1' \in {"ex1", "ex2", "program"}, v2' \in BOOLEAN, v3' = 0, v5' = << >>, v6' = << >>,
           v2' /\ v1' = "ex2" => v4' = 0
    PROVE  ListTyped' /\ HasChain' /\ Length' = 0
<1>1. Length' = 0 /\ DOMAIN v5' = {} /\ v6' \in Seq(Letters)
    BY DEF Length
<1>2. v5' \in [DOMAIN v5' -> Links]
    BY <1>1
<1>3. ListTyped'
    BY <1>1, <1>2 DEF ListTyped
<1> DEFINE none == [i \in 1..0 |-> 0]
<1>4. none \in [1..0 -> 1..MaxNodes]
    OBVIOUS
<1>5. Chained(none)'
    <2> HIDE DEF none
    <2>1. \A i \in 1..0 : FALSE
        OBVIOUS
    <2> QED
        BY <1>1, <1>4, <2>1 DEF Chained, NodeAt
<1> QED
    BY <1>1, <1>3, <1>4, <1>5 DEF HasChain

LEMMA EmptyHeap ==
    ASSUME ListTyped, HasChain, ~v2
    PROVE  v5 = << >> /\ v6 = << >> /\ Length = 0
<1>1. v6 = << >> /\ Length = 0
    BY DEF ListTyped, Length
<1>2. PICK chain : Chained(chain)
    BY DEF HasChain
<1>3. DOMAIN v5 = {}
    BY <1>1, <1>2 DEF Chained
<1>4. v5 = [m \in {} |-> v5[m]]
    BY <1>3 DEF ListTyped
<1>5. << >> = [m \in {} |-> v5[m]]
    OBVIOUS
<1> QED
    BY <1>1, <1>4, <1>5

LEMMA ListCreation ==
    ASSUME ListTyped, HasChain, v1' = v1, Lists!dpl_create
    PROVE  ListTyped' /\ HasChain' /\ v2' /\ v7' = v7 /\ Length' = 0
<1>1. /\ ~v2 /\ v2' = TRUE /\ v3' = 0 /\ v5' = v5 /\ v6' = v6 /\ v7' = v7
      /\ v1 = "ex2" => v4' = 0
    BY DEF Lists!dpl_create, Lists!Nil
<1>2. v5 = << >> /\ v6 = << >>
    BY <1>1, EmptyHeap
<1>3. v1' \in {"ex1", "ex2", "program"}
    BY DEF ListTyped
<1> QED
    BY <1>1, <1>2, <1>3, EmptyChain

LEMMA ListFreeing ==
    ASSUME ListTyped, HasChain, v1' = v1, Lists!dpl_free
    PROVE  ListTyped' /\ HasChain' /\ v2 /\ ~v2' /\ v7' = v7 /\ Length' = 0
<1>1. v2 /\ v1' \in {"ex1", "ex2", "program"}
    BY DEF Lists!dpl_free, ListTyped
<1>2. v1 # "ex2"
    BY DEF Lists!dpl_free, Lists!Avoided, Lists!Surprising
<1>3. v2' = FALSE /\ v3' = 0 /\ v5' = << >> /\ v6' = << >> /\ v7' = v7
    BY <1>2 DEF Lists!dpl_free, Lists!FreeNodes, Lists!Nil
<1>4. ListTyped' /\ HasChain' /\ Length' = 0
    BY <1>1, <1>2, <1>3, EmptyChain
<1> QED
    BY <1>1, <1>3, <1>4
-----------------------------------------------------------------------------
(* program.c, call by call.                                                *)

LEMMA ProgramCalls ==
    /\ Len(Lists!ex1program) = 18
    /\ \A d \in {1, 5, 13} : Lists!ex1program[d] = Lists!Create
    /\ \A d \in {4, 12} : Lists!ex1program[d] = Lists!Free(TRUE)
    /\ \A d \in {14, 17} : Lists!ex1program[d] = Lists!Delete(97, TRUE)
    /\ \A d \in {6, 16} : Lists!ex1program[d] = Lists!Insert(97, 0)
    /\ Lists!ex1program[8] = Lists!Insert(27, -1)
    /\ Lists!ex1program[10] = Lists!Insert(98, 4)
    /\ Lists!ex1program[2] = Lists!IsList(TRUE)
    /\ \A d \in {3, 15, 18} : Lists!ex1program[d] = Lists!Size(0)
    /\ Lists!ex1program[7] = Lists!Size(1)
    /\ Lists!ex1program[9] = Lists!Size(2)
    /\ Lists!ex1program[11] = Lists!Size(3)
<1> DEFINE a == Lists!test01_create_ex1
           b == Lists!test02_insert_at_index_ex1
           c == Lists!test03_remove_at_index_ex1
           Any == {a[i] : i \in 1..4} \cup {b[i] : i \in 1..8} \cup {c[i] : i \in 1..6}
<1>1. /\ a = <<Lists!Create, Lists!IsList(TRUE), Lists!Size(0), Lists!Free(TRUE)>>
      /\ b = <<Lists!Create, Lists!Insert(97, 0), Lists!Size(1), Lists!Insert(27, -1),
               Lists!Size(2), Lists!Insert(98, 4), Lists!Size(3), Lists!Free(TRUE)>>
      /\ c = <<Lists!Create, Lists!Delete(97, TRUE), Lists!Size(0), Lists!Insert(97, 0),
               Lists!Delete(97, TRUE), Lists!Size(0)>>
    BY DEF Lists!test01_create_ex1, Lists!test02_insert_at_index_ex1,
           Lists!test03_remove_at_index_ex1
<1>2. Lists!ex1program = a \o b \o c
    BY DEF Lists!ex1program
<1> HIDE DEF a, b, c
<1>3. /\ Len(a) = 4 /\ a = [i \in 1..4 |-> a[i]]
      /\ Len(b) = 8 /\ b = [i \in 1..8 |-> b[i]]
      /\ Len(c) = 6 /\ c = [i \in 1..6 |-> c[i]]
    BY <1>1
<1>4. a \in Seq(Any) /\ b \in Seq(Any) /\ c \in Seq(Any)
    <2>1. /\ \A i \in 1..4 : a[i] \in Any
          /\ \A i \in 1..8 : b[i] \in Any
          /\ \A i \in 1..6 : c[i] \in Any
        OBVIOUS
    <2> HIDE DEF Any
    <2>2. a \in Seq(Any)
        BY <1>3, <2>1
    <2>3. b \in Seq(Any)
        BY <1>3, <2>1
    <2>4. c \in Seq(Any)
        BY <1>3, <2>1
    <2> QED
        BY <2>2, <2>3, <2>4
<1> HIDE DEF Any
<1> DEFINE ab == a \o b
<1>5. /\ ab \in Seq(Any) /\ Len(ab) = 12
      /\ \A i \in 1..12 : ab[i] = IF i <= 4 THEN a[i] ELSE b[i - 4]
    <2>1. /\ ab \in Seq(Any) /\ Len(ab) = Len(a) + Len(b)
          /\ \A i \in 1..Len(a) + Len(b) :
                ab[i] = IF i <= Len(a) THEN a[i] ELSE b[i - Len(a)]
        BY <1>4, ConcatProperties
    <2>2. 4 + 8 = 12
        OBVIOUS
    <2> HIDE DEF ab
    <2> QED
        BY <1>3, <2>1, <2>2
<1> HIDE DEF ab
<1>6. /\ Len(ab \o c) = 18
      /\ \A i \in 1..18 : (ab \o c)[i] = IF i <= 12 THEN ab[i] ELSE c[i - 12]
    <2>1. /\ Len(ab \o c) = Len(ab) + Len(c)
          /\ \A i \in 1..Len(ab) + Len(c) :
                (ab \o c)[i] = IF i <= Len(ab) THEN ab[i] ELSE c[i - Len(ab)]
        BY <1>4, <1>5, ConcatProperties
    <2>2. 12 + 6 = 18
        OBVIOUS
    <2> QED
        BY <1>3, <1>5, <2>1, <2>2
<1>7. Lists!ex1program = ab \o c
    BY <1>2 DEF ab
<1> DEFINE p == Lists!ex1program
<1>8. Len(p) = 18 /\ \A i \in 1..18 : p[i] = IF i <= 12 THEN ab[i] ELSE c[i - 12]
    BY <1>6, <1>7
<1> HIDE DEF p
<1>9. /\ p[1] = a[1] /\ p[2] = a[2] /\ p[3] = a[3] /\ p[4] = a[4]
      /\ p[5] = b[1] /\ p[6] = b[2] /\ p[7] = b[3] /\ p[8] = b[4]
      /\ p[9] = b[5] /\ p[10] = b[6] /\ p[11] = b[7] /\ p[12] = b[8]
      /\ p[13] = c[1] /\ p[14] = c[2] /\ p[15] = c[3] /\ p[16] = c[4]
      /\ p[17] = c[5] /\ p[18] = c[6]
    BY <1>5, <1>8
<1>10. /\ p[1] = Lists!Create /\ p[5] = Lists!Create /\ p[13] = Lists!Create
       /\ p[4] = Lists!Free(TRUE) /\ p[12] = Lists!Free(TRUE)
       /\ p[14] = Lists!Delete(97, TRUE) /\ p[17] = Lists!Delete(97, TRUE)
       /\ p[6] = Lists!Insert(97, 0) /\ p[16] = Lists!Insert(97, 0)
       /\ p[8] = Lists!Insert(27, -1) /\ p[10] = Lists!Insert(98, 4)
       /\ p[2] = Lists!IsList(TRUE)
       /\ p[3] = Lists!Size(0) /\ p[15] = Lists!Size(0) /\ p[18] = Lists!Size(0)
       /\ p[7] = Lists!Size(1) /\ p[9] = Lists!Size(2) /\ p[11] = Lists!Size(3)
    BY <1>1, <1>9
<1> QED
    BY <1>8, <1>10 DEF p

(* The list is what the calls so far made it.                              *)
LEMMA ProgramStep ==
    ASSUME ListInv, v1' = v1, Lists!RunProgram
    PROVE  ListInv'
<1> DEFINE call == Lists!ex1program[v8 + 1]
<1>1. /\ v1 = "program" /\ v8 \in 0..16 /\ v8' = v8 + 1
      /\ v2 = (v8 \notin NoList) /\ Length = LengthAfter(v8)
      /\ v7 = Lists!None
    BY DEF ListInv, ProgramAt, Lists!RunProgram
<1>2. ListTyped /\ HasChain
    BY DEF ListInv
<1>3. (CASE call.op = "create" -> Lists!dpl_create
         [] call.op = "insert" -> Lists!dpl_insert_at_index(call.key, call.index)
         [] call.op = "remove" -> Lists!dpl_remove_at_index(call.index)
         [] call.op = "free"   -> Lists!dpl_free
         [] OTHER -> UNCHANGED <<v2, v3, v4, v5, v6, v7>>)
    BY DEF Lists!RunProgram
<1>4. ASSUME ListTyped', HasChain', v7' = v7, v2' = (v8 + 1 \notin NoList),
             Length' = LengthAfter(v8 + 1), v8 # 16
      PROVE  ListInv'
    <2>1. v8' \in 0..16
        BY <1>1, <1>4
    <2>2. ProgramAt'
        BY <1>1, <1>4, <2>1 DEF ProgramAt
    <2> QED
        BY <1>1, <1>4, <2>2 DEF ListInv
<1>5. CASE v8 \in {0, 4, 12}
    <2>1. call = Lists!Create
        BY <1>5, ProgramCalls
    <2>2. Lists!dpl_create
        BY <1>3, <2>1 DEF Lists!Create
    <2>3. ListTyped' /\ HasChain' /\ v2' /\ v7' = v7 /\ Length' = 0
        BY <1>2, <2>2, ListCreation
    <2>4. v2' = TRUE
        BY <2>3 DEF ListTyped
    <2>5. v8 + 1 \notin NoList /\ LengthAfter(v8 + 1) = 0 /\ v8 # 16
        BY <1>5 DEF NoList, LengthAfter
    <2> QED
        BY <1>4, <2>3, <2>4, <2>5
<1>6. CASE v8 \in {3, 11}
    <2>1. call = Lists!Free(TRUE)
        <3>1. v8 + 1 \in {4, 12}
            BY <1>6
        <3> QED
            BY <3>1, ProgramCalls
    <2>2. Lists!dpl_free
        BY <1>3, <2>1 DEF Lists!Free
    <2>3. ListTyped' /\ HasChain' /\ ~v2' /\ v7' = v7 /\ Length' = 0
        BY <1>1, <1>2, <2>2, ListFreeing
    <2>4. v2' = FALSE
        BY <2>3 DEF ListTyped
    <2>5. v8 + 1 \in NoList /\ LengthAfter(v8 + 1) = 0 /\ v8 # 16
        BY <1>6 DEF NoList, LengthAfter
    <2> QED
        BY <1>4, <2>3, <2>4, <2>5
<1>7. CASE v8 \in {5, 7, 9, 15}
    <2>1. \/ call = Lists!Insert(97, 0)
          \/ call = Lists!Insert(27, -1)
          \/ call = Lists!Insert(98, 4)
        BY <1>7, ProgramCalls
    <2>2. call.op = "insert" /\ call.key \in Letters /\ call.index \in Int
        BY <2>1 DEF Lists!Insert, Letters
    <2> HIDE DEF call
    <2>3. Lists!dpl_insert_at_index(call.key, call.index)
        BY <1>3, <2>2
    <2>4. ListTyped' /\ HasChain' /\ v2 /\ v2' /\ v7' = v7 /\ Length' = Length + 1
        BY <1>2, <2>2, <2>3, ListInsertion
    <2>5. v2' = TRUE
        BY <2>4 DEF ListTyped
    <2>6. v8 + 1 \notin NoList /\ LengthAfter(v8 + 1) = LengthAfter(v8) + 1 /\ v8 # 16
        BY <1>7 DEF NoList, LengthAfter
    <2> QED
        BY <1>1, <1>4, <2>4, <2>5, <2>6
<1>8. CASE v8 \in {13, 16}
    <2>1. call = Lists!Delete(97, TRUE)
        <3>1. v8 + 1 \in {14, 17}
            BY <1>8
        <3> QED
            BY <3>1, ProgramCalls
    <2>2. Lists!dpl_remove_at_index(97)
        BY <1>3, <2>1 DEF Lists!Delete
    <2>3. /\ ListTyped' /\ HasChain' /\ v2 /\ v2' /\ v7' = v7
          /\ Length' = IF Length = 0 THEN Length ELSE Length - 1
          /\ v1 # "ex2" => ~(97 > 0 /\ Length > 0 /\ 97 >= Length - 1)
        <3>1. 97 \in Int
            OBVIOUS
        <3> QED
            BY <1>2, <2>2, <3>1, ListRemovals
    <2>4. v2' = TRUE
        BY <2>3 DEF ListTyped
    <2>5. CASE v8 = 13
        <3>1. Length = 0 /\ v8 + 1 \notin NoList /\ LengthAfter(v8 + 1) = 0 /\ v8 # 16
            BY <1>1, <2>5 DEF NoList, LengthAfter
        <3> QED
            <4>1. v7' = v7 /\ Length' = 0
                BY <2>3, <3>1
            <4> QED
                BY <1>4, <2>3, <2>4, <3>1, <4>1
    <2>6. CASE v8 = 16
        <3>1. Length = 1
            BY <1>1, <2>6 DEF LengthAfter
        <3> QED
            BY <1>1, <2>3, <3>1
    <2> QED
        BY <1>8, <2>5, <2>6
<1>9. CASE v8 \in {1, 2, 6, 8, 10, 14}
    <2>1. \/ call = Lists!IsList(TRUE)
          \/ call = Lists!Size(0)
          \/ call = Lists!Size(1)
          \/ call = Lists!Size(2)
          \/ call = Lists!Size(3)
        <3>1. v8 + 1 \in {2, 3, 7, 9, 11, 15}
            BY <1>9
        <3> HIDE DEF call
        <3>2. \A d \in {2, 3, 7, 9, 11, 15} :
                 \/ Lists!ex1program[d] = Lists!IsList(TRUE)
                 \/ Lists!ex1program[d] = Lists!Size(0)
                 \/ Lists!ex1program[d] = Lists!Size(1)
                 \/ Lists!ex1program[d] = Lists!Size(2)
                 \/ Lists!ex1program[d] = Lists!Size(3)
            BY ProgramCalls
        <3> QED
            BY <3>1, <3>2 DEF call
    <2>2. call.op \in {"isList", "size"}
        BY <2>1 DEF Lists!IsList, Lists!Size
    <2> HIDE DEF call
    <2>3. UNCHANGED <<v2, v3, v4, v5, v6, v7>>
        BY <1>3, <2>2
    <2>4. ListTyped' /\ HasChain' /\ Length' = Length
        BY <1>2, <2>3, SameList
    <2>5. v8 + 1 \notin NoList /\ v8 \notin NoList /\ LengthAfter(v8 + 1) = LengthAfter(v8) /\ v8 # 16
        BY <1>9 DEF NoList, LengthAfter
    <2> QED
        BY <1>1, <1>4, <2>3, <2>4, <2>5
<1> QED
    BY <1>1, <1>5, <1>6, <1>7, <1>8, <1>9

LEMMA ListsNext ==
    ASSUME ListInv, Lists!Next \/ UNCHANGED Lists!vars
    PROVE  ListInv'
<1>1. ListTyped /\ HasChain
    BY DEF ListInv
<1>2. CASE UNCHANGED Lists!vars
    <2>1. UNCHANGED <<v1, v2, v3, v4, v5, v6, v7, v8>>
        BY <1>2 DEF Lists!vars
    <2>2. ListTyped' /\ HasChain' /\ Length' = Length
        BY <1>1, <2>1, SameList
    <2> QED
        BY <2>1, <2>2 DEF ListInv, ProgramAt
<1>3. CASE Lists!Next
    <2>1. v7 = Lists!None /\ v1' = v1 /\ (Lists!AnyCaller \/ Lists!RunProgram)
        BY <1>3 DEF Lists!Next
    <2>2. ASSUME v1 # "program", ListTyped', HasChain', v7' = v7 PROVE ListInv'
        BY <2>1, <2>2 DEF ListInv, ProgramAt
    <2>3. CASE Lists!RunProgram
        BY <2>1, <2>3, ProgramStep
    <2>4. CASE Lists!AnyCaller
        <3>1. v1 # "program"
            BY <2>4 DEF Lists!AnyCaller
        <3>2. CASE Lists!dpl_create
            BY <1>1, <2>1, <2>2, <3>1, <3>2, ListCreation
        <3>3. ASSUME NEW e \in Element, NEW index \in Index, Lists!dpl_insert_at_index(e, index)
              PROVE  ListInv'
            <4>1. e \in Letters /\ index \in Int
                BY ProgramsAssumption DEF Letters
            <4> QED
                BY <1>1, <2>1, <2>2, <3>1, <3>3, <4>1, ListInsertion
        <3>4. ASSUME NEW index \in Index, Lists!dpl_remove_at_index(index)
              PROVE  ListInv'
            <4>1. index \in Int
                BY ProgramsAssumption
            <4> QED
                BY <1>1, <2>1, <2>2, <3>1, <3>4, <4>1, ListRemovals
        <3>5. CASE Lists!dpl_free
            BY <1>1, <2>1, <2>2, <3>1, <3>5, ListFreeing
        <3> QED
            BY <2>4, <3>2, <3>3, <3>4, <3>5 DEF Lists!AnyCaller
    <2> QED
        BY <2>1, <2>3, <2>4
<1> QED
    BY <1>2, <1>3

(* What the loops find are the nodes of the chain.                         *)
LEMMA ListsHold ==
    ASSUME ListInv
    PROVE  Lists!ExercisesHold
<1>1. ListTyped /\ HasChain /\ v7 = Lists!None /\ ProgramAt
    BY DEF ListInv
<1>2. PICK chain \in [1..Length -> 1..MaxNodes] : Chained(chain)
    BY <1>1 DEF HasChain
<1>3. /\ Length \in Nat /\ Lists!dpl_size = Length /\ v6 \in Seq(Letters) /\ Length = Len(v6)
      /\ \A i \in 1..Length : Lists!After[i - 1] = chain[i]
      /\ \A k \in 0..Length - 1 : k + 1 \in 1..Length /\ Lists!After[k] = chain[k + 1]
    <2>1. /\ Length \in Nat /\ Lists!dpl_size = Length
          /\ \A i \in 1..Length : Lists!After[i - 1] = chain[i]
        BY <1>1, <1>2, ChainFacts
    <2>2. \A k \in 0..Length - 1 : k + 1 \in 1..Length /\ (k + 1) - 1 = k
        BY <2>1
    <2> QED
        BY <1>1, <2>1, <2>2 DEF ListTyped, Length
<1>4. [i \in 1..Length |-> v5[Lists!After[i - 1]].element] = v6
    <2>1. v6 = [i \in 1..Length |-> v6[i]]
        BY <1>3
    <2>2. \A i \in 1..Length : v5[Lists!After[i - 1]].element = v6[i]
        BY <1>2, <1>3 DEF Chained
    <2>3. [i \in 1..Length |-> v5[Lists!After[i - 1]].element] = [i \in 1..Length |-> v6[i]]
        BY <2>2, Zenon
    <2> QED
        BY <2>1, <2>3
<1>5. Lists!nodes = {Lists!After[k] : k \in 0..Length - 1}
    <2>1. Lists!nodes = {chain[i] : i \in 1..Length}
        BY <1>2 DEF Chained, Lists!nodes
    <2>2. \A i \in 1..Length : i - 1 \in 0..Length - 1
        BY <1>3
    <2> QED
        BY <1>3, <2>1, <2>2
<1>6. ASSUME NEW k \in 0..Length - 1
      PROVE  v5[Lists!After[k]].prev = IF k = 0 THEN Lists!Nil ELSE Lists!After[k - 1]
    <2>1. v5[chain[k + 1]].prev = NodeAt(chain, k)
        <3>1. (k + 1) - 1 = k
            OBVIOUS
        <3>2. v5[chain[k + 1]].prev = NodeAt(chain, (k + 1) - 1)
            BY <1>2, <1>3 DEF Chained
        <3> QED
            BY <3>1, <3>2
    <2>2. CASE k = 0
        BY <1>3, <2>1, <2>2 DEF NodeAt, Lists!Nil
    <2>3. CASE k # 0
        <3>1. k \in 1..Length
            BY <1>3, <2>3
        <3> QED
            BY <1>3, <2>1, <2>3, <3>1 DEF NodeAt
    <2> QED
        BY <2>2, <2>3
<1>7. v2 /\ v1 = "ex2" => v4 = IF Length = 0 THEN Lists!Nil ELSE Lists!LastNode
    BY <1>2, <1>3 DEF Chained, NodeAt, Lists!Nil, Lists!LastNode
<1>8. ASSUME v1 = "program", v8 < Len(Lists!ex1program)
      PROVE  Lists!AssertHolds
    <2> DEFINE call == Lists!ex1program[v8 + 1]
    <2>0. SUFFICES /\ call.op = "size" => Length = call.expect
                   /\ call.op = "isList" => v2
        BY <1>3 DEF Lists!AssertHolds
    <2>1. v8 \in 0..16 /\ v2 = (v8 \notin NoList) /\ Length = LengthAfter(v8)
        BY <1>1, <1>8 DEF ProgramAt
    <2>2. CASE v8 = 1
        <3>1. call = Lists!IsList(TRUE)
            <4>1. v8 + 1 = 2
                BY <2>2
            <4> QED
                BY <4>1, ProgramCalls
        <3>2. v2
            <4>1. v8 \notin NoList
                BY <2>2 DEF NoList
            <4> QED
                BY <2>1, <4>1
        <3> QED
            BY <3>1, <3>2 DEF Lists!IsList
    <2>3. CASE v8 \in {2, 6, 8, 10, 14}
        <3>1. \E s \in 0..3 : call = Lists!Size(s) /\ Length = s
            <4>1. CASE v8 \in {2, 14}
                <5>1. v8 + 1 \in {3, 15, 18}
                    BY <4>1
                <5>2. call = Lists!Size(0)
                    BY <5>1, ProgramCalls
                <5>3. Length = 0
                    BY <2>1, <4>1 DEF LengthAfter
                <5> QED
                    BY <5>2, <5>3
            <4>2. CASE v8 = 6
                <5>1. v8 + 1 = 7
                    BY <4>2
                <5> QED
                    BY <2>1, <4>2, <5>1, ProgramCalls DEF LengthAfter
            <4>3. CASE v8 = 8
                <5>1. v8 + 1 = 9
                    BY <4>3
                <5> QED
                    BY <2>1, <4>3, <5>1, ProgramCalls DEF LengthAfter
            <4>4. CASE v8 = 10
                <5>1. v8 + 1 = 11
                    BY <4>4
                <5> QED
                    BY <2>1, <4>4, <5>1, ProgramCalls DEF LengthAfter
            <4> QED
                BY <2>3, <4>1, <4>2, <4>3, <4>4
        <3> QED
            BY <3>1 DEF Lists!Size
    <2>4. CASE v8 \in {0, 3, 4, 5, 7, 9, 11, 12, 13, 15, 16}
        <3>1. \/ call = Lists!Create
              \/ call = Lists!Free(TRUE)
              \/ call = Lists!Delete(97, TRUE)
              \/ call = Lists!Insert(97, 0)
              \/ call = Lists!Insert(27, -1)
              \/ call = Lists!Insert(98, 4)
            <4>1. v8 + 1 \in {1, 4, 5, 6, 8, 10, 12, 13, 14, 16, 17}
                BY <2>4
            <4>2. \A d \in {1, 4, 5, 6, 8, 10, 12, 13, 14, 16, 17} :
                      \/ Lists!ex1program[d] = Lists!Create
                      \/ Lists!ex1program[d] = Lists!Free(TRUE)
                      \/ Lists!ex1program[d] = Lists!Delete(97, TRUE)
                      \/ Lists!ex1program[d] = Lists!Insert(97, 0)
                      \/ Lists!ex1program[d] = Lists!Insert(27, -1)
                      \/ Lists!ex1program[d] = Lists!Insert(98, 4)
                <5>1. \A d \in {1, 5, 13} : Lists!ex1program[d] = Lists!Create
                    BY ProgramCalls
                <5>2. \A d \in {4, 12} : Lists!ex1program[d] = Lists!Free(TRUE)
                    BY ProgramCalls
                <5>3. \A d \in {14, 17} : Lists!ex1program[d] = Lists!Delete(97, TRUE)
                    BY ProgramCalls
                <5>4. \A d \in {6, 16} : Lists!ex1program[d] = Lists!Insert(97, 0)
                    BY ProgramCalls
                <5>5. /\ Lists!ex1program[8] = Lists!Insert(27, -1)
                      /\ Lists!ex1program[10] = Lists!Insert(98, 4)
                    BY ProgramCalls
                <5>6. {1, 4, 5, 6, 8, 10, 12, 13, 14, 16, 17}
                          = {1, 5, 13} \cup {4, 12} \cup {14, 17} \cup {6, 16}
                                \cup {8} \cup {10}
                    OBVIOUS
                <5> QED
                    BY ONLY <5>1, <5>2, <5>3, <5>4, <5>5, <5>6
            <4> QED
                BY <4>1, <4>2
        <3>2. call.op \notin {"size", "isList"}
            BY <3>1 DEF Lists!Create, Lists!Free, Lists!Delete, Lists!Insert
        <3> QED
            BY <3>2
    <2> QED
        BY <2>1, <2>2, <2>3, <2>4
<1>9. ASSUME NEW i \in 1..Length
      PROVE  Lists!dpl_get_element_at_index(i - 1) = v6[i]
    <2>1. Lists!After[i - 1] = chain[i] /\ v5[chain[i]].element = v6[i]
        BY <1>2, <1>3 DEF Chained
    <2>2. CASE i = 1
        <3>1. v3 = chain[1]
            BY <1>2, <2>2 DEF Chained, NodeAt
        <3>2. i - 1 = 0
            BY <2>2
        <3>3. Lists!dpl_get_element_at_index(0) = v5[v3].element
            BY DEF Lists!dpl_get_element_at_index
        <3> QED
            BY <2>1, <2>2, <3>1, <3>2, <3>3
    <2>3. CASE i # 1
        <3>1. i - 1 > 0 /\ i - 1 < Lists!dpl_size /\ ~(i - 1 <= 0)
            BY <1>3, <2>3
        <3>2. Lists!dpl_get_element_at_index(i - 1) = v5[Lists!After[i - 1]].element
            BY <3>1 DEF Lists!dpl_get_element_at_index
        <3> QED
            BY <2>1, <3>2
    <2> QED
        BY <2>2, <2>3
<1> QED
    BY <1>1, <1>3, <1>4, <1>5, <1>6, <1>7, <1>8, <1>9 DEF Lists!ExercisesHold, Lists!Walk

(* However many nodes there may be, and whatever careful callers put in    *)
(* the lists of lab3m1 at whatever indexes: both lists are what their      *)
(* headers make of the calls, read either way and asked by index, leak no  *)
(* node, know their last one and do not crash; the asserts of program.c    *)
(* hold up to its surprising call.                                         *)
THEOREM ExercisesCorrect == Safety => [](program = "lists" => Lists!ExercisesHold)
<1> DEFINE Inv == program = "lists" => ListInv
<1>1. Init => Inv
    <2> SUFFICES ASSUME Init, program = "lists" PROVE ListInv
        OBVIOUS
    <2>1. Lists!Init
        BY DEF Init
    <2>2. /\ v1 \in {"ex1", "ex2", "program"} /\ v2 = FALSE /\ v3 = 0 /\ v5 = << >> /\ v6 = << >>
          /\ v7 = Lists!None /\ v8 = 0
        BY <2>1 DEF Lists!Init, Lists!Nil
    <2>3. Length = 0 /\ DOMAIN v5 = {} /\ v6 \in Seq(Letters)
        BY <2>2 DEF Length
    <2>4. ListTyped
        <3>1. v5 \in [DOMAIN v5 -> Links]
            BY <2>2, <2>3
        <3> QED
            BY <2>2, <2>3, <3>1 DEF ListTyped
    <2>5. HasChain
        <3> DEFINE none == [i \in 1..0 |-> 0]
        <3>1. none \in [1..0 -> 1..MaxNodes] /\ \A i \in 1..0 : FALSE
            OBVIOUS
        <3> HIDE DEF none
        <3>2. Chained(none)
            BY <2>2, <2>3, <3>1 DEF Chained, NodeAt
        <3> QED
            BY <2>3, <3>1, <3>2 DEF HasChain
    <2>6. ProgramAt
        <3>1. v8 \in 0..16 /\ v8 \in NoList /\ LengthAfter(v8) = 0
            BY <2>2 DEF NoList, LengthAfter
        <3> QED
            BY <2>2, <2>3, <3>1 DEF ProgramAt
    <2> QED
        BY <2>2, <2>4, <2>5, <2>6 DEF ListInv
<1>2. Inv /\ [Next]_vars => Inv'
    <2> SUFFICES ASSUME Inv, [Next]_vars, program' = "lists" PROVE ListInv'
        OBVIOUS
    <2>1. program = "lists"
        BY SameProgram
    <2>2. Lists!Next \/ UNCHANGED Lists!vars
        BY <2>1 DEF Next, Step, Milestone3Step, Others, Accidents, vars, Lists!vars
    <2> QED
        BY <2>1, <2>2, ListsNext
<1>3. Inv => (program = "lists" => Lists!ExercisesHold)
    BY ListsHold
<1> QED
    BY <1>1, <1>2, <1>3, PTL DEF Safety
-----------------------------------------------------------------------------
(* The unit tests of the list: v1 to v7 are those of Dplist, v8 is script, *)
(* v9 done, v10 cleanup and v11 size.  What one call does to the list is   *)
(* in DplistProofs; here it is said of the same variables.                 *)

LEMMA SameWalks ==
    /\ Tests!List!nodes = Proven!nodes /\ Tests!List!objs = Proven!objs
    /\ Tests!List!Step = Proven!Step
    /\ Tests!List!dpl_size = Proven!dpl_size
    /\ Tests!List!Listed = Proven!Listed
    /\ \A index : Tests!List!dpl_get_reference_at_index(index)
                       = Proven!dpl_get_reference_at_index(index)
    /\ \A ref : Tests!List!dpl_get_element_at_reference(ref)
                     = Proven!dpl_get_element_at_reference(ref)
<1>1. Tests!List!Step = Proven!Step
    BY Zenon DEF Tests!List!Step, Proven!Step
<1>2. \A S : Tests!List!Cardinality(S) = Proven!Cardinality(S)
    BY DEF Tests!List!Cardinality, Proven!Cardinality
<1>3. Tests!List!dpl_size = Proven!dpl_size
    BY <1>1, <1>2 DEF Tests!List!dpl_size, Proven!dpl_size
<1>4. Tests!List!Listed = Proven!Listed
    BY <1>1, <1>3 DEF Tests!List!Listed, Proven!Listed
<1>5. Tests!List!nodes = Proven!nodes /\ Tests!List!objs = Proven!objs
    BY DEF Tests!List!nodes, Proven!nodes, Tests!List!objs, Proven!objs
<1>6. \A index :
         Tests!List!dpl_get_reference_at_index(index)
                       = Proven!dpl_get_reference_at_index(index)
    BY <1>1, <1>3 DEF Tests!List!dpl_get_reference_at_index, Proven!dpl_get_reference_at_index,
                      Tests!List!LastNode, Proven!LastNode
<1>7. \A ref :
         Tests!List!dpl_get_element_at_reference(ref)
                     = Proven!dpl_get_element_at_reference(ref)
    BY <1>1, <1>3
       DEF Tests!List!dpl_get_element_at_reference, Proven!dpl_get_element_at_reference
<1> QED
    BY <1>1, <1>3, <1>4, <1>5, <1>6, <1>7

LEMMA SameSearch ==
    \A k : Tests!List!dpl_get_index_of_element(k) = Proven!dpl_get_index_of_element(k)
<1>1. \A S : Tests!List!Min(S) = Proven!Min(S)
    BY DEF Tests!List!Min, Proven!Min
<1> QED
    BY SameWalks, <1>1 DEF Tests!List!dpl_get_index_of_element, Proven!dpl_get_index_of_element,
        Tests!List!SelectInSeq, Proven!SelectInSeq

LEMMA SameCalls ==
    /\ Tests!List!dpl_create => Proven!dpl_create
    /\ \A k, index, copy : Tests!List!dpl_insert_at_index(k, index, copy)
                               => Proven!dpl_insert_at_index(k, index, copy)
    /\ \A index, f :
          Tests!List!dpl_remove_at_index(index, f) => Proven!dpl_remove_at_index(index, f)
    /\ \A f : Tests!List!dpl_free(f) => Proven!dpl_free(f)
    /\ \A k : Tests!List!CallerMakes(k) => Proven!CallerMakes(k)
    /\ \A e : Tests!List!CallerFrees(e) => Proven!CallerFrees(e)
<1>1. /\ Tests!List!nodes = Proven!nodes /\ Tests!List!objs = Proven!objs
      /\ Tests!List!dpl_size = Proven!dpl_size /\ Tests!List!Listed = Proven!Listed
      /\ \A index :
            Tests!List!dpl_get_reference_at_index(index)
                       = Proven!dpl_get_reference_at_index(index)
    BY SameWalks
<1>2. \A elements, f : Tests!List!Drop(elements, f) <=> Proven!Drop(elements, f)
    BY <1>1 DEF Tests!List!Drop, Proven!Drop, Tests!List!Restrict, Proven!Restrict
<1>3. Tests!List!dpl_create => Proven!dpl_create
    BY DEF Tests!List!dpl_create, Proven!dpl_create
<1>4. ASSUME NEW k, NEW index, NEW copy, Tests!List!dpl_insert_at_index(k, index, copy)
      PROVE  Proven!dpl_insert_at_index(k, index, copy)
    <2>1. \A n, e : Tests!List!LinkFirst(n, e) <=> Proven!LinkFirst(n, e)
        BY <1>1
           DEF Tests!List!LinkFirst, Proven!LinkFirst, Tests!List!Allocated, Proven!Allocated,
                    Tests!List!Node, Proven!Node
    <2>2. \A n, e, r : Tests!List!LinkBefore(n, e, r) <=> Proven!LinkBefore(n, e, r)
        BY DEF Tests!List!LinkBefore, Proven!LinkBefore, Tests!List!Allocated, Proven!Allocated,
               Tests!List!Node, Proven!Node
    <2>3. \A n, e, r : Tests!List!LinkLast(n, e, r) <=> Proven!LinkLast(n, e, r)
        BY DEF Tests!List!LinkLast, Proven!LinkLast, Tests!List!Allocated, Proven!Allocated,
               Tests!List!Node, Proven!Node
    <2>4. \A e : Tests!List!WithInserted(e, index) = Proven!WithInserted(e, index)
        BY DEF Tests!List!WithInserted, Proven!WithInserted, Tests!List!InsertAt,
           Proven!InsertAt
    <2>5. \A e : Tests!List!Allocated(v4, e, k) = Proven!Allocated(v4, e, k)
        BY DEF Tests!List!Allocated, Proven!Allocated
    <2>6. Tests!List!Entering(k, copy) = Proven!Entering(k, copy)
        BY <1>1 DEF Tests!List!Entering, Proven!Entering
    <2> QED
        BY <1>1, <1>4, <2>1, <2>2, <2>3, <2>4, <2>5, <2>6
           DEF Tests!List!dpl_insert_at_index, Proven!dpl_insert_at_index
<1>5. ASSUME NEW index, NEW f, Tests!List!dpl_remove_at_index(index, f)
      PROVE  Proven!dpl_remove_at_index(index, f)
    <2>1. \A n : Tests!List!Unlink(n) = Proven!Unlink(n)
        BY <1>1 DEF Tests!List!Unlink, Proven!Unlink
    <2>2. Tests!List!WithRemoved(index) = Proven!WithRemoved(index)
        BY DEF Tests!List!WithRemoved, Proven!WithRemoved, Tests!List!RemoveAt, Proven!RemoveAt,
               Tests!List!Front, Proven!Front
    <2>3. \A n : Tests!List!ElementOf(n) = Proven!ElementOf(n)
        BY DEF Tests!List!ElementOf, Proven!ElementOf
    <2>4. Tests!List!Removed(index) = Proven!Removed(index)
        BY DEF Tests!List!Removed, Proven!Removed, Tests!List!Last, Proven!Last
    <2>5. Tests!List!Range(v7') = Proven!Range(v7')
        BY DEF Tests!List!Range, Proven!Range
    <2> QED
        BY <1>1, <1>2, <1>5, <2>1, <2>2, <2>3, <2>4, <2>5
           DEF Tests!List!dpl_remove_at_index, Proven!dpl_remove_at_index
<1>6. ASSUME NEW f, Tests!List!dpl_free(f) PROVE Proven!dpl_free(f)
    <2>1. Tests!List!Range(v7) = Proven!Range(v7) /\ (Tests!List!OnceEach <=> Proven!OnceEach)
        BY <1>1 DEF Tests!List!Range, Proven!Range, Tests!List!OnceEach, Proven!OnceEach
    <2> QED
        BY <1>1, <1>2, <1>6, <2>1
           DEF Tests!List!dpl_free, Proven!dpl_free, Tests!List!Restrict, Proven!Restrict
<1>7. ASSUME NEW k, Tests!List!CallerMakes(k) PROVE Proven!CallerMakes(k)
    BY <1>1, <1>7
       DEF Tests!List!CallerMakes, Proven!CallerMakes, Tests!List!Allocated, Proven!Allocated
<1>8. ASSUME NEW e, Tests!List!CallerFrees(e) PROVE Proven!CallerFrees(e)
    BY <1>1, <1>8
       DEF Tests!List!CallerFrees, Proven!CallerFrees, Tests!List!Restrict, Proven!Restrict,
           Tests!List!Range, Proven!Range
<1> QED
    BY <1>3, <1>4, <1>5, <1>6, <1>7, <1>8

LEMMA SameProperties ==
    /\ Tests!List!Init => Proven!Init
    /\ Proven!TypeOK => Tests!List!TypeOK
    /\ Proven!BothWaysContents => Tests!List!BothWaysContents
    /\ Proven!NothingLeaks => Tests!List!NothingLeaks
<1>1. /\ Tests!List!nodes = Proven!nodes /\ Tests!List!objs = Proven!objs
      /\ Tests!List!dpl_size = Proven!dpl_size /\ Tests!List!Listed = Proven!Listed
      /\ Tests!List!Step = Proven!Step
    BY SameWalks
<1>3. Tests!List!Init => Proven!Init
    BY DEF Tests!List!Init, Proven!Init
<1>4. Proven!TypeOK => Tests!List!TypeOK
    BY <1>1 DEF Tests!List!TypeOK, Proven!TypeOK
<1>5. Proven!BothWaysContents => Tests!List!BothWaysContents
    BY <1>1 DEF Tests!List!BothWaysContents, Proven!BothWaysContents
<1>6. Proven!NothingLeaks => Tests!List!NothingLeaks
    BY <1>1 DEF Tests!List!NothingLeaks, Proven!NothingLeaks
<1> QED
    BY <1>3, <1>4, <1>5, <1>6
-----------------------------------------------------------------------------
(* Calls, a list as its caller knows it, and what dplist.h promises of a   *)
(* call: that l becomes m, and the answer that is asserted is right.  The  *)
(* only element is removed by an index of 0 or less; a key whose object    *)
(* comes in by reference, or goes, is not listed.                          *)

Queries ==
    [op : {"size"}, expect : Int] \cup [op : {"at", "ref"}, index : Int, expect : Int]
    \cup [op : {"indexOf"}, key : 1..13, expect : Int] \cup [op : {"isList"}, expect : BOOLEAN]
    \cup [op : {"foreign"}, expect : {0}]

Calls ==
    Queries \cup [op : {"create"}] \cup [op : {"free"}, free : BOOLEAN]
    \cup [op : {"insert"}, key : 1..13, index : Int, copy : BOOLEAN]
    \cup [op : {"make", "release"}, key : 1..13]
    \cup [op : {"remove"}, index : Int, free : BOOLEAN]

Absent == [exists |-> FALSE, contents |-> << >>]
Present(s) == [exists |-> TRUE, contents |-> s]
KeysOf(key, objects) == [i \in 1..Len(objects) |-> key[objects[i]]]
Listing == [exists |-> v1, contents |-> KeysOf(v4, v7)]

(* No listed element is freed, and none is listed twice.                   *)
Live ==
    /\ \A i \in 1..Len(v7) : v7[i] \in Proven!objs
    /\ \A i, j \in 1..Len(v7) : v7[i] = v7[j] => i = j

Inserted(s, k, index) ==
    CASE index <= 0                     -> <<k>> \o s
      [] index > 0 /\ index < Len(s)    -> Proven!InsertAt(s, index + 1, k)
      [] OTHER                          -> Append(s, k)

Removed(s, index) ==
    CASE index <= 0                     -> Tail(s)
      [] index > 0 /\ index < Len(s)    -> Proven!RemoveAt(s, index + 1)
      [] OTHER                          -> Proven!Front(s)

Found(s, index) ==
    IF s = << >> THEN 0
    ELSE s[IF index <= 0 THEN 1 ELSE IF index < Len(s) THEN index + 1 ELSE Len(s)]

FirstPlace(s, k, n) ==
    \/ n = -1 /\ \A i \in 1..Len(s) : s[i] # k
    \/ n \in 0..Len(s) - 1 /\ s[n + 1] = k /\ \A i \in 1..n : s[i] # k

Right(call, l, m) ==
    /\ call \in Calls
    /\ CASE call.op = "create"       -> ~l.exists /\ m = Present(<< >>)
         [] call.op = "insert"       -> /\ l.exists
                                        /\ call.copy \/ \A i \in 1..Len(l.contents) :
                                                            l.contents[i] # call.key
                                        /\ m = Present(Inserted(l.contents, call.key, call.index))
         [] call.op = "remove"       -> /\ l.exists /\ (Len(l.contents) = 1 => call.index <= 0)
                                        /\ m = IF l.contents = << >> THEN l
                                               ELSE Present(Removed(l.contents, call.index))
         [] call.op = "free"         -> m = Absent
         [] call.op = "make"         -> m = l
         [] call.op = "release"      -> /\ m = l
                                        /\ \A i \in 1..Len(l.contents) : l.contents[i] # call.key
         [] call.op = "size"         -> m = l /\ l.exists /\ call.expect = Len(l.contents)
         [] call.op \in {"at", "ref"} -> m = l /\ call.expect = Found(l.contents, call.index)
         [] call.op = "indexOf"      -> m = l /\ FirstPlace(l.contents, call.key, call.expect)
         [] call.op = "isList"       -> m = l /\ call.expect = l.exists
         [] call.op = "foreign"      -> m = l

(* What insertions and removals make of a list.                            *)
PutPlace(s, index) ==
    IF index <= 0 THEN 1 ELSE IF index < Len(s) THEN index + 1 ELSE Len(s) + 1

TakePlace(s, index) ==
    IF index <= 0 THEN 1 ELSE IF index < Len(s) THEN index + 1 ELSE Len(s)

PutIn(S, t, s, k, p) ==
    /\ t \in Seq(S) /\ Len(t) = Len(s) + 1
    /\ \A i \in 1..Len(s) + 1 : t[i] = IF i < p THEN s[i] ELSE IF i = p THEN k ELSE s[i - 1]

TakenFrom(S, t, s, p) ==
    /\ t \in Seq(S) /\ Len(t) = Len(s) - 1
    /\ \A i \in 1..Len(s) - 1 : t[i] = IF i < p THEN s[i] ELSE s[i + 1]

LEMMA Inserting ==
    ASSUME NEW S, NEW s \in Seq(S), NEW k \in S, NEW index \in Int
    PROVE  PutIn(S, Inserted(s, k, index), s, k, PutPlace(s, index))
<1>1. ASSUME index <= 0 PROVE PutIn(S, Inserted(s, k, index), s, k, 1)
    <2>1. Inserted(s, k, index) = <<k>> \o s
        BY <1>1 DEF Inserted
    <2>2. <<k>> \in Seq(S) /\ Len(<<k>>) = 1 /\ <<k>>[1] = k
        OBVIOUS
    <2> QED
        BY <2>1, <2>2, ConcatProperties DEF PutIn
<1>2. ASSUME index > 0, index < Len(s) PROVE PutIn(S, Inserted(s, k, index), s, k, index + 1)
    <2>1. Inserted(s, k, index) = Proven!InsertAt(s, index + 1, k)
        BY <1>2 DEF Inserted
    <2>2. PICK p \in 1..Len(s) + 1 : p = index + 1
        BY <1>2
    <2>3. /\ Proven!InsertAt(s, p, k) \in Seq(S) /\ Len(Proven!InsertAt(s, p, k)) = Len(s) + 1
          /\ \A i \in 1..Len(s) + 1 :
                Proven!InsertAt(s, p, k)[i] =
                    IF i < p THEN s[i] ELSE IF i = p THEN k ELSE s[i - 1]
        BY ListConstants, Proven!InsertAtElements, SMTT(60)
    <2> QED
        BY <2>1, <2>2, <2>3 DEF PutIn
<1>3. ASSUME index > 0, index >= Len(s) PROVE PutIn(S, Inserted(s, k, index), s, k, Len(s) + 1)
    <2>1. Inserted(s, k, index) = Append(s, k)
        BY <1>3 DEF Inserted
    <2> QED
        BY <2>1 DEF PutIn
<1> QED
    BY <1>1, <1>2, <1>3 DEF PutPlace

LEMMA Removing ==
    ASSUME NEW S, NEW s \in Seq(S), NEW index \in Int, s # << >>
    PROVE  TakenFrom(S, Removed(s, index), s, TakePlace(s, index))
<1>1. ASSUME index <= 0 PROVE TakenFrom(S, Removed(s, index), s, 1)
    <2>1. Removed(s, index) = Tail(s)
        BY <1>1 DEF Removed
    <2> QED
        BY <2>1 DEF TakenFrom
<1>2. ASSUME index > 0, index < Len(s) PROVE TakenFrom(S, Removed(s, index), s, index + 1)
    <2>1. Removed(s, index) = Proven!RemoveAt(s, index + 1)
        BY <1>2 DEF Removed
    <2>2. PICK p \in 1..Len(s) : p = index + 1
        BY <1>2
    <2>3. /\ Proven!RemoveAt(s, p) \in Seq(S) /\ Len(Proven!RemoveAt(s, p)) = Len(s) - 1
          /\ \A i \in 1..Len(s) - 1 :
                Proven!RemoveAt(s, p)[i] = IF i < p THEN s[i] ELSE s[i + 1]
        BY ListConstants, Proven!RemoveAtElements
    <2> QED
        BY <2>1, <2>2, <2>3 DEF TakenFrom
<1>3. ASSUME index > 0, index >= Len(s) PROVE TakenFrom(S, Removed(s, index), s, Len(s))
    <2>1. Removed(s, index) = SubSeq(s, 1, Len(s) - 1)
        BY <1>3 DEF Removed, Proven!Front
    <2>2. PICK n \in 0..Len(s) - 1 : n = Len(s) - 1
        OBVIOUS
    <2>3. /\ SubSeq(s, 1, n) \in Seq(S) /\ Len(SubSeq(s, 1, n)) = n
          /\ \A i \in 1..n : SubSeq(s, 1, n)[i] = s[i]
        BY <2>2
    <2> QED
        BY <2>1, <2>2, <2>3 DEF TakenFrom
<1> QED
    BY <1>1, <1>2, <1>3 DEF TakePlace

(* The keys of a list after an insertion or a removal.                     *)
LEMMA KeysInserted ==
    ASSUME NEW s \in Seq(Objs), NEW e \in Objs, NEW index \in Int, NEW k \in Keys,
           NEW f, NEW g, g[e] = k, \A i \in 1..Len(s) : f[s[i]] \in Keys /\ g[s[i]] = f[s[i]]
    PROVE  KeysOf(g, Inserted(s, e, index)) = Inserted(KeysOf(f, s), k, index)
<1> DEFINE t == Inserted(s, e, index)
           u == Inserted(KeysOf(f, s), k, index)
<1>1. KeysOf(f, s) \in Seq(Keys) /\ Len(KeysOf(f, s)) = Len(s) /\ Len(s) \in Nat
    BY DEF KeysOf
<1> DEFINE p == PutPlace(s, index)
<1>2. PutPlace(KeysOf(f, s), index) = p
    BY <1>1 DEF PutPlace
<1>3. PutIn(Objs, t, s, e, p)
    BY Inserting
<1>4. PutIn(Keys, u, KeysOf(f, s), k, p)
    BY <1>1, <1>2, Inserting
<1>5. p \in 1..Len(s) + 1
    BY <1>1 DEF PutPlace
<1> HIDE DEF t, u, p
<1>6. ASSUME NEW i \in 1..Len(s) + 1 PROVE g[t[i]] = u[i]
    <2>1. CASE i < p
        <3>1. i \in 1..Len(s) /\ t[i] = s[i] /\ u[i] = KeysOf(f, s)[i]
            BY <1>1, <1>3, <1>4, <1>5, <2>1 DEF PutIn
        <3> QED
            BY <1>1, <3>1 DEF KeysOf
    <2>2. CASE i = p
        BY <1>1, <1>3, <1>4, <1>5, <2>2 DEF PutIn
    <2>3. CASE i > p
        <3>1. i - 1 \in 1..Len(s) /\ t[i] = s[i - 1] /\ u[i] = KeysOf(f, s)[i - 1]
            BY <1>1, <1>3, <1>4, <1>5, <2>3 DEF PutIn
        <3> QED
            BY <1>1, <3>1 DEF KeysOf
    <2> QED
        BY <1>1, <1>5, <2>1, <2>2, <2>3
<1>7. Len(t) = Len(s) + 1 /\ Len(u) = Len(s) + 1 /\ u \in Seq(Keys)
    BY <1>1, <1>3, <1>4 DEF PutIn
<1>8. u = [i \in 1..Len(s) + 1 |-> u[i]]
    BY <1>7
<1>9. [i \in 1..Len(s) + 1 |-> g[t[i]]] = [i \in 1..Len(s) + 1 |-> u[i]]
    BY <1>6
<1>10. KeysOf(g, t) = u
    BY <1>7, <1>8, <1>9 DEF KeysOf
<1> QED
    BY <1>10 DEF t, u

LEMMA KeysRemoved ==
    ASSUME NEW s \in Seq(Objs), NEW index \in Int, s # << >>, NEW f, NEW g,
           \A i \in 1..Len(s) : f[s[i]] \in Keys,
           \A i \in 1..Len(s) : i # TakePlace(s, index) => g[s[i]] = f[s[i]]
    PROVE  KeysOf(g, Removed(s, index)) = Removed(KeysOf(f, s), index)
<1> DEFINE t == Removed(s, index)
           u == Removed(KeysOf(f, s), index)
<1>1. /\ KeysOf(f, s) \in Seq(Keys) /\ Len(KeysOf(f, s)) = Len(s) /\ Len(s) \in Nat /\ Len(s) > 0
      /\ KeysOf(f, s) # << >>
    BY DEF KeysOf
<1> DEFINE p == TakePlace(s, index)
<1>2. TakePlace(KeysOf(f, s), index) = p
    BY <1>1 DEF TakePlace
<1>3. TakenFrom(Objs, t, s, p)
    BY Removing
<1>4. TakenFrom(Keys, u, KeysOf(f, s), p)
    BY <1>1, <1>2, Removing
<1>5. p \in 1..Len(s)
    BY <1>1 DEF TakePlace
<1>6. \A i \in 1..Len(s) : i # p => g[s[i]] = f[s[i]]
    OBVIOUS
<1> HIDE DEF t, u, p
<1>7. ASSUME NEW i \in 1..Len(s) - 1 PROVE g[t[i]] = u[i]
    <2>1. CASE i < p
        <3>1. i \in 1..Len(s) /\ i # p /\ t[i] = s[i] /\ u[i] = KeysOf(f, s)[i]
            BY <1>1, <1>3, <1>4, <1>5, <2>1 DEF TakenFrom
        <3> QED
            BY <1>6, <3>1 DEF KeysOf
    <2>2. CASE i >= p
        <3>1. /\ i + 1 \in 1..Len(s) /\ i + 1 # p
              /\ t[i] = s[i + 1] /\ u[i] = KeysOf(f, s)[i + 1]
            BY <1>1, <1>3, <1>4, <1>5, <2>2 DEF TakenFrom
        <3> QED
            BY <1>6, <3>1 DEF KeysOf
    <2> QED
        BY <1>1, <1>5, <2>1, <2>2
<1>8. Len(t) = Len(s) - 1 /\ Len(u) = Len(s) - 1 /\ u \in Seq(Keys)
    BY <1>1, <1>3, <1>4 DEF TakenFrom
<1>9. u = [i \in 1..Len(s) - 1 |-> u[i]]
    BY <1>8
<1>10. [i \in 1..Len(s) - 1 |-> g[t[i]]] = [i \in 1..Len(s) - 1 |-> u[i]]
    BY <1>7
<1>11. KeysOf(g, t) = u
    BY <1>8, <1>9, <1>10 DEF KeysOf
<1> QED
    BY <1>11 DEF t, u

(* What the invariant of the list says of it.                              *)
LEMMA ListOf ==
    ASSUME Proven!IInv
    PROVE  /\ v7 \in Seq(Objs) /\ v1 \in BOOLEAN /\ (~v1 => v7 = << >>)
           /\ Proven!dpl_size = Len(v7)
           /\ v2 = NULL <=> v7 = << >>
<1>1. PICK chain \in [1..Len(v7) -> Nodes] : Proven!IsChain(chain)
    BY DEF Proven!IInv, Proven!Size
<1>2. Proven!TypeOK /\ v7 \in Seq(Objs) /\ v1 \in BOOLEAN /\ (~v1 => v7 = << >>)
    BY DEF Proven!IInv, Proven!TypeOK
<1>3. Proven!dpl_size = Len(v7)
    BY <1>1, <1>2, ListConstants, Proven!ChainFacts DEF Proven!Size
<1>4. v2 = IF Len(v7) = 0 THEN NULL ELSE chain[1]
    BY <1>1, <1>2 DEF Proven!IsChain, Proven!At, Proven!Size
<1>5. v2 = NULL <=> v7 = << >>
    BY <1>1, <1>2, <1>4, ListConstants
<1> QED
    BY <1>2, <1>3, <1>5

(* The keys of a list without freed elements.                              *)
LEMMA KeysOfList ==
    ASSUME Proven!IInv, Live
    PROVE  /\ Listing.contents = KeysOf(v4, v7) /\ Listing.exists = v1
           /\ KeysOf(v4, v7) \in Seq(Keys) /\ Len(KeysOf(v4, v7)) = Len(v7)
           /\ \A i \in 1..Len(v7) : /\ KeysOf(v4, v7)[i] = v4[v7[i]]
                                    /\ v4[v7[i]] \in Keys
           /\ KeysOf(v4, v7) = << >> <=> v7 = << >>
<1>1. v7 \in Seq(Objs) /\ Len(v7) \in Nat
    BY ListOf
<1>2. v4 \in [Proven!objs -> Keys]
    BY DEF Proven!IInv, Proven!TypeOK
<1>3. \A i \in 1..Len(v7) : v4[v7[i]] \in Keys
    BY <1>2 DEF Live
<1> QED
    BY <1>1, <1>3 DEF KeysOf, Listing

LEMMA NoKeys == \A f : KeysOf(f, << >>) = << >>
    BY DEF KeysOf

LEMMA EmptyListing ==
    ASSUME v7' = << >>
    PROVE  Listing' = [exists |-> v1', contents |-> << >>] /\ Live'
<1>1. KeysOf(v4, v7)' = << >>
    BY DEF KeysOf
<1>2. Live'
    <2>1. Len(v7') = 0
        OBVIOUS
    <2> QED
        BY <2>1 DEF Live
<1> QED
    BY <1>1, <1>2 DEF Listing

(* Callers make and release objects that are not listed.                   *)
LEMMA CallerDone ==
    ASSUME Proven!IInv, NEW k \in 1..13,
           \/ Proven!CallerMakes(k)
           \/ \E e \in v5 : v4[e] = k /\ Proven!CallerFrees(e)
    PROVE  Proven!IInv' /\ v1' = v1 /\ v7' = v7
<1>1. Proven!Others
    BY ListConstants DEF Proven!Others
<1> QED
    BY <1>1, ListConstants, Proven!OthersKeep DEF Proven!CallerMakes, Proven!CallerFrees

LEMMA CallerKeeps ==
    ASSUME Proven!IInv, Live, NEW k \in 1..13,
           \/ Proven!CallerMakes(k)
           \/ /\ \E e \in v5 : v4[e] = k /\ Proven!CallerFrees(e)
              /\ \A i \in 1..Len(v7) : v4[v7[i]] # k
    PROVE  Live' /\ Listing' = Listing
<1>1. v1' = v1 /\ v7' = v7
    BY DEF Proven!CallerMakes, Proven!CallerFrees
<1>2. \A i \in 1..Len(v7) : v7[i] \in Proven!objs' /\ v4'[v7[i]] = v4[v7[i]]
    <2>1. CASE Proven!CallerMakes(k)
        BY <2>1 DEF Proven!CallerMakes, Proven!Allocated, Live, Proven!objs
    <2>2. CASE /\ \E e \in v5 : v4[e] = k /\ Proven!CallerFrees(e)
               /\ \A i \in 1..Len(v7) : v4[v7[i]] # k
        BY <2>2 DEF Proven!CallerFrees, Proven!Restrict, Live, Proven!objs
    <2> QED
        BY <2>1, <2>2
<1>3. Live'
    BY <1>1, <1>2 DEF Live
<1>4. KeysOf(v4, v7)' = KeysOf(v4, v7)
    BY <1>1, <1>2 DEF KeysOf
<1> QED
    BY <1>1, <1>3, <1>4 DEF Listing

(* An insertion and a removal, as the keys show them.                      *)
LEMMA InsertKeeps ==
    ASSUME Proven!IInv, Live, NEW k \in Keys, NEW index \in Int, NEW copy \in BOOLEAN,
           Proven!dpl_insert_at_index(k, index, copy),
           copy \/ \A i \in 1..Len(v7) : v4[v7[i]] # k
    PROVE  Live' /\ Listing' = Present(Inserted(KeysOf(v4, v7), k, index))
<1>1. /\ v7 \in Seq(Objs) /\ Len(v7) \in Nat
      /\ v5 \subseteq Proven!objs /\ Proven!objs \subseteq Objs
    BY ListOf DEF Proven!IInv, Proven!TypeOK
<1>2. PICK e \in Proven!Entering(k, copy) :
          /\ v4' = IF copy THEN Proven!Allocated(v4, e, k) ELSE v4
          /\ v7' = Proven!WithInserted(e, index)
    BY DEF Proven!dpl_insert_at_index
<1>3. v7' = Inserted(v7, e, index)
    BY <1>2 DEF Proven!WithInserted, Inserted
<1>4. /\ e \in Objs /\ v4'[e] = k /\ e \in Proven!objs'
      /\ \A i \in 1..Len(v7) : v7[i] # e /\ v7[i] \in Proven!objs' /\ v4'[v7[i]] = v4[v7[i]]
    <2>1. CASE copy
        <3>1. e \in Objs \ Proven!objs
            BY <2>1 DEF Proven!Entering
        <3>2. v4' = [a \in DOMAIN v4 \cup {e} |-> IF a = e THEN k ELSE v4[a]]
            BY <1>2, <2>1 DEF Proven!Allocated
        <3> QED
            BY <3>1, <3>2 DEF Live, Proven!objs
    <2>2. CASE ~copy
        <3>1. e \in v5 /\ v4[e] = k
            BY <2>2 DEF Proven!Entering
        <3>2. v4' = v4
            BY <1>2, <2>2
        <3> QED
            BY <1>1, <2>2, <3>1, <3>2 DEF Live, Proven!objs
    <2> QED
        BY <2>1, <2>2
<1>5. KeysOf(v4', v7') = Inserted(KeysOf(v4, v7), k, index)
    <2>1. \A i \in 1..Len(v7) : v4[v7[i]] \in Keys /\ v4'[v7[i]] = v4[v7[i]]
        BY <1>4, KeysOfList
    <2>2. KeysOf(v4', Inserted(v7, e, index)) = Inserted(KeysOf(v4, v7), k, index)
        <3> DEFINE f == v4
                   g == v4'
        <3>1. g[e] = k /\ \A i \in 1..Len(v7) : f[v7[i]] \in Keys /\ g[v7[i]] = f[v7[i]]
            BY <1>4, <2>1
        <3> HIDE DEF f, g
        <3>2. v7 \in Seq(Objs) /\ e \in Objs /\ index \in Int /\ k \in Keys
            BY <1>1, <1>4
        <3>3. KeysOf(g, Inserted(v7, e, index)) = Inserted(KeysOf(f, v7), k, index)
            BY <3>1, <3>2, KeysInserted
        <3> QED
            BY <3>3 DEF f, g
    <2> QED
        BY <1>3, <2>2
<1>6. PutIn(Objs, v7', v7, e, PutPlace(v7, index)) /\ PutPlace(v7, index) \in 1..Len(v7) + 1
    BY <1>1, <1>3, <1>4, Inserting DEF PutPlace
<1>7. Live'
    <2> DEFINE p == PutPlace(v7, index)
    <2>1. /\ Len(v7') = Len(v7) + 1
          /\ \A i \in 1..Len(v7) + 1 : v7'[i] = IF i < p THEN v7[i] ELSE IF i = p THEN e ELSE v7[i - 1]
        BY <1>6 DEF PutIn
    <2>2. p \in 1..Len(v7) + 1
        BY <1>6
    <2> HIDE DEF p
    <2>3. ASSUME NEW i \in 1..Len(v7) + 1, i # p
          PROVE  \E n \in 1..Len(v7) : v7'[i] = v7[n] /\ n = IF i < p THEN i ELSE i - 1
        <3>1. CASE i < p
            BY <1>1, <2>1, <2>2, <3>1
        <3>2. CASE i > p
            BY <1>1, <2>1, <2>2, <3>2
        <3> QED
            BY <1>1, <2>2, <2>3, <3>1, <3>2
    <2>4. v7'[p] = e
        BY <2>1, <2>2
    <2>5. ASSUME NEW i \in 1..Len(v7) + 1 PROVE v7'[i] \in Proven!objs'
        BY <1>4, <2>3, <2>4
    <2>6. ASSUME NEW i \in 1..Len(v7) + 1, NEW j \in 1..Len(v7) + 1, v7'[i] = v7'[j] PROVE i = j
        <3>1. CASE i = p \/ j = p
            BY <1>4, <2>3, <2>4, <2>6, <3>1
        <3>2. CASE i # p /\ j # p
            <4>1. PICK n \in 1..Len(v7) : v7'[i] = v7[n] /\ n = IF i < p THEN i ELSE i - 1
                BY <2>3, <3>2
            <4>2. PICK m \in 1..Len(v7) : v7'[j] = v7[m] /\ m = IF j < p THEN j ELSE j - 1
                BY <2>3, <3>2
            <4>3. n = m
                BY <2>6, <4>1, <4>2 DEF Live
            <4> QED
                BY <1>1, <2>2, <3>2, <4>1, <4>2, <4>3
        <3> QED
            BY <3>1, <3>2
    <2> QED
        BY <2>1, <2>5, <2>6 DEF Live
<1>8. v1' = TRUE
    BY DEF Proven!dpl_insert_at_index, Proven!IInv, Proven!TypeOK
<1> QED
    BY <1>5, <1>7, <1>8 DEF Listing, Present

LEMMA RemoveKeeps ==
    ASSUME Proven!IInv, Live, NEW index \in Int, NEW f \in BOOLEAN,
           Proven!dpl_remove_at_index(index, f)
    PROVE  Live' /\ Listing' = Present(Removed(KeysOf(v4, v7), index))
<1>1. PICK chain \in [1..Len(v7) -> Nodes] : Proven!IsChain(chain)
    BY DEF Proven!IInv, Proven!Size
<1>2. /\ v7 \in Seq(Objs) /\ Len(v7) \in Nat /\ v7 # << >> /\ v2 # NULL /\ Len(v7) > 0
      /\ v4 \in [Proven!objs -> Keys]
    BY ListOf DEF Proven!dpl_remove_at_index, Proven!IInv, Proven!TypeOK
<1> DEFINE p == TakePlace(v7, index)
<1>3. p \in 1..Len(v7) /\ Proven!dpl_get_reference_at_index(index) = chain[p]
    <2>1. Proven!PlaceOf(index) = p
        BY DEF Proven!PlaceOf, Proven!Size, TakePlace
    <2> QED
        BY <1>1, <1>2, <2>1, ListConstants, Proven!ReferenceAtIndex
           DEF Proven!Size, Proven!IInv
<1>4. Proven!ElementOf(chain[p]) = v7[p]
    BY <1>1, <1>3 DEF Proven!ElementOf, Proven!IsChain, Proven!Size
<1>5. v7' = Removed(v7, index)
    BY DEF Proven!dpl_remove_at_index, Proven!WithRemoved, Removed
<1>6. Proven!Drop({v7[p]}, f)
    BY <1>3, <1>4 DEF Proven!dpl_remove_at_index
<1> HIDE DEF p
<1>7. \A i \in 1..Len(v7) : i # p => v7[i] \in Proven!objs' /\ v4'[v7[i]] = v4[v7[i]]
    <2>1. ASSUME NEW i \in 1..Len(v7), i # p PROVE v7[i] \in Proven!objs /\ v7[i] # v7[p]
        BY <1>3, <2>1 DEF Live
    <2>2. CASE f
        <3>1. v4' = [x \in Proven!objs \ {v7[p]} |-> v4[x]]
            BY <1>6, <2>2 DEF Proven!Drop, Proven!Restrict
        <3> QED
            BY <2>1, <3>1 DEF Proven!objs
    <2>3. CASE ~f
        BY <1>6, <2>1, <2>3 DEF Proven!Drop, Proven!objs
    <2> QED
        BY <2>2, <2>3
<1>8. KeysOf(v4', v7') = Removed(KeysOf(v4, v7), index)
    <2>1. \A i \in 1..Len(v7) : v4[v7[i]] \in Keys
        BY KeysOfList
    <2>2. \A i \in 1..Len(v7) : i # TakePlace(v7, index) => v4'[v7[i]] = v4[v7[i]]
        BY <1>7 DEF p
    <2> QED
        <3>1. KeysOf(v4', Removed(v7, index)) = Removed(KeysOf(v4, v7), index)
            <4> DEFINE old == v4
                       new == v4'
            <4>1. /\ \A i \in 1..Len(v7) : old[v7[i]] \in Keys
                  /\ \A i \in 1..Len(v7) : i # TakePlace(v7, index) => new[v7[i]] = old[v7[i]]
                BY <2>1, <2>2
            <4> HIDE DEF old, new
            <4>2. v7 \in Seq(Objs) /\ v7 # << >> /\ index \in Int
                BY <1>2
            <4>3. KeysOf(new, Removed(v7, index)) = Removed(KeysOf(old, v7), index)
                BY <4>1, <4>2, KeysRemoved, Zenon
            <4> QED
                BY <4>3 DEF old, new
        <3> QED
            BY <1>5, <3>1
<1>9. TakenFrom(Objs, v7', v7, p)
    BY <1>2, <1>5, Removing DEF p
<1>10. Live'
    <2>1. /\ Len(v7') = Len(v7) - 1
          /\ \A i \in 1..Len(v7) - 1 : v7'[i] = IF i < p THEN v7[i] ELSE v7[i + 1]
        BY <1>9 DEF TakenFrom
    <2>2. ASSUME NEW i \in 1..Len(v7) - 1
          PROVE  \E n \in 1..Len(v7) : v7'[i] = v7[n] /\ n # p /\ n = IF i < p THEN i ELSE i + 1
        <3>1. CASE i < p
            BY <1>2, <1>3, <2>1, <3>1
        <3>2. CASE i >= p
            BY <1>2, <1>3, <2>1, <3>2
        <3> QED
            BY <1>2, <1>3, <3>1, <3>2
    <2>3. ASSUME NEW i \in 1..Len(v7) - 1 PROVE v7'[i] \in Proven!objs'
        BY <1>7, <2>2
    <2>4. ASSUME NEW i \in 1..Len(v7) - 1, NEW j \in 1..Len(v7) - 1, v7'[i] = v7'[j] PROVE i = j
        <3>1. PICK n \in 1..Len(v7) : v7'[i] = v7[n] /\ n # p /\ n = IF i < p THEN i ELSE i + 1
            BY <2>2
        <3>2. PICK m \in 1..Len(v7) : v7'[j] = v7[m] /\ m # p /\ m = IF j < p THEN j ELSE j + 1
            BY <2>2
        <3>3. n = m
            BY <2>4, <3>1, <3>2 DEF Live
        <3> QED
            BY <1>2, <1>3, <3>1, <3>2, <3>3
    <2> QED
        BY <2>1, <2>3, <2>4 DEF Live
<1>11. v1' = TRUE
    BY DEF Proven!dpl_remove_at_index, Proven!IInv, Proven!TypeOK
<1> QED
    BY <1>8, <1>10, <1>11 DEF Listing, Present

(* Every call does to the list what is promised, whatever the nodes are.   *)
LEMMA CallDone ==
    ASSUME Proven!IInv, Live, NEW call, NEW m, Right(call, Listing, m), Tests!Call(call)
    PROVE  Proven!IInv' /\ Live' /\ Listing' = m
<1>1. /\ v7 \in Seq(Objs) /\ v1 \in BOOLEAN /\ (~v1 => v7 = << >>)
      /\ Proven!dpl_size = Len(v7) /\ (v2 = NULL <=> v7 = << >>)
    BY ListOf
<1>2. /\ Listing.contents = KeysOf(v4, v7) /\ Listing.exists = v1
      /\ Len(KeysOf(v4, v7)) = Len(v7) /\ (KeysOf(v4, v7) = << >> <=> v7 = << >>)
      /\ \A i \in 1..Len(v7) : KeysOf(v4, v7)[i] = v4[v7[i]]
    BY KeysOfList
<1>3. ASSUME UNCHANGED <<v1, v2, v3, v4, v5, v6, v7>>
      PROVE  Proven!IInv' /\ Live' /\ Listing' = Listing
    <2>1. Proven!IInv'
        BY <1>3, ListConstants, Proven!OthersKeep DEF Proven!vars, Proven!Others
    <2> QED
        BY <1>3, <2>1 DEF Listing, KeysOf, Live, Proven!objs
<1>4. CASE call.op = "create"
    <2>1. Proven!dpl_create /\ m = Present(<< >>) /\ ~v1
        BY <1>2, <1>4, SameCalls DEF Tests!Call, Tests!dpl_create, Right
    <2>2. v1' = TRUE /\ v7' = << >> /\ v4' = v4
        BY <1>1, <2>1 DEF Proven!dpl_create
    <2>3. Listing' = m /\ Live'
        BY <2>1, <2>2, EmptyListing DEF Present
    <2> QED
        BY <2>1, <2>3, ListConstants, Proven!OthersKeep DEF Proven!Others
<1>5. CASE call.op = "insert"
    <2>1. /\ call.key \in Keys /\ call.index \in Int /\ call.copy \in BOOLEAN
        BY <1>5, ListConstants DEF Calls, Queries, Right
    <2>2. /\ v1 /\ m = Present(Inserted(KeysOf(v4, v7), call.key, call.index))
          /\ call.copy \/ \A i \in 1..Len(v7) : v4[v7[i]] # call.key
        BY <1>2, <1>5 DEF Right
    <2>3. Proven!dpl_insert_at_index(call.key, call.index, call.copy)
        BY <1>5, <2>2, SameCalls DEF Tests!Call, Tests!dpl_insert_at_index
    <2>4. Live' /\ Listing' = m
        BY <2>1, <2>2, <2>3, InsertKeeps
    <2> QED
        BY <2>1, <2>3, <2>4, ListConstants, Proven!Insertion
<1>6. CASE call.op = "remove"
    <2>1. call.index \in Int /\ call.free \in BOOLEAN
        BY <1>6 DEF Calls, Queries, Right
    <2>2. /\ v1 /\ (Len(v7) = 1 => call.index <= 0)
          /\ m = IF v7 = << >> THEN Listing ELSE Present(Removed(KeysOf(v4, v7), call.index))
        BY <1>2, <1>6 DEF Right
    <2>3. IF v2 = NULL THEN UNCHANGED <<v1, v2, v3, v4, v5, v6, v7>>
          ELSE Proven!dpl_remove_at_index(call.index, call.free)
        BY <1>6, SameCalls DEF Tests!Call, Tests!dpl_remove_at_index, Tests!vars
    <2>4. CASE v2 = NULL
        BY <1>1, <1>3, <2>2, <2>3, <2>4
    <2>5. CASE v2 # NULL
        <3>1. Live' /\ Listing' = m
            BY <1>1, <2>1, <2>2, <2>3, <2>5, RemoveKeeps
        <3>2. Proven!IInv'
            BY <1>1, <2>1, <2>2, <2>3, <2>5, ListConstants, Proven!Removal
        <3> QED
            BY <3>1, <3>2
    <2> QED
        BY <2>4, <2>5
<1>7. CASE call.op = "free"
    <2>1. call.free \in BOOLEAN
        BY <1>7 DEF Calls, Queries, Right
    <2>2. /\ m = Absent
          /\ IF v1 THEN Proven!dpl_free(call.free) ELSE UNCHANGED <<v1, v2, v3, v4, v5, v6, v7>>
        BY <1>7, SameCalls DEF Tests!Call, Tests!dpl_free, Right, Tests!vars
    <2>3. CASE v1
        <3>1. v1' = FALSE /\ v7' = << >>
            BY <2>2, <2>3 DEF Proven!dpl_free
        <3>2. Listing' = m /\ Live'
            BY <2>2, <3>1, EmptyListing DEF Absent
        <3> QED
            BY <2>1, <2>2, <2>3, <3>2, ListConstants, Proven!Freeing
    <2>4. CASE ~v1
        <3>1. Listing = m
            BY <1>1, <2>2, <2>4, NoKeys DEF Listing, Absent
        <3> QED
            BY <1>3, <2>2, <2>4, <3>1
    <2> QED
        BY <2>3, <2>4
<1>8. CASE call.op \in {"make", "release"}
    <2>1. call.key \in 1..13
        BY <1>8 DEF Calls, Queries, Right
    <2>2. /\ m = Listing
          /\ call.op = "release" => \A i \in 1..Len(v7) : v4[v7[i]] # call.key
        BY <1>2, <1>8 DEF Right
    <2>3. \/ Proven!CallerMakes(call.key)
          \/ /\ call.op = "release"
             /\ \E e \in v5 : v4[e] = call.key /\ Proven!CallerFrees(e)
        BY <1>8, SameCalls DEF Tests!Call
    <2> QED
        BY <2>1, <2>2, <2>3, CallerDone, CallerKeeps
<1>9. CASE call.op \in {"size", "at", "ref", "indexOf", "isList", "foreign"}
    <2>1. UNCHANGED <<v1, v2, v3, v4, v5, v6, v7>>
        BY <1>9 DEF Tests!Call, Tests!vars
    <2>2. m = Listing
        BY <1>9 DEF Right
    <2> QED
        BY <1>3, <2>1, <2>2
<1> QED
    BY <1>4, <1>5, <1>6, <1>7, <1>8, <1>9 DEF Calls, Queries, Right

(* Every query answers what is asserted.                                   *)
LEMMA AnswerIsRight ==
    ASSUME Proven!IInv, Live, NEW call \in Queries, NEW m, Right(call, Listing, m)
    PROVE  Tests!Answer(call) = call.expect
<1>1. PICK chain \in [1..Len(v7) -> Nodes] : Proven!IsChain(chain)
    BY DEF Proven!IInv, Proven!Size
<1>2. /\ v7 \in Seq(Objs) /\ v1 \in BOOLEAN /\ (~v1 => v7 = << >>) /\ Len(v7) \in Nat
      /\ Proven!dpl_size = Len(v7) /\ (v2 = NULL <=> v7 = << >>)
      /\ Proven!TypeOK /\ Proven!Size = Len(v7)
    BY ListOf DEF Proven!IInv, Proven!Size
<1> DEFINE keys == KeysOf(v4, v7)
<1>0. /\ Listing.contents = keys /\ Listing.exists = v1 /\ Len(keys) = Len(v7)
      /\ keys \in Seq(Keys) /\ (keys = << >> <=> v7 = << >>)
      /\ \A i \in 1..Len(v7) : keys[i] = v4[v7[i]]
    BY KeysOfList
<1> HIDE DEF keys
<1>3. ASSUME NEW index \in Int, v2 # NULL
      PROVE  /\ Tests!KeyOf(v3[Proven!dpl_get_reference_at_index(index)].element)
                    = Found(keys, index)
             /\ Proven!dpl_get_reference_at_index(index) \in Proven!nodes
             /\ Proven!dpl_get_reference_at_index(index) # NULL
    <2> DEFINE p == Proven!PlaceOf(index)
    <2>1. p \in 1..Len(v7) /\ Proven!dpl_get_reference_at_index(index) = chain[p]
        BY <1>1, <1>2, <1>3, ListConstants, Proven!ReferenceAtIndex
    <2>2. Found(keys, index) = keys[p]
        BY <1>0, <1>2, <1>3 DEF Found, Proven!PlaceOf, Proven!Size
    <2> HIDE DEF p
    <2>3. v4[v3[chain[p]].element] = keys[p] /\ chain[p] \in Proven!nodes
        BY <1>0, <1>1, <1>2, <2>1 DEF Proven!IsChain
    <2>4. v3[chain[p]].element # NULL /\ chain[p] # NULL
        BY <1>1, <1>2, <2>1, <2>3, ListConstants DEF Proven!TypeOK
    <2> QED
        BY <2>1, <2>2, <2>3, <2>4 DEF Tests!KeyOf
<1>4. CASE call.op = "size"
    BY <1>0, <1>2, <1>4, SameWalks DEF Tests!Answer, Tests!dpl_size, Right
<1>5. CASE call.op = "at"
    <2>1. call.index \in Int /\ call.expect = Found(keys, call.index)
        BY <1>0, <1>5 DEF Queries, Right
    <2>2. Tests!Answer(call) = Tests!KeyOf(Tests!List!dpl_get_element_at_index(call.index))
        BY <1>5 DEF Tests!Answer, Tests!dpl_get_element_at_index
    <2>3. CASE v2 = NULL
        BY <1>0, <1>2, <2>1, <2>2, <2>3
           DEF Tests!KeyOf, Tests!List!dpl_get_element_at_index, Found
    <2>4. CASE v2 # NULL
        BY <1>3, <2>1, <2>2, <2>4, SameWalks DEF Tests!List!dpl_get_element_at_index
    <2> QED
        BY <2>3, <2>4
<1>6. CASE call.op = "ref"
    <2> DEFINE ref == Proven!dpl_get_reference_at_index(call.index)
    <2>1. call.index \in Int /\ call.expect = Found(keys, call.index)
        BY <1>0, <1>6 DEF Queries, Right
    <2>2. Tests!Answer(call) =
              IF ref = NULL THEN 0 ELSE Tests!KeyOf(Proven!dpl_get_element_at_reference(ref))
        BY <1>6, SameWalks DEF Tests!Answer, Tests!dpl_get_element_at_reference,
                               Tests!dpl_get_reference_at_index
    <2>3. CASE v2 = NULL
        BY <1>0, <1>2, <2>1, <2>2, <2>3 DEF Proven!dpl_get_reference_at_index, Found
    <2>4. CASE v2 # NULL
        <3>1. Proven!dpl_get_element_at_reference(ref) = v3[ref].element
            BY <1>1, <1>2, <1>3, <2>1, <2>4, ListConstants, Proven!ElementAtReference
        <3> QED
            BY <1>3, <2>1, <2>2, <2>4, <3>1
    <2> QED
        BY <2>3, <2>4
<1>7. CASE call.op = "indexOf"
    <2>1. call.key \in Keys /\ call.expect \in Int /\ FirstPlace(keys, call.key, call.expect)
        BY <1>0, <1>7, ListConstants DEF Queries, Right
    <2> DEFINE places == {i \in 1..Len(v7) : keys[i] = call.key}
               found  == Proven!dpl_get_index_of_element(call.key)
    <2>2. Tests!Answer(call) = IF v2 = NULL THEN -1 ELSE found
        BY <1>7, SameSearch DEF Tests!Answer, Tests!dpl_get_index_of_element
    <2>3. IF places = {} THEN found = -1
          ELSE found \in Int /\ found + 1 \in places /\ \A i \in places : found < i
        <3>1. places = {i \in 1..Proven!Size : v4[v7[i]] = call.key}
            BY <1>0, <1>2
        <3> HIDE DEF places
        <3> QED
            BY <1>1, <1>2, <2>1, <3>1, ListConstants, Proven!IndexOfElement
    <2> HIDE DEF found
    <2>4. CASE call.expect = -1 /\ \A i \in 1..Len(v7) : keys[i] # call.key
        BY <2>2, <2>3, <2>4
    <2>5. CASE /\ call.expect \in 0..Len(v7) - 1 /\ keys[call.expect + 1] = call.key
               /\ \A i \in 1..call.expect : keys[i] # call.key
        <3>1. call.expect + 1 \in places
            BY <1>2, <2>5
        <3>2. /\ found \in Int /\ found + 1 \in 1..Len(v7)
              /\ keys[found + 1] = call.key /\ found < call.expect + 1
            BY <2>3, <3>1
        <3>3. v2 # NULL
            BY <1>2, <2>5
        <3>4. ~(found + 1 \in 1..call.expect)
            BY <2>5, <3>2
        <3> QED
            BY <1>2, <2>1, <2>2, <3>2, <3>3, <3>4
    <2> QED
        BY <1>0, <2>1, <2>4, <2>5 DEF FirstPlace
<1>8. CASE call.op = "isList"
    BY <1>0, <1>8 DEF Tests!Answer, Right
<1>9. CASE call.op = "foreign"
    BY <1>9 DEF Tests!Answer, Tests!dpl_get_element_at_reference, Queries
<1> QED
    BY <1>4, <1>5, <1>6, <1>7, <1>8, <1>9 DEF Queries
-----------------------------------------------------------------------------
(* Calls one after the other: at tells what the caller knows after each.   *)

Played(calls, at) ==
    /\ calls \in Seq(Calls)
    /\ \A i \in 1..Len(calls) : Right(calls[i], at[i], at[i + 1])

Plays(calls, l, m) == \E at : Played(calls, at) /\ at[1] = l /\ at[Len(calls) + 1] = m

LEMMA PlaysBoth ==
    ASSUME NEW a, NEW b, NEW l, NEW m, NEW n, Plays(a, l, m), Plays(b, m, n)
    PROVE  Plays(a \o b, l, n)
<1>1. PICK f : Played(a, f) /\ f[1] = l /\ f[Len(a) + 1] = m
    BY DEF Plays
<1>2. PICK g : Played(b, g) /\ g[1] = m /\ g[Len(b) + 1] = n
    BY DEF Plays
<1>3. /\ a \in Seq(Calls) /\ b \in Seq(Calls) /\ Len(a) \in Nat /\ Len(b) \in Nat
      /\ a \o b \in Seq(Calls) /\ Len(a \o b) = Len(a) + Len(b)
      /\ \A i \in 1..Len(a) + Len(b) : (a \o b)[i] = IF i <= Len(a) THEN a[i] ELSE b[i - Len(a)]
    BY <1>1, <1>2, ConcatProperties DEF Played
<1> DEFINE at == [i \in 1..Len(a) + Len(b) + 1 |-> IF i <= Len(a) THEN f[i] ELSE g[i - Len(a)]]
<1>4. \A i \in 1..Len(a) + 1 : at[i] = f[i]
    BY <1>1, <1>2, <1>3
<1>5. \A i \in 1..Len(b) + 1 : at[Len(a) + i] = g[i]
    BY <1>3
<1> HIDE DEF at
<1>6. ASSUME NEW i \in 1..Len(a) + Len(b) PROVE Right((a \o b)[i], at[i], at[i + 1])
    <2>1. CASE i <= Len(a)
        <3>1. i \in 1..Len(a) /\ i \in 1..Len(a) + 1 /\ i + 1 \in 1..Len(a) + 1
            BY <1>3, <2>1
        <3> QED
            BY <1>1, <1>3, <1>4, <2>1, <3>1 DEF Played
    <2>2. CASE i > Len(a)
        <3>1. PICK j \in 1..Len(b) : i = Len(a) + j
            BY <1>3, <2>2
        <3>2. (a \o b)[i] = b[j] /\ at[i] = g[j]
            <4>1. j \in 1..Len(b) + 1 /\ i - Len(a) = j /\ ~(i <= Len(a))
                BY <1>3, <2>2, <3>1
            <4> QED
                BY <1>3, <1>5, <3>1, <4>1
        <3>3. at[i + 1] = g[j + 1]
            <4>1. j + 1 \in 1..Len(b) + 1 /\ i + 1 = Len(a) + (j + 1)
                BY <1>3, <3>1
            <4> QED
                BY <1>5, <4>1
        <3> QED
            BY <1>2, <3>1, <3>2, <3>3 DEF Played
    <2> QED
        BY <1>3, <2>1, <2>2
<1>7. at[1] = l /\ at[Len(a \o b) + 1] = n
    <2>1. 1 \in 1..Len(a) + 1 /\ Len(b) + 1 \in 1..Len(b) + 1
        BY <1>3
    <2>2. Len(a \o b) + 1 = Len(a) + (Len(b) + 1)
        BY <1>3
    <2> QED
        BY <1>1, <1>2, <1>4, <1>5, <2>1, <2>2
<1> QED
    BY <1>3, <1>6, <1>7 DEF Plays, Played

(* The calls of the tests, on a list that is named by its elements.        *)
Ids == 1..13

LEMMA CreateIsRight == Right(Tests!Create, Absent, Present(<< >>))
    BY DEF Right, Calls, Tests!Create, Absent, Present

LEMMA FreeIsRight == \A l : \A f \in BOOLEAN : Right(Tests!Free(f), l, Absent)
    BY DEF Right, Calls, Tests!Free

LEMMA IsListIsRight ==
    /\ Right(Tests!IsList(FALSE), Absent, Absent)
    /\ \A s : Right(Tests!IsList(TRUE), Present(s), Present(s))
    BY DEF Right, Calls, Queries, Tests!IsList, Absent, Present

LEMMA InsertIsRight ==
    \A k \in Ids, index \in Int : \A s, t :
        t = Inserted(s, k, index) => Right(Tests!Insert(k, index), Present(s), Present(t))
    BY DEF Right, Calls, Tests!Insert, Present, Ids

LEMMA DeleteIsRight ==
    \A index \in Int, f \in BOOLEAN :
        /\ \A s, t : s # << >> /\ (Len(s) = 1 => index <= 0) /\ t = Removed(s, index)
                       => Right(Tests!Delete(index, f), Present(s), Present(t))
        /\ Right(Tests!Delete(index, f), Present(<< >>), Present(<< >>))
<1>1. ASSUME NEW index \in Int, NEW f \in BOOLEAN
      PROVE  Tests!Delete(index, f) \in Calls
    BY DEF Calls, Tests!Delete
<1>2. ASSUME NEW index \in Int, NEW f \in BOOLEAN
      PROVE  Right(Tests!Delete(index, f), Present(<< >>), Present(<< >>))
    <2>1. Len(<< >>) = 0
        OBVIOUS
    <2> QED
        BY <1>1, <2>1 DEF Right, Tests!Delete, Present
<1>3. ASSUME NEW index \in Int, NEW f \in BOOLEAN, NEW s, s # << >>, Len(s) = 1 => index <= 0
      PROVE  Right(Tests!Delete(index, f), Present(s), Present(Removed(s, index)))
    BY <1>1, <1>3 DEF Right, Tests!Delete, Present
<1> QED
    BY <1>2, <1>3

LEMMA MakeIsRight == \A k \in Ids : \A l : Right(Tests!Make(k), l, l)
    BY DEF Right, Calls, Tests!Make, Ids

LEMMA ReleaseIsRight == \A k \in Ids : Right(Tests!Release(k), Absent, Absent)
    BY DEF Right, Calls, Tests!Release, Ids, Absent

(* An insertion by reference does what one of a copy does, if its key is   *)
(* not listed.                                                             *)
LEMMA ReferenceIsRight ==
    ASSUME NEW k \in Ids, NEW index \in Int, NEW s, NEW m,
           Right(Tests!Insert(k, index), Present(s), m), \A i \in 1..Len(s) : s[i] # k
    PROVE  Right(Tests!InsertRef(k, index), Present(s), m)
<1>1. Tests!InsertRef(k, index) \in Calls
    BY DEF Calls, Tests!InsertRef, Ids
<1>2. m = Present(Inserted(s, k, index))
    BY DEF Right, Tests!Insert, Present
<1> QED
    BY <1>1, <1>2 DEF Right, Tests!InsertRef, Present

LEMMA SizeIsRight ==
    \A n \in Int : \A s : n = Len(s) => Right(Tests!Size(n), Present(s), Present(s))
    BY DEF Right, Calls, Queries, Tests!Size, Present

LEMMA AtIsRight ==
    \A index, k \in Int : \A s : k = Found(s, index) =>
        Right(Tests!At(index, k), Present(s), Present(s))
          /\ Right(Tests!RefAt(index, k), Present(s), Present(s))
    BY DEF Right, Calls, Queries, Tests!At, Tests!RefAt, Present

LEMMA IndexOfIsRight ==
    \A k \in Ids, n \in Int :
        /\ \A s : FirstPlace(s, k, n) => Right(Tests!IndexOf(k, n), Present(s), Present(s))
        /\ Right(Tests!IndexOf(k, -1), Absent, Absent)
    BY DEF Right, Calls, Queries, Tests!IndexOf, Present, Absent, FirstPlace, Ids

LEMMA ForeignIsRight == \A s : Right(Tests!ForeignRef, Present(s), Present(s))
    BY DEF Right, Calls, Queries, Tests!ForeignRef

LEMMA TupleIs ==
    ASSUME NEW s \in Seq(Ids)
    PROVE  /\ Len(s) = 0 => s = << >>
           /\ Len(s) = 1 => s = <<s[1]>>
           /\ Len(s) = 2 => s = <<s[1], s[2]>>
           /\ Len(s) = 3 => s = <<s[1], s[2], s[3]>>
           /\ Len(s) = 4 => s = <<s[1], s[2], s[3], s[4]>>
    OBVIOUS

(* The lists as tuples.                                                    *)
LEMMA Tuples ==
    ASSUME NEW a \in Ids, NEW b \in Ids, NEW c \in Ids, NEW d \in Ids
    PROVE  /\ << >> \in Seq(Ids) /\ Len(<< >>) = 0
           /\ <<a>> \in Seq(Ids) /\ Len(<<a>>) = 1
           /\ <<a, b>> \in Seq(Ids) /\ Len(<<a, b>>) = 2
           /\ <<a, b, c>> \in Seq(Ids) /\ Len(<<a, b, c>>) = 3
           /\ <<a, b, c, d>> \in Seq(Ids) /\ Len(<<a, b, c, d>>) = 4
    OBVIOUS

LEMMA Insertions ==
    /\ \A k \in Ids, index \in Int :
          Right(Tests!Insert(k, index), Present(<< >>), Present(<<k>>))
    /\ \A k, a \in Ids, index \in Int :
          index <= 0 => Right(Tests!Insert(k, index), Present(<<a>>), Present(<<k, a>>))
    /\ \A k, a \in Ids, index \in Int :
          index >= 1 => Right(Tests!Insert(k, index), Present(<<a>>), Present(<<a, k>>))
    /\ \A k, a, b \in Ids, index \in Int :
          index = 1 => Right(Tests!Insert(k, index), Present(<<a, b>>), Present(<<a, k, b>>))
    /\ \A k, a, b \in Ids, index \in Int :
          index >= 2 => Right(Tests!Insert(k, index), Present(<<a, b>>), Present(<<a, b, k>>))
    /\ \A k, a, b, c \in Ids, index \in Int :
          index = 2 =>
              Right(Tests!Insert(k, index), Present(<<a, b, c>>), Present(<<a, b, k, c>>))
    /\ \A k, a, b, c \in Ids, index \in Int :
          index >= 3 =>
              Right(Tests!Insert(k, index), Present(<<a, b, c>>), Present(<<a, b, c, k>>))
<1>1. ASSUME NEW k \in Ids, NEW index \in Int
      PROVE  Right(Tests!Insert(k, index), Present(<< >>), Present(<<k>>))
    <2> DEFINE t == Inserted(<< >>, k, index)
    <2>1. PutIn(Ids, t, << >>, k, PutPlace(<< >>, index))
        BY Tuples, Inserting
    <2>2. PutPlace(<< >>, index) = 1
        BY Tuples DEF PutPlace
    <2> HIDE DEF t
    <2>3. t \in Seq(Ids) /\ Len(t) = 1 /\ t[1] = k
        BY <2>1, <2>2, Tuples DEF PutIn
    <2>4. t = <<k>>
        BY <2>3, TupleIs
    <2> QED
        BY <2>4, InsertIsRight DEF t
<1>2. ASSUME NEW k \in Ids, NEW a \in Ids, NEW index \in Int, index <= 0
      PROVE  Right(Tests!Insert(k, index), Present(<<a>>), Present(<<k, a>>))
    <2> DEFINE t == Inserted(<<a>>, k, index)
    <2>1. PutIn(Ids, t, <<a>>, k, PutPlace(<<a>>, index))
        BY Tuples, Inserting
    <2>2. PutPlace(<<a>>, index) = 1
        BY <1>2, Tuples DEF PutPlace
    <2> HIDE DEF t
    <2>3. t \in Seq(Ids) /\ Len(t) = 2 /\ t[1] = k /\ t[2] = a
        BY <2>1, <2>2, Tuples DEF PutIn
    <2>4. t = <<k, a>>
        BY <2>3, TupleIs
    <2> QED
        BY <2>4, InsertIsRight DEF t
<1>3. ASSUME NEW k \in Ids, NEW a \in Ids, NEW index \in Int, index >= 1
      PROVE  Right(Tests!Insert(k, index), Present(<<a>>), Present(<<a, k>>))
    <2> DEFINE t == Inserted(<<a>>, k, index)
    <2>1. PutIn(Ids, t, <<a>>, k, PutPlace(<<a>>, index))
        BY Tuples, Inserting
    <2>2. PutPlace(<<a>>, index) = 2
        BY <1>3, Tuples DEF PutPlace
    <2> HIDE DEF t
    <2>3. t \in Seq(Ids) /\ Len(t) = 2 /\ t[1] = a /\ t[2] = k
        BY <2>1, <2>2, Tuples DEF PutIn
    <2>4. t = <<a, k>>
        BY <2>3, TupleIs
    <2> QED
        BY <2>4, InsertIsRight DEF t
<1>4. ASSUME NEW k \in Ids, NEW a \in Ids, NEW b \in Ids, NEW index \in Int, index = 1
      PROVE  Right(Tests!Insert(k, index), Present(<<a, b>>), Present(<<a, k, b>>))
    <2> DEFINE t == Inserted(<<a, b>>, k, index)
    <2>1. PutIn(Ids, t, <<a, b>>, k, PutPlace(<<a, b>>, index))
        BY Tuples, Inserting
    <2>2. PutPlace(<<a, b>>, index) = 2
        BY <1>4, Tuples DEF PutPlace
    <2> HIDE DEF t
    <2>3. t \in Seq(Ids) /\ Len(t) = 3 /\ t[1] = a /\ t[2] = k /\ t[3] = b
        BY <2>1, <2>2, Tuples DEF PutIn
    <2>4. t = <<a, k, b>>
        BY <2>3, TupleIs
    <2> QED
        BY <2>4, InsertIsRight DEF t
<1>5. ASSUME NEW k \in Ids, NEW a \in Ids, NEW b \in Ids, NEW index \in Int, index >= 2
      PROVE  Right(Tests!Insert(k, index), Present(<<a, b>>), Present(<<a, b, k>>))
    <2> DEFINE t == Inserted(<<a, b>>, k, index)
    <2>1. PutIn(Ids, t, <<a, b>>, k, PutPlace(<<a, b>>, index))
        BY Tuples, Inserting
    <2>2. PutPlace(<<a, b>>, index) = 3
        BY <1>5, Tuples DEF PutPlace
    <2> HIDE DEF t
    <2>3. t \in Seq(Ids) /\ Len(t) = 3 /\ t[1] = a /\ t[2] = b /\ t[3] = k
        BY <2>1, <2>2, Tuples DEF PutIn
    <2>4. t = <<a, b, k>>
        BY <2>3, TupleIs
    <2> QED
        BY <2>4, InsertIsRight DEF t
<1>6. ASSUME NEW k \in Ids, NEW a \in Ids, NEW b \in Ids, NEW c \in Ids, NEW index \in Int,
             index = 2
      PROVE  Right(Tests!Insert(k, index), Present(<<a, b, c>>), Present(<<a, b, k, c>>))
    <2> DEFINE t == Inserted(<<a, b, c>>, k, index)
    <2>1. PutIn(Ids, t, <<a, b, c>>, k, PutPlace(<<a, b, c>>, index))
        BY Tuples, Inserting
    <2>2. PutPlace(<<a, b, c>>, index) = 3
        BY <1>6, Tuples DEF PutPlace
    <2> HIDE DEF t
    <2>3. t \in Seq(Ids) /\ Len(t) = 4 /\ t[1] = a /\ t[2] = b /\ t[3] = k /\ t[4] = c
        BY <2>1, <2>2, Tuples DEF PutIn
    <2>4. t = <<a, b, k, c>>
        BY <2>3, TupleIs
    <2> QED
        BY <2>4, InsertIsRight DEF t
<1>7. ASSUME NEW k \in Ids, NEW a \in Ids, NEW b \in Ids, NEW c \in Ids, NEW index \in Int,
             index >= 3
      PROVE  Right(Tests!Insert(k, index), Present(<<a, b, c>>), Present(<<a, b, c, k>>))
    <2> DEFINE t == Inserted(<<a, b, c>>, k, index)
    <2>1. PutIn(Ids, t, <<a, b, c>>, k, PutPlace(<<a, b, c>>, index))
        BY Tuples, Inserting
    <2>2. PutPlace(<<a, b, c>>, index) = 4
        BY <1>7, Tuples DEF PutPlace
    <2> HIDE DEF t
    <2>3. t \in Seq(Ids) /\ Len(t) = 4 /\ t[1] = a /\ t[2] = b /\ t[3] = c /\ t[4] = k
        BY <2>1, <2>2, Tuples DEF PutIn
    <2>4. t = <<a, b, c, k>>
        BY <2>3, TupleIs
    <2> QED
        BY <2>4, InsertIsRight DEF t
<1> QED
    BY <1>1, <1>2, <1>3, <1>4, <1>5, <1>6, <1>7

LEMMA References ==
    /\ \A k \in Ids, index \in Int :
          Right(Tests!InsertRef(k, index), Present(<< >>), Present(<<k>>))
    /\ \A k, a \in Ids, index \in Int : index >= 1 /\ k # a =>
          Right(Tests!InsertRef(k, index), Present(<<a>>), Present(<<a, k>>))
    /\ \A k, a, b \in Ids, index \in Int : index = 1 /\ k # a /\ k # b =>
          Right(Tests!InsertRef(k, index), Present(<<a, b>>), Present(<<a, k, b>>))
<1>1. ASSUME NEW k \in Ids, NEW index \in Int
      PROVE  Right(Tests!InsertRef(k, index), Present(<< >>), Present(<<k>>))
    <2>1. Right(Tests!Insert(k, index), Present(<< >>), Present(<<k>>))
        BY Insertions
    <2>2. \A i \in 1..Len(<< >>) : << >>[i] # k
        OBVIOUS
    <2> QED
        BY <2>1, <2>2, ReferenceIsRight, Zenon
<1>2. ASSUME NEW k \in Ids, NEW a \in Ids, NEW index \in Int, index >= 1, k # a
      PROVE  Right(Tests!InsertRef(k, index), Present(<<a>>), Present(<<a, k>>))
    <2>1. Right(Tests!Insert(k, index), Present(<<a>>), Present(<<a, k>>))
        BY <1>2, Insertions
    <2>2. \A i \in 1..Len(<<a>>) : <<a>>[i] # k
        BY <1>2
    <2> QED
        BY <2>1, <2>2, ReferenceIsRight, Zenon
<1>3. ASSUME NEW k \in Ids, NEW a \in Ids, NEW b \in Ids, NEW index \in Int, index = 1,
             k # a, k # b
      PROVE  Right(Tests!InsertRef(k, index), Present(<<a, b>>), Present(<<a, k, b>>))
    <2>1. Right(Tests!Insert(k, index), Present(<<a, b>>), Present(<<a, k, b>>))
        BY <1>3, Insertions
    <2>2. \A i \in 1..Len(<<a, b>>) : <<a, b>>[i] # k
        BY <1>3
    <2> QED
        BY <2>1, <2>2, ReferenceIsRight, Zenon
<1> QED
    BY <1>1, <1>2, <1>3

LEMMA Deletions ==
    /\ \A index \in Int, f \in BOOLEAN :
          Right(Tests!Delete(index, f), Present(<< >>), Present(<< >>))
    /\ \A a \in Ids, index \in Int, f \in BOOLEAN :
          index <= 0 => Right(Tests!Delete(index, f), Present(<<a>>), Present(<< >>))
    /\ \A a, b \in Ids, index \in Int, f \in BOOLEAN :
          index <= 0 => Right(Tests!Delete(index, f), Present(<<a, b>>), Present(<<b>>))
    /\ \A a, b, c \in Ids, index \in Int, f \in BOOLEAN :
          index <= 0 => Right(Tests!Delete(index, f), Present(<<a, b, c>>), Present(<<b, c>>))
    /\ \A a, b, c, d \in Ids, index \in Int, f \in BOOLEAN :
          index <= 0 =>
              Right(Tests!Delete(index, f), Present(<<a, b, c, d>>), Present(<<b, c, d>>))
    /\ \A a, b, c \in Ids, index \in Int, f \in BOOLEAN :
          index = 1 => Right(Tests!Delete(index, f), Present(<<a, b, c>>), Present(<<a, c>>))
    /\ \A a, b \in Ids, index \in Int, f \in BOOLEAN :
          index >= 2 => Right(Tests!Delete(index, f), Present(<<a, b>>), Present(<<a>>))
<1>1. ASSUME NEW a \in Ids, NEW index \in Int, NEW f \in BOOLEAN, index <= 0
      PROVE  Right(Tests!Delete(index, f), Present(<<a>>), Present(<< >>))
    <2> DEFINE t == Removed(<<a>>, index)
    <2>0. <<a>> # << >>
        BY Tuples
    <2>1. TakenFrom(Ids, t, <<a>>, TakePlace(<<a>>, index))
        BY <2>0, Tuples, Removing
    <2>2. TakePlace(<<a>>, index) = 1 /\ (Len(<<a>>) = 1 => index <= 0)
        BY <1>1, Tuples DEF TakePlace
    <2> HIDE DEF t
    <2>3. t \in Seq(Ids) /\ Len(t) = 0
        BY <2>1, <2>2, Tuples DEF TakenFrom
    <2>4. t = << >>
        BY <2>3, TupleIs
    <2> QED
        BY <2>0, <2>2, <2>4, DeleteIsRight DEF t
<1>2. ASSUME NEW a \in Ids, NEW b \in Ids, NEW index \in Int, NEW f \in BOOLEAN, index <= 0
      PROVE  Right(Tests!Delete(index, f), Present(<<a, b>>), Present(<<b>>))
    <2> DEFINE t == Removed(<<a, b>>, index)
    <2>0. <<a, b>> # << >>
        BY Tuples
    <2>1. TakenFrom(Ids, t, <<a, b>>, TakePlace(<<a, b>>, index))
        BY <2>0, Tuples, Removing
    <2>2. TakePlace(<<a, b>>, index) = 1 /\ (Len(<<a, b>>) = 1 => index <= 0)
        BY <1>2, Tuples DEF TakePlace
    <2> HIDE DEF t
    <2>3. t \in Seq(Ids) /\ Len(t) = 1 /\ t[1] = b
        BY <2>1, <2>2, Tuples DEF TakenFrom
    <2>4. t = <<b>>
        BY <2>3, TupleIs
    <2> QED
        BY <2>0, <2>2, <2>4, DeleteIsRight DEF t
<1>3. ASSUME NEW a \in Ids, NEW b \in Ids, NEW c \in Ids, NEW index \in Int, NEW f \in BOOLEAN,
             index <= 0
      PROVE  Right(Tests!Delete(index, f), Present(<<a, b, c>>), Present(<<b, c>>))
    <2> DEFINE t == Removed(<<a, b, c>>, index)
    <2>0. <<a, b, c>> # << >>
        BY Tuples
    <2>1. TakenFrom(Ids, t, <<a, b, c>>, TakePlace(<<a, b, c>>, index))
        BY <2>0, Tuples, Removing
    <2>2. TakePlace(<<a, b, c>>, index) = 1 /\ (Len(<<a, b, c>>) = 1 => index <= 0)
        BY <1>3, Tuples DEF TakePlace
    <2> HIDE DEF t
    <2>3. t \in Seq(Ids) /\ Len(t) = 2 /\ t[1] = b /\ t[2] = c
        BY <2>1, <2>2, Tuples DEF TakenFrom
    <2>4. t = <<b, c>>
        BY <2>3, TupleIs
    <2> QED
        BY <2>0, <2>2, <2>4, DeleteIsRight DEF t
<1>4. ASSUME NEW a \in Ids, NEW b \in Ids, NEW c \in Ids, NEW d \in Ids, NEW index \in Int,
             NEW f \in BOOLEAN, index <= 0
      PROVE  Right(Tests!Delete(index, f), Present(<<a, b, c, d>>), Present(<<b, c, d>>))
    <2> DEFINE t == Removed(<<a, b, c, d>>, index)
    <2>0. <<a, b, c, d>> # << >>
        BY Tuples
    <2>1. TakenFrom(Ids, t, <<a, b, c, d>>, TakePlace(<<a, b, c, d>>, index))
        BY <2>0, Tuples, Removing
    <2>2. TakePlace(<<a, b, c, d>>, index) = 1 /\ (Len(<<a, b, c, d>>) = 1 => index <= 0)
        BY <1>4, Tuples DEF TakePlace
    <2> HIDE DEF t
    <2>3. t \in Seq(Ids) /\ Len(t) = 3 /\ t[1] = b /\ t[2] = c /\ t[3] = d
        BY <2>1, <2>2, Tuples DEF TakenFrom
    <2>4. t = <<b, c, d>>
        BY <2>3, TupleIs
    <2> QED
        BY <2>0, <2>2, <2>4, DeleteIsRight DEF t
<1>5. ASSUME NEW a \in Ids, NEW b \in Ids, NEW c \in Ids, NEW index \in Int, NEW f \in BOOLEAN,
             index = 1
      PROVE  Right(Tests!Delete(index, f), Present(<<a, b, c>>), Present(<<a, c>>))
    <2> DEFINE t == Removed(<<a, b, c>>, index)
    <2>0. <<a, b, c>> # << >>
        BY Tuples
    <2>1. TakenFrom(Ids, t, <<a, b, c>>, TakePlace(<<a, b, c>>, index))
        BY <2>0, Tuples, Removing
    <2>2. TakePlace(<<a, b, c>>, index) = 2 /\ (Len(<<a, b, c>>) = 1 => index <= 0)
        BY <1>5, Tuples DEF TakePlace
    <2> HIDE DEF t
    <2>3. t \in Seq(Ids) /\ Len(t) = 2 /\ t[1] = a /\ t[2] = c
        BY <2>1, <2>2, Tuples DEF TakenFrom
    <2>4. t = <<a, c>>
        BY <2>3, TupleIs
    <2> QED
        BY <2>0, <2>2, <2>4, DeleteIsRight DEF t
<1>6. ASSUME NEW a \in Ids, NEW b \in Ids, NEW index \in Int, NEW f \in BOOLEAN, index >= 2
      PROVE  Right(Tests!Delete(index, f), Present(<<a, b>>), Present(<<a>>))
    <2> DEFINE t == Removed(<<a, b>>, index)
    <2>0. <<a, b>> # << >>
        BY Tuples
    <2>1. TakenFrom(Ids, t, <<a, b>>, TakePlace(<<a, b>>, index))
        BY <2>0, Tuples, Removing
    <2>2. TakePlace(<<a, b>>, index) = 2 /\ (Len(<<a, b>>) = 1 => index <= 0)
        BY <1>6, Tuples DEF TakePlace
    <2> HIDE DEF t
    <2>3. t \in Seq(Ids) /\ Len(t) = 1 /\ t[1] = a
        BY <2>1, <2>2, Tuples DEF TakenFrom
    <2>4. t = <<a>>
        BY <2>3, TupleIs
    <2> QED
        BY <2>0, <2>2, <2>4, DeleteIsRight DEF t
<1> QED
    BY <1>1, <1>2, <1>3, <1>4, <1>5, <1>6, DeleteIsRight

(* Calls that are written out, by their number.                            *)
LEMMA PlaysNone == \A l : Plays(<< >>, l, l)
<1>1. ASSUME NEW l PROVE Played(<< >>, <<l>>) /\ <<l>>[1] = l /\ <<l>>[Len(<< >>) + 1] = l
    BY DEF Played
<1> QED
    BY <1>1 DEF Plays

LEMMA Plays1 ==
    ASSUME NEW c1,
           NEW l0, NEW l1,
           Right(c1, l0, l1)
    PROVE  Plays(<<c1>>, l0, l1)
<1> DEFINE calls == <<c1>>
           at    == <<l0, l1>>
<1>1. calls \in Seq(Calls) /\ Len(calls) = 1
    BY DEF Right
<1>2. calls[1] = c1
    OBVIOUS
<1>3. at[1] = l0 /\ at[2] = l1
    OBVIOUS
<1> HIDE DEF calls, at
<1>4. \A i \in 1..1 : Right(calls[i], at[i], at[i + 1])
    BY <1>2, <1>3
<1>5. Plays(calls, l0, l1)
    BY <1>1, <1>3, <1>4 DEF Plays, Played
<1> QED
    BY <1>5 DEF calls

LEMMA Plays2 ==
    ASSUME NEW c1, NEW c2,
           NEW l0, NEW l1, NEW l2,
           Right(c1, l0, l1),
           Right(c2, l1, l2)
    PROVE  Plays(<<c1, c2>>, l0, l2)
<1> DEFINE calls == <<c1, c2>>
           at    == <<l0, l1, l2>>
<1>1. calls \in Seq(Calls) /\ Len(calls) = 2
    BY DEF Right
<1>2. calls[1] = c1 /\ calls[2] = c2
    OBVIOUS
<1>3. at[1] = l0 /\ at[2] = l1 /\ at[3] = l2
    OBVIOUS
<1> HIDE DEF calls, at
<1>4. \A i \in 1..2 : Right(calls[i], at[i], at[i + 1])
    BY <1>2, <1>3
<1>5. Plays(calls, l0, l2)
    BY <1>1, <1>3, <1>4 DEF Plays, Played
<1> QED
    BY <1>5 DEF calls

LEMMA Plays3 ==
    ASSUME NEW c1, NEW c2, NEW c3,
           NEW l0, NEW l1, NEW l2, NEW l3,
           Right(c1, l0, l1),
           Right(c2, l1, l2),
           Right(c3, l2, l3)
    PROVE  Plays(<<c1, c2, c3>>, l0, l3)
<1> DEFINE calls == <<c1, c2, c3>>
           at    == <<l0, l1, l2, l3>>
<1>1. calls \in Seq(Calls) /\ Len(calls) = 3
    BY DEF Right
<1>2. calls[1] = c1 /\ calls[2] = c2 /\ calls[3] = c3
    OBVIOUS
<1>3. at[1] = l0 /\ at[2] = l1 /\ at[3] = l2 /\ at[4] = l3
    OBVIOUS
<1> HIDE DEF calls, at
<1>4. \A i \in 1..3 : Right(calls[i], at[i], at[i + 1])
    BY <1>2, <1>3
<1>5. Plays(calls, l0, l3)
    BY <1>1, <1>3, <1>4 DEF Plays, Played
<1> QED
    BY <1>5 DEF calls

LEMMA Plays4 ==
    ASSUME NEW c1, NEW c2, NEW c3, NEW c4,
           NEW l0, NEW l1, NEW l2, NEW l3, NEW l4,
           Right(c1, l0, l1),
           Right(c2, l1, l2),
           Right(c3, l2, l3),
           Right(c4, l3, l4)
    PROVE  Plays(<<c1, c2, c3, c4>>, l0, l4)
<1> DEFINE calls == <<c1, c2, c3, c4>>
           at    == <<l0, l1, l2, l3, l4>>
<1>1. calls \in Seq(Calls) /\ Len(calls) = 4
    BY DEF Right
<1>2. calls[1] = c1 /\ calls[2] = c2 /\ calls[3] = c3 /\ calls[4] = c4
    OBVIOUS
<1>3. at[1] = l0 /\ at[2] = l1 /\ at[3] = l2 /\ at[4] = l3 /\ at[5] = l4
    OBVIOUS
<1> HIDE DEF calls, at
<1>4. \A i \in 1..4 : Right(calls[i], at[i], at[i + 1])
    BY <1>2, <1>3
<1>5. Plays(calls, l0, l4)
    BY <1>1, <1>3, <1>4 DEF Plays, Played
<1> QED
    BY <1>5 DEF calls

LEMMA Plays5 ==
    ASSUME NEW c1, NEW c2, NEW c3, NEW c4, NEW c5,
           NEW l0, NEW l1, NEW l2, NEW l3, NEW l4, NEW l5,
           Right(c1, l0, l1),
           Right(c2, l1, l2),
           Right(c3, l2, l3),
           Right(c4, l3, l4),
           Right(c5, l4, l5)
    PROVE  Plays(<<c1, c2, c3, c4, c5>>, l0, l5)
<1> DEFINE calls == <<c1, c2, c3, c4, c5>>
           at    == <<l0, l1, l2, l3, l4, l5>>
<1>1. calls \in Seq(Calls) /\ Len(calls) = 5
    BY DEF Right
<1>2. calls[1] = c1 /\ calls[2] = c2 /\ calls[3] = c3 /\ calls[4] = c4 /\ calls[5] = c5
    OBVIOUS
<1>3. at[1] = l0 /\ at[2] = l1 /\ at[3] = l2 /\ at[4] = l3 /\ at[5] = l4 /\ at[6] = l5
    OBVIOUS
<1> HIDE DEF calls, at
<1>4. \A i \in 1..5 : Right(calls[i], at[i], at[i + 1])
    BY <1>2, <1>3
<1>5. Plays(calls, l0, l5)
    BY <1>1, <1>3, <1>4 DEF Plays, Played
<1> QED
    BY <1>5 DEF calls

LEMMA Plays6 ==
    ASSUME NEW c1, NEW c2, NEW c3, NEW c4, NEW c5, NEW c6,
           NEW l0, NEW l1, NEW l2, NEW l3, NEW l4, NEW l5, NEW l6,
           Right(c1, l0, l1),
           Right(c2, l1, l2),
           Right(c3, l2, l3),
           Right(c4, l3, l4),
           Right(c5, l4, l5),
           Right(c6, l5, l6)
    PROVE  Plays(<<c1, c2, c3, c4, c5, c6>>, l0, l6)
<1> DEFINE calls == <<c1, c2, c3, c4, c5, c6>>
           at    == <<l0, l1, l2, l3, l4, l5, l6>>
<1>1. calls \in Seq(Calls) /\ Len(calls) = 6
    BY DEF Right
<1>2. /\ calls[1] = c1 /\ calls[2] = c2 /\ calls[3] = c3 /\ calls[4] = c4 /\ calls[5] = c5
      /\ calls[6] = c6
    OBVIOUS
<1>3. /\ at[1] = l0 /\ at[2] = l1 /\ at[3] = l2 /\ at[4] = l3 /\ at[5] = l4 /\ at[6] = l5
      /\ at[7] = l6
    OBVIOUS
<1> HIDE DEF calls, at
<1>4. \A i \in 1..6 : Right(calls[i], at[i], at[i + 1])
    BY <1>2, <1>3
<1>5. Plays(calls, l0, l6)
    BY <1>1, <1>3, <1>4 DEF Plays, Played
<1> QED
    BY <1>5 DEF calls

LEMMA Plays7 ==
    ASSUME NEW c1, NEW c2, NEW c3, NEW c4, NEW c5, NEW c6, NEW c7,
           NEW l0, NEW l1, NEW l2, NEW l3, NEW l4, NEW l5, NEW l6, NEW l7,
           Right(c1, l0, l1),
           Right(c2, l1, l2),
           Right(c3, l2, l3),
           Right(c4, l3, l4),
           Right(c5, l4, l5),
           Right(c6, l5, l6),
           Right(c7, l6, l7)
    PROVE  Plays(<<c1, c2, c3, c4, c5, c6, c7>>, l0, l7)
<1> DEFINE calls == <<c1, c2, c3, c4, c5, c6, c7>>
           at    == <<l0, l1, l2, l3, l4, l5, l6, l7>>
<1>1. calls \in Seq(Calls) /\ Len(calls) = 7
    BY DEF Right
<1>2. /\ calls[1] = c1 /\ calls[2] = c2 /\ calls[3] = c3 /\ calls[4] = c4 /\ calls[5] = c5
      /\ calls[6] = c6 /\ calls[7] = c7
    OBVIOUS
<1>3. /\ at[1] = l0 /\ at[2] = l1 /\ at[3] = l2 /\ at[4] = l3 /\ at[5] = l4 /\ at[6] = l5
      /\ at[7] = l6 /\ at[8] = l7
    OBVIOUS
<1> HIDE DEF calls, at
<1>4. \A i \in 1..7 : Right(calls[i], at[i], at[i + 1])
    BY <1>2, <1>3
<1>5. Plays(calls, l0, l7)
    BY <1>1, <1>3, <1>4 DEF Plays, Played
<1> QED
    BY <1>5 DEF calls

LEMMA Plays8 ==
    ASSUME NEW c1, NEW c2, NEW c3, NEW c4, NEW c5, NEW c6, NEW c7, NEW c8,
           NEW l0, NEW l1, NEW l2, NEW l3, NEW l4, NEW l5, NEW l6, NEW l7, NEW l8,
           Right(c1, l0, l1),
           Right(c2, l1, l2),
           Right(c3, l2, l3),
           Right(c4, l3, l4),
           Right(c5, l4, l5),
           Right(c6, l5, l6),
           Right(c7, l6, l7),
           Right(c8, l7, l8)
    PROVE  Plays(<<c1, c2, c3, c4, c5, c6, c7, c8>>, l0, l8)
<1> DEFINE calls == <<c1, c2, c3, c4, c5, c6, c7, c8>>
           at    == <<l0, l1, l2, l3, l4, l5, l6, l7, l8>>
<1>1. calls \in Seq(Calls) /\ Len(calls) = 8
    BY DEF Right
<1>2. /\ calls[1] = c1 /\ calls[2] = c2 /\ calls[3] = c3 /\ calls[4] = c4 /\ calls[5] = c5
      /\ calls[6] = c6 /\ calls[7] = c7 /\ calls[8] = c8
    OBVIOUS
<1>3. /\ at[1] = l0 /\ at[2] = l1 /\ at[3] = l2 /\ at[4] = l3 /\ at[5] = l4 /\ at[6] = l5
      /\ at[7] = l6 /\ at[8] = l7 /\ at[9] = l8
    OBVIOUS
<1> HIDE DEF calls, at
<1>4. \A i \in 1..8 : Right(calls[i], at[i], at[i + 1])
    BY <1>2, <1>3
<1>5. Plays(calls, l0, l8)
    BY <1>1, <1>3, <1>4 DEF Plays, Played
<1> QED
    BY <1>5 DEF calls

LEMMA Plays12 ==
    ASSUME NEW c1, NEW c2, NEW c3, NEW c4, NEW c5, NEW c6, NEW c7, NEW c8, NEW c9, NEW c10,
           NEW c11, NEW c12,
           NEW l0, NEW l1, NEW l2, NEW l3, NEW l4, NEW l5, NEW l6, NEW l7, NEW l8, NEW l9,
           NEW l10, NEW l11, NEW l12,
           Right(c1, l0, l1),
           Right(c2, l1, l2),
           Right(c3, l2, l3),
           Right(c4, l3, l4),
           Right(c5, l4, l5),
           Right(c6, l5, l6),
           Right(c7, l6, l7),
           Right(c8, l7, l8),
           Right(c9, l8, l9),
           Right(c10, l9, l10),
           Right(c11, l10, l11),
           Right(c12, l11, l12)
    PROVE  Plays(<<c1, c2, c3, c4, c5, c6, c7, c8, c9, c10, c11, c12>>, l0, l12)
<1> DEFINE calls == <<c1, c2, c3, c4, c5, c6, c7, c8, c9, c10, c11, c12>>
           at    == <<l0, l1, l2, l3, l4, l5, l6, l7, l8, l9, l10, l11, l12>>
<1>1. calls \in Seq(Calls) /\ Len(calls) = 12
    BY DEF Right
<1>2. /\ calls[1] = c1 /\ calls[2] = c2 /\ calls[3] = c3 /\ calls[4] = c4 /\ calls[5] = c5
      /\ calls[6] = c6 /\ calls[7] = c7 /\ calls[8] = c8 /\ calls[9] = c9
      /\ calls[10] = c10 /\ calls[11] = c11 /\ calls[12] = c12
    OBVIOUS
<1>3. /\ at[1] = l0 /\ at[2] = l1 /\ at[3] = l2 /\ at[4] = l3 /\ at[5] = l4 /\ at[6] = l5
      /\ at[7] = l6 /\ at[8] = l7 /\ at[9] = l8 /\ at[10] = l9 /\ at[11] = l10
      /\ at[12] = l11 /\ at[13] = l12
    OBVIOUS
<1> HIDE DEF calls, at
<1>4. \A i \in 1..12 : Right(calls[i], at[i], at[i + 1])
    BY <1>2, <1>3
<1>5. Plays(calls, l0, l12)
    BY <1>1, <1>3, <1>4 DEF Plays, Played
<1> QED
    BY <1>5 DEF calls

LEMMA Plays13 ==
    ASSUME NEW c1, NEW c2, NEW c3, NEW c4, NEW c5, NEW c6, NEW c7, NEW c8, NEW c9, NEW c10,
           NEW c11, NEW c12, NEW c13,
           NEW l0, NEW l1, NEW l2, NEW l3, NEW l4, NEW l5, NEW l6, NEW l7, NEW l8, NEW l9,
           NEW l10, NEW l11, NEW l12, NEW l13,
           Right(c1, l0, l1),
           Right(c2, l1, l2),
           Right(c3, l2, l3),
           Right(c4, l3, l4),
           Right(c5, l4, l5),
           Right(c6, l5, l6),
           Right(c7, l6, l7),
           Right(c8, l7, l8),
           Right(c9, l8, l9),
           Right(c10, l9, l10),
           Right(c11, l10, l11),
           Right(c12, l11, l12),
           Right(c13, l12, l13)
    PROVE  Plays(<<c1, c2, c3, c4, c5, c6, c7, c8, c9, c10, c11, c12, c13>>, l0, l13)
<1> DEFINE calls == <<c1, c2, c3, c4, c5, c6, c7, c8, c9, c10, c11, c12, c13>>
           at    == <<l0, l1, l2, l3, l4, l5, l6, l7, l8, l9, l10, l11, l12, l13>>
<1>1. calls \in Seq(Calls) /\ Len(calls) = 13
    BY DEF Right
<1>2. /\ calls[1] = c1 /\ calls[2] = c2 /\ calls[3] = c3 /\ calls[4] = c4 /\ calls[5] = c5
      /\ calls[6] = c6 /\ calls[7] = c7 /\ calls[8] = c8 /\ calls[9] = c9
      /\ calls[10] = c10 /\ calls[11] = c11 /\ calls[12] = c12 /\ calls[13] = c13
    OBVIOUS
<1>3. /\ at[1] = l0 /\ at[2] = l1 /\ at[3] = l2 /\ at[4] = l3 /\ at[5] = l4 /\ at[6] = l5
      /\ at[7] = l6 /\ at[8] = l7 /\ at[9] = l8 /\ at[10] = l9 /\ at[11] = l10
      /\ at[12] = l11 /\ at[13] = l12 /\ at[14] = l13
    OBVIOUS
<1> HIDE DEF calls, at
<1>4. \A i \in 1..13 : Right(calls[i], at[i], at[i + 1])
    BY <1>2, <1>3
<1>5. Plays(calls, l0, l13)
    BY <1>1, <1>3, <1>4 DEF Plays, Played
<1> QED
    BY <1>5 DEF calls


LEMMA Create02Plays == Plays(Tests!test02_create, Absent, Absent)
<1>1. Plays(<<Tests!Create, Tests!IsList(TRUE), Tests!Free(TRUE)>>, Absent, Absent)
    <2>1. /\ Right(Tests!Create, Absent, Present(<< >>))
          /\ Right(Tests!IsList(TRUE), Present(<< >>), Present(<< >>))
          /\ Right(Tests!Free(TRUE), Present(<< >>), Absent)
        BY CreateIsRight, FreeIsRight, IsListIsRight
    <2> QED
        BY <2>1, Plays3, Zenon
<1> DEFINE once == <<Tests!Create, Tests!IsList(TRUE), Tests!Free(TRUE)>>
<1>2. Plays(once \o once \o once, Absent, Absent)
    BY <1>1, PlaysBoth, Zenon
<1> QED
    BY <1>2 DEF Tests!test02_create

(* The keys of these tests are keys of the call lists.                     *)
LEMMA TestKeys ==
    /\ 1 \in Ids /\ 2 \in Ids /\ 3 \in Ids /\ 4 \in Ids /\ 5 \in Ids /\ 6 \in Ids
    /\ 0 \in Int /\ TRUE \in BOOLEAN
    BY DEF Ids

LEMMA Insert03Plays == Plays(Tests!test03_insert_at_index, Absent, Absent)
<1>1. Plays(<<Tests!Create, Tests!Make(1), Tests!InsertRef(1, 0), Tests!At(0, 1),
              Tests!Free(TRUE)>>, Absent, Absent)
    <2>1. /\ Right(Tests!Create, Absent, Present(<< >>))
          /\ Right(Tests!Make(1), Present(<< >>), Present(<< >>))
          /\ Right(Tests!Free(TRUE), Present(<<1>>), Absent)
        BY TestKeys, CreateIsRight, MakeIsRight, FreeIsRight, Zenon
    <2>2. Right(Tests!InsertRef(1, 0), Present(<< >>), Present(<<1>>))
        <3>1. /\ 1 \in Ids /\ 0 \in Int
            BY DEF Ids
        <3> QED
            BY <3>1, References, Zenon
    <2>3. Right(Tests!At(0, 1), Present(<<1>>), Present(<<1>>))
        <3>1. /\ 0 \in Int /\ 1 \in Int /\ 1 = Found(<<1>>, 0)
            BY DEF Found
        <3> QED
            BY <3>1, AtIsRight, Zenon
    <2> QED
        BY <2>1, <2>2, <2>3, Plays5, Zenon
<1>2. Plays(<<Tests!Create, Tests!Make(2), Tests!InsertRef(2, 0), Tests!At(0, 2),
              Tests!Make(3), Tests!InsertRef(3, 1), Tests!At(1, 3), Tests!Free(TRUE)>>, Absent, Absent)
    <2>1. /\ Right(Tests!Create, Absent, Present(<< >>))
          /\ Right(Tests!Make(2), Present(<< >>), Present(<< >>))
          /\ Right(Tests!Make(3), Present(<<2>>), Present(<<2>>))
          /\ Right(Tests!Free(TRUE), Present(<<2, 3>>), Absent)
        BY TestKeys, CreateIsRight, MakeIsRight, FreeIsRight, Zenon
    <2>2. /\ Right(Tests!InsertRef(2, 0), Present(<< >>), Present(<<2>>))
          /\ Right(Tests!InsertRef(3, 1), Present(<<2>>), Present(<<2, 3>>))
        <3>1. /\ 2 \in Ids /\ 0 \in Int /\ 3 \in Ids /\ 1 \in Int /\ 1 >= 1 /\ 3 # 2
            BY DEF Ids
        <3> QED
            BY <3>1, References, Zenon
    <2>3. /\ Right(Tests!At(0, 2), Present(<<2>>), Present(<<2>>))
          /\ Right(Tests!At(1, 3), Present(<<2, 3>>), Present(<<2, 3>>))
        <3>1. /\ 0 \in Int /\ 2 \in Int /\ 2 = Found(<<2>>, 0) /\ 1 \in Int /\ 3 \in Int
              /\ 3 = Found(<<2, 3>>, 1)
            BY DEF Found
        <3> QED
            BY <3>1, AtIsRight, Zenon
    <2> QED
        BY <2>1, <2>2, <2>3, Plays8, Zenon
<1>3. Plays(<<Tests!Create, Tests!Make(4), Tests!InsertRef(4, 0), Tests!At(0, 4),
              Tests!Make(5), Tests!InsertRef(5, 1), Tests!At(1, 5)>>, Absent, Present(<<4, 5>>))
    <2>1. /\ Right(Tests!Create, Absent, Present(<< >>))
          /\ Right(Tests!Make(4), Present(<< >>), Present(<< >>))
          /\ Right(Tests!Make(5), Present(<<4>>), Present(<<4>>))
        BY TestKeys, CreateIsRight, MakeIsRight, Zenon
    <2>2. /\ Right(Tests!InsertRef(4, 0), Present(<< >>), Present(<<4>>))
          /\ Right(Tests!InsertRef(5, 1), Present(<<4>>), Present(<<4, 5>>))
        <3>1. /\ 4 \in Ids /\ 0 \in Int /\ 5 \in Ids /\ 1 \in Int /\ 1 >= 1 /\ 5 # 4
            BY DEF Ids
        <3> QED
            BY <3>1, References, Zenon
    <2>3. /\ Right(Tests!At(0, 4), Present(<<4>>), Present(<<4>>))
          /\ Right(Tests!At(1, 5), Present(<<4, 5>>), Present(<<4, 5>>))
        <3>1. /\ 0 \in Int /\ 4 \in Int /\ 4 = Found(<<4>>, 0) /\ 1 \in Int /\ 5 \in Int
              /\ 5 = Found(<<4, 5>>, 1)
            BY DEF Found
        <3> QED
            BY <3>1, AtIsRight, Zenon
    <2> QED
        BY <2>1, <2>2, <2>3, Plays7, Zenon
<1>4. Plays(<<Tests!Make(6), Tests!InsertRef(6, 1), Tests!At(1, 6),
              Tests!Free(TRUE)>>, Present(<<4, 5>>), Absent)
    <2>1. /\ Right(Tests!Make(6), Present(<<4, 5>>), Present(<<4, 5>>))
          /\ Right(Tests!Free(TRUE), Present(<<4, 6, 5>>), Absent)
        BY TestKeys, MakeIsRight, FreeIsRight, Zenon
    <2>2. Right(Tests!InsertRef(6, 1), Present(<<4, 5>>), Present(<<4, 6, 5>>))
        <3>1. 6 \in Ids /\ 4 \in Ids /\ 5 \in Ids /\ 1 \in Int /\ 1 = 1 /\ 6 # 4 /\ 6 # 5
            BY DEF Ids
        <3> QED
            BY <3>1, References, Zenon
    <2>3. Right(Tests!At(1, 6), Present(<<4, 6, 5>>), Present(<<4, 6, 5>>))
        <3>1. 1 \in Int /\ 6 \in Int /\ 6 = Found(<<4, 6, 5>>, 1)
            BY DEF Found
        <3> QED
            BY <3>1, AtIsRight, Zenon
    <2> QED
        BY <2>1, <2>2, <2>3, Plays4, Zenon
<1> QED
    BY <1>1, <1>2, <1>3, <1>4, PlaysBoth, Zenon DEF Tests!test03_insert_at_index

LEMMA ThreePlays == Plays(Tests!Three, Present(<< >>), Present(<<1, 2, 3>>))
<1>1. Plays(<<Tests!Insert(1, 0), Tests!Insert(2, 1),
              Tests!Insert(3, 2)>>, Present(<< >>), Present(<<1, 2, 3>>))
    <2>1. /\ Right(Tests!Insert(1, 0), Present(<< >>), Present(<<1>>))
          /\ Right(Tests!Insert(2, 1), Present(<<1>>), Present(<<1, 2>>))
          /\ Right(Tests!Insert(3, 2), Present(<<1, 2>>), Present(<<1, 2, 3>>))
        <3>1. /\ 1 \in Ids /\ 0 \in Int /\ 2 \in Ids /\ 1 \in Int /\ 1 >= 1 /\ 3 \in Ids
              /\ 2 \in Int /\ 2 >= 2
            BY DEF Ids
        <3> QED
            BY <3>1, Insertions, Zenon
    <2> QED
        BY <2>1, Plays3, Zenon
<1> QED
    BY <1>1 DEF Tests!Three, Tests!Jasper, Tests!Axelle, Tests!Filip

LEMMA FourPlays == Plays(Tests!Four, Present(<< >>), Present(<<1, 2, 3, 4>>))
<1>1. Plays(<<Tests!Insert(4, 3)>>, Present(<<1, 2, 3>>), Present(<<1, 2, 3, 4>>))
    <2>1. Right(Tests!Insert(4, 3), Present(<<1, 2, 3>>), Present(<<1, 2, 3, 4>>))
        <3>1. /\ 4 \in Ids /\ 1 \in Ids /\ 2 \in Ids /\ 3 \in Ids /\ 3 \in Int /\ 3 >= 3
            BY DEF Ids
        <3> QED
            BY <3>1, Insertions, Zenon
    <2> QED
        BY <2>1, Plays1, Zenon
<1> QED
    BY <1>1, ThreePlays, PlaysBoth, Zenon DEF Tests!Four, Tests!Jens

LEMMA Remove04Plays == Plays(Tests!test04_remove_at_index, Absent, Absent)
<1>1. Plays(<<Tests!Create, Tests!Delete(0, TRUE), Tests!Size(0), Tests!Delete(0, FALSE),
              Tests!Size(0)>>, Absent, Present(<< >>))
    <2>1. Right(Tests!Create, Absent, Present(<< >>))
        BY CreateIsRight
    <2>2. /\ Right(Tests!Delete(0, TRUE), Present(<< >>), Present(<< >>))
          /\ Right(Tests!Delete(0, FALSE), Present(<< >>), Present(<< >>))
        <3>1. /\ 0 \in Int /\ TRUE \in BOOLEAN /\ FALSE \in BOOLEAN
            BY DEF Ids
        <3> QED
            BY <3>1, Deletions, Zenon
    <2>3. Right(Tests!Size(0), Present(<< >>), Present(<< >>))
        <3>1. /\ 0 \in Int /\ 0 = Len(<< >>)
            OBVIOUS
        <3> QED
            BY <3>1, SizeIsRight, Zenon
    <2> QED
        BY <2>1, <2>2, <2>3, Plays5, Zenon
<1>2. Plays(Tests!Four, Present(<< >>), Present(<<1, 2, 3, 4>>))
    BY FourPlays
<1>3. Plays(<<Tests!Delete(0, TRUE), Tests!Size(3), Tests!IndexOf(1, -1),
              Tests!Delete(1, FALSE), Tests!Size(2), Tests!IndexOf(3, -1),
              Tests!Free(TRUE)>>, Present(<<1, 2, 3, 4>>), Absent)
    <2>1. Right(Tests!Free(TRUE), Present(<<2, 4>>), Absent)
        BY FreeIsRight
    <2>2. /\ Right(Tests!Delete(0, TRUE), Present(<<1, 2, 3, 4>>), Present(<<2, 3, 4>>))
          /\ Right(Tests!Delete(1, FALSE), Present(<<2, 3, 4>>), Present(<<2, 4>>))
        <3>1. /\ 1 \in Ids /\ 2 \in Ids /\ 3 \in Ids /\ 4 \in Ids /\ 0 \in Int
              /\ TRUE \in BOOLEAN /\ 0 <= 0 /\ 1 \in Int /\ FALSE \in BOOLEAN /\ 1 = 1
            BY DEF Ids
        <3> QED
            BY <3>1, Deletions, Zenon
    <2>3. /\ Right(Tests!Size(3), Present(<<2, 3, 4>>), Present(<<2, 3, 4>>))
          /\ Right(Tests!Size(2), Present(<<2, 4>>), Present(<<2, 4>>))
        <3>1. /\ 3 \in Int /\ 3 = Len(<<2, 3, 4>>) /\ 2 \in Int /\ 2 = Len(<<2, 4>>)
            OBVIOUS
        <3> QED
            BY <3>1, SizeIsRight, Zenon
    <2>4. /\ Right(Tests!IndexOf(1, -1), Present(<<2, 3, 4>>), Present(<<2, 3, 4>>))
          /\ Right(Tests!IndexOf(3, -1), Present(<<2, 4>>), Present(<<2, 4>>))
        <3>1. /\ 1 \in Ids /\ -1 \in Int /\ FirstPlace(<<2, 3, 4>>, 1, -1) /\ 3 \in Ids
              /\ FirstPlace(<<2, 4>>, 3, -1)
            BY DEF Ids, FirstPlace
        <3> QED
            BY <3>1, IndexOfIsRight, Zenon
    <2> QED
        BY <2>1, <2>2, <2>3, <2>4, Plays7, Zenon
<1> QED
    BY <1>1, <1>2, <1>3, PlaysBoth, Zenon
       DEF Tests!test04_remove_at_index, Tests!Jasper, Tests!Axelle, Tests!Filip, Tests!Jens

LEMMA Size05Plays == Plays(Tests!test05_size, Absent, Absent)
<1>1. Plays(<<Tests!Create, Tests!Size(0), Tests!Insert(1, 0), Tests!Size(1),
              Tests!Insert(2, 1), Tests!Insert(3, 2), Tests!Size(3), Tests!Delete(0, TRUE),
              Tests!Delete(0, TRUE), Tests!Delete(0, TRUE), Tests!Size(0),
              Tests!Free(TRUE)>>, Absent, Absent)
    <2>1. /\ Right(Tests!Create, Absent, Present(<< >>))
          /\ Right(Tests!Free(TRUE), Present(<< >>), Absent)
        BY CreateIsRight, FreeIsRight
    <2>2. /\ Right(Tests!Insert(1, 0), Present(<< >>), Present(<<1>>))
          /\ Right(Tests!Insert(2, 1), Present(<<1>>), Present(<<1, 2>>))
          /\ Right(Tests!Insert(3, 2), Present(<<1, 2>>), Present(<<1, 2, 3>>))
        <3>1. /\ 1 \in Ids /\ 0 \in Int /\ 2 \in Ids /\ 1 \in Int /\ 1 >= 1 /\ 3 \in Ids
              /\ 2 \in Int /\ 2 >= 2
            BY DEF Ids
        <3> QED
            BY <3>1, Insertions, Zenon
    <2>3. /\ Right(Tests!Delete(0, TRUE), Present(<<1, 2, 3>>), Present(<<2, 3>>))
          /\ Right(Tests!Delete(0, TRUE), Present(<<2, 3>>), Present(<<3>>))
          /\ Right(Tests!Delete(0, TRUE), Present(<<3>>), Present(<< >>))
        <3>1. /\ 1 \in Ids /\ 2 \in Ids /\ 3 \in Ids /\ 0 \in Int /\ TRUE \in BOOLEAN /\ 0 <= 0
            BY DEF Ids
        <3> QED
            BY <3>1, Deletions, Zenon
    <2>4. /\ Right(Tests!Size(0), Present(<< >>), Present(<< >>))
          /\ Right(Tests!Size(1), Present(<<1>>), Present(<<1>>))
          /\ Right(Tests!Size(3), Present(<<1, 2, 3>>), Present(<<1, 2, 3>>))
        <3>1. /\ 0 \in Int /\ 0 = Len(<< >>) /\ 1 \in Int /\ 1 = Len(<<1>>) /\ 3 \in Int
              /\ 3 = Len(<<1, 2, 3>>)
            OBVIOUS
        <3> QED
            BY <3>1, SizeIsRight, Zenon
    <2> QED
        BY <2>1, <2>2, <2>3, <2>4, Plays12, Zenon
<1> QED
    BY <1>1, Zenon DEF Tests!test05_size

LEMMA Reference06Plays == Plays(Tests!test06_get_reference_at_index, Absent, Absent)
<1>1. Plays(<<Tests!Create>>, Absent, Present(<< >>))
    <2>1. Right(Tests!Create, Absent, Present(<< >>))
        BY CreateIsRight
    <2> QED
        BY <2>1, Plays1, Zenon
<1>2. Plays(Tests!Four, Present(<< >>), Present(<<1, 2, 3, 4>>))
    BY FourPlays
<1>3. Plays(<<Tests!RefAt(0, 1), Tests!RefAt(2, 3), Tests!RefAt(-1, 1), Tests!RefAt(5, 4),
              Tests!Free(TRUE), Tests!Create, Tests!RefAt(0, 0),
              Tests!Free(TRUE)>>, Present(<<1, 2, 3, 4>>), Absent)
    <2>1. /\ Right(Tests!Free(TRUE), Present(<<1, 2, 3, 4>>), Absent)
          /\ Right(Tests!Create, Absent, Present(<< >>))
          /\ Right(Tests!Free(TRUE), Present(<< >>), Absent)
        BY CreateIsRight, FreeIsRight
    <2>2. /\ Right(Tests!RefAt(0, 1), Present(<<1, 2, 3, 4>>), Present(<<1, 2, 3, 4>>))
          /\ Right(Tests!RefAt(2, 3), Present(<<1, 2, 3, 4>>), Present(<<1, 2, 3, 4>>))
          /\ Right(Tests!RefAt(-1, 1), Present(<<1, 2, 3, 4>>), Present(<<1, 2, 3, 4>>))
          /\ Right(Tests!RefAt(5, 4), Present(<<1, 2, 3, 4>>), Present(<<1, 2, 3, 4>>))
          /\ Right(Tests!RefAt(0, 0), Present(<< >>), Present(<< >>))
        <3>1. /\ 0 \in Int /\ 1 \in Int /\ 1 = Found(<<1, 2, 3, 4>>, 0) /\ 2 \in Int
              /\ 3 \in Int /\ 3 = Found(<<1, 2, 3, 4>>, 2) /\ -1 \in Int
              /\ 1 = Found(<<1, 2, 3, 4>>, -1) /\ 5 \in Int /\ 4 \in Int
              /\ 4 = Found(<<1, 2, 3, 4>>, 5) /\ 0 = Found(<< >>, 0)
            BY DEF Found
        <3> QED
            BY <3>1, AtIsRight, Zenon
    <2> QED
        BY <2>1, <2>2, Plays8, Zenon
<1> QED
    BY <1>1, <1>2, <1>3, PlaysBoth, Zenon
       DEF Tests!test06_get_reference_at_index, Tests!Jasper, Tests!Axelle, Tests!Filip,
           Tests!Jens

LEMMA Element07Plays == Plays(Tests!test07_get_element_at_index, Absent, Absent)
<1>1. Plays(<<Tests!Create>>, Absent, Present(<< >>))
    <2>1. Right(Tests!Create, Absent, Present(<< >>))
        BY CreateIsRight
    <2> QED
        BY <2>1, Plays1, Zenon
<1>2. Plays(Tests!Three, Present(<< >>), Present(<<1, 2, 3>>))
    BY ThreePlays
<1>3. Plays(<<Tests!At(0, 1), Tests!At(1, 2), Tests!At(-1, 1), Tests!At(5, 3), Tests!Free(TRUE),
              Tests!Create, Tests!At(0, 0), Tests!Free(TRUE)>>, Present(<<1, 2, 3>>), Absent)
    <2>1. /\ Right(Tests!Free(TRUE), Present(<<1, 2, 3>>), Absent)
          /\ Right(Tests!Create, Absent, Present(<< >>))
          /\ Right(Tests!Free(TRUE), Present(<< >>), Absent)
        BY CreateIsRight, FreeIsRight
    <2>2. /\ Right(Tests!At(0, 1), Present(<<1, 2, 3>>), Present(<<1, 2, 3>>))
          /\ Right(Tests!At(1, 2), Present(<<1, 2, 3>>), Present(<<1, 2, 3>>))
          /\ Right(Tests!At(-1, 1), Present(<<1, 2, 3>>), Present(<<1, 2, 3>>))
          /\ Right(Tests!At(5, 3), Present(<<1, 2, 3>>), Present(<<1, 2, 3>>))
          /\ Right(Tests!At(0, 0), Present(<< >>), Present(<< >>))
        <3>1. /\ 0 \in Int /\ 1 \in Int /\ 1 = Found(<<1, 2, 3>>, 0) /\ 2 \in Int
              /\ 2 = Found(<<1, 2, 3>>, 1) /\ -1 \in Int /\ 1 = Found(<<1, 2, 3>>, -1)
              /\ 5 \in Int /\ 3 \in Int /\ 3 = Found(<<1, 2, 3>>, 5) /\ 0 = Found(<< >>, 0)
            BY DEF Found
        <3> QED
            BY <3>1, AtIsRight, Zenon
    <2> QED
        BY <2>1, <2>2, Plays8, Zenon
<1> QED
    BY <1>1, <1>2, <1>3, PlaysBoth, Zenon
       DEF Tests!test07_get_element_at_index, Tests!Jasper, Tests!Axelle, Tests!Filip

LEMMA Index08Plays == Plays(Tests!test08_get_index_of_element, Absent, Absent)
<1>1. Plays(<<Tests!IndexOf(1, -1), Tests!Create>>, Absent, Present(<< >>))
    <2>1. Right(Tests!Create, Absent, Present(<< >>))
        BY CreateIsRight
    <2>2. Right(Tests!IndexOf(1, -1), Absent, Absent)
        <3>1. /\ 1 \in Ids /\ -1 \in Int
            BY DEF Ids, FirstPlace
        <3> QED
            BY <3>1, IndexOfIsRight, Zenon
    <2> QED
        BY <2>1, <2>2, Plays2, Zenon
<1>2. Plays(Tests!Three, Present(<< >>), Present(<<1, 2, 3>>))
    BY ThreePlays
<1>3. Plays(<<Tests!IndexOf(2, 1), Tests!IndexOf(10, -1), Tests!Free(TRUE), Tests!Create,
              Tests!IndexOf(1, -1), Tests!Free(TRUE)>>, Present(<<1, 2, 3>>), Absent)
    <2>1. /\ Right(Tests!Free(TRUE), Present(<<1, 2, 3>>), Absent)
          /\ Right(Tests!Create, Absent, Present(<< >>))
          /\ Right(Tests!Free(TRUE), Present(<< >>), Absent)
        BY CreateIsRight, FreeIsRight
    <2>2. /\ Right(Tests!IndexOf(2, 1), Present(<<1, 2, 3>>), Present(<<1, 2, 3>>))
          /\ Right(Tests!IndexOf(10, -1), Present(<<1, 2, 3>>), Present(<<1, 2, 3>>))
          /\ Right(Tests!IndexOf(1, -1), Present(<< >>), Present(<< >>))
        <3>1. /\ 2 \in Ids /\ 1 \in Int /\ FirstPlace(<<1, 2, 3>>, 2, 1) /\ 10 \in Ids
              /\ -1 \in Int /\ FirstPlace(<<1, 2, 3>>, 10, -1) /\ 1 \in Ids
              /\ FirstPlace(<< >>, 1, -1)
            BY DEF Ids, FirstPlace
        <3> QED
            BY <3>1, IndexOfIsRight, Zenon
    <2> QED
        BY <2>1, <2>2, Plays6, Zenon
<1> QED
    BY <1>1, <1>2, <1>3, PlaysBoth, Zenon
       DEF Tests!test08_get_index_of_element, Tests!Jasper, Tests!Axelle, Tests!Filip

LEMMA Behind09Plays == Plays(Tests!test09_get_element_at_reference, Absent, Absent)
<1>1. Plays(<<Tests!Create>>, Absent, Present(<< >>))
    <2>1. Right(Tests!Create, Absent, Present(<< >>))
        BY CreateIsRight
    <2> QED
        BY <2>1, Plays1, Zenon
<1>2. Plays(Tests!Three, Present(<< >>), Present(<<1, 2, 3>>))
    BY ThreePlays
<1>3. Plays(<<Tests!RefAt(0, 1), Tests!RefAt(1, 2), Tests!RefAt(2, 3), Tests!ForeignRef,
              Tests!Free(TRUE), Tests!Create, Tests!RefAt(0, 0),
              Tests!Free(TRUE)>>, Present(<<1, 2, 3>>), Absent)
    <2>1. /\ Right(Tests!ForeignRef, Present(<<1, 2, 3>>), Present(<<1, 2, 3>>))
          /\ Right(Tests!Free(TRUE), Present(<<1, 2, 3>>), Absent)
          /\ Right(Tests!Create, Absent, Present(<< >>))
          /\ Right(Tests!Free(TRUE), Present(<< >>), Absent)
        BY CreateIsRight, FreeIsRight, ForeignIsRight
    <2>2. /\ Right(Tests!RefAt(0, 1), Present(<<1, 2, 3>>), Present(<<1, 2, 3>>))
          /\ Right(Tests!RefAt(1, 2), Present(<<1, 2, 3>>), Present(<<1, 2, 3>>))
          /\ Right(Tests!RefAt(2, 3), Present(<<1, 2, 3>>), Present(<<1, 2, 3>>))
          /\ Right(Tests!RefAt(0, 0), Present(<< >>), Present(<< >>))
        <3>1. /\ 0 \in Int /\ 1 \in Int /\ 1 = Found(<<1, 2, 3>>, 0) /\ 2 \in Int
              /\ 2 = Found(<<1, 2, 3>>, 1) /\ 3 \in Int /\ 3 = Found(<<1, 2, 3>>, 2)
              /\ 0 = Found(<< >>, 0)
            BY DEF Found
        <3> QED
            BY <3>1, AtIsRight, Zenon
    <2> QED
        BY <2>1, <2>2, Plays8, Zenon
<1> QED
    BY <1>1, <1>2, <1>3, PlaysBoth, Zenon
       DEF Tests!test09_get_element_at_reference, Tests!Jasper, Tests!Axelle, Tests!Filip

LEMMA FreeNullPlays == Plays(Tests!FreeNull, Absent, Absent)
<1>1. Plays(<<Tests!Free(FALSE), Tests!IsList(FALSE), Tests!Free(TRUE),
              Tests!IsList(FALSE)>>, Absent, Absent)
    <2>1. /\ Right(Tests!Free(FALSE), Absent, Absent)
          /\ Right(Tests!IsList(FALSE), Absent, Absent)
          /\ Right(Tests!Free(TRUE), Absent, Absent)
        BY FreeIsRight, IsListIsRight
    <2> QED
        BY <2>1, Plays4, Zenon
<1> QED
    BY <1>1 DEF Tests!FreeNull

LEMMA FreshPlays ==
    ASSUME NEW calls, NEW s, NEW f \in BOOLEAN, Plays(calls, Present(<< >>), Present(s))
    PROVE  Plays(Tests!Fresh(calls, f), Absent, Absent)
<1>1. Plays(<<Tests!Create>>, Absent, Present(<< >>))
    BY CreateIsRight, Plays1
<1>2. Plays(<<Tests!Free(f), Tests!IsList(FALSE)>>, Present(s), Absent)
    <2>1. Right(Tests!Free(f), Present(s), Absent) /\ Right(Tests!IsList(FALSE), Absent, Absent)
        BY FreeIsRight, IsListIsRight
    <2> QED
        BY <2>1, Plays2, Zenon
<1> QED
    BY <1>1, <1>2, PlaysBoth, Zenon DEF Tests!Fresh

LEMMA YourTestPlays == Plays(Tests!yourtest1, Absent, Absent)
<1>0. Plays(<< >>, Present(<< >>), Present(<< >>))
    BY PlaysNone
<1>1. Plays(<<Tests!Make(1), Tests!InsertRef(1, 0)>>, Present(<< >>), Present(<<1>>))
    <2>1. Right(Tests!Make(1), Present(<< >>), Present(<< >>))
        BY TestKeys, MakeIsRight, Zenon
    <2>2. Right(Tests!InsertRef(1, 0), Present(<< >>), Present(<<1>>))
        BY TestKeys, References, Zenon
    <2> QED
        BY <2>1, <2>2, Plays2, Zenon
<1>2. Plays(<<Tests!Make(2), Tests!InsertRef(2, 0)>>, Present(<< >>), Present(<<2>>))
    <2>1. Right(Tests!Make(2), Present(<< >>), Present(<< >>))
        BY TestKeys, MakeIsRight, Zenon
    <2>2. Right(Tests!InsertRef(2, 0), Present(<< >>), Present(<<2>>))
        BY TestKeys, References, Zenon
    <2> QED
        BY <2>1, <2>2, Plays2, Zenon
<1>3. Plays(<<Tests!Make(3), Tests!Make(4), Tests!InsertRef(3, 0),
              Tests!InsertRef(4, 1)>>, Present(<< >>), Present(<<3, 4>>))
    <2>1. /\ Right(Tests!Make(3), Present(<< >>), Present(<< >>))
          /\ Right(Tests!Make(4), Present(<< >>), Present(<< >>))
        BY TestKeys, MakeIsRight, Zenon
    <2>2. /\ Right(Tests!InsertRef(3, 0), Present(<< >>), Present(<<3>>))
          /\ Right(Tests!InsertRef(4, 1), Present(<<3>>), Present(<<3, 4>>))
        <3>1. 3 \in Ids /\ 0 \in Int /\ 4 \in Ids /\ 1 \in Int /\ 1 >= 1 /\ 4 # 3
            BY DEF Ids
        <3> QED
            BY <3>1, References, Zenon
    <2> QED
        BY <2>1, <2>2, Plays4, Zenon
<1>4. Plays(<<Tests!Make(5), Tests!Make(6), Tests!InsertRef(5, 0),
              Tests!InsertRef(6, 1)>>, Present(<< >>), Present(<<5, 6>>))
    <2>1. /\ Right(Tests!Make(5), Present(<< >>), Present(<< >>))
          /\ Right(Tests!Make(6), Present(<< >>), Present(<< >>))
        BY TestKeys, MakeIsRight, Zenon
    <2>2. /\ Right(Tests!InsertRef(5, 0), Present(<< >>), Present(<<5>>))
          /\ Right(Tests!InsertRef(6, 1), Present(<<5>>), Present(<<5, 6>>))
        <3>1. 5 \in Ids /\ 0 \in Int /\ 6 \in Ids /\ 1 \in Int /\ 1 >= 1 /\ 6 # 5
            BY DEF Ids
        <3> QED
            BY <3>1, References, Zenon
    <2> QED
        BY <2>1, <2>2, Plays4, Zenon
<1> DEFINE first  == Tests!Fresh(<<Tests!Make(1), Tests!InsertRef(1, 0)>>, FALSE)
           second == Tests!Fresh(<<Tests!Make(2), Tests!InsertRef(2, 0)>>, TRUE)
           third  == Tests!Fresh(<<Tests!Make(3), Tests!Make(4), Tests!InsertRef(3, 0),
                                   Tests!InsertRef(4, 1)>>, FALSE)
           fourth == Tests!Fresh(<<Tests!Make(5), Tests!Make(6), Tests!InsertRef(5, 0),
                                   Tests!InsertRef(6, 1)>>, TRUE)
<1>5. /\ Plays(Tests!Fresh(<<>>, FALSE), Absent, Absent)
      /\ Plays(Tests!Fresh(<<>>, TRUE), Absent, Absent)
      /\ Plays(first, Absent, Absent) /\ Plays(second, Absent, Absent)
      /\ Plays(third, Absent, Absent) /\ Plays(fourth, Absent, Absent)
    BY <1>0, <1>1, <1>2, <1>3, <1>4, FreshPlays
<1>6. Tests!yourtest1 = Tests!FreeNull \o Tests!Fresh(<<>>, FALSE) \o Tests!Fresh(<<>>, TRUE)
                            \o first \o second \o third \o fourth
    BY Zenon DEF Tests!yourtest1
<1> HIDE DEF first, second, third, fourth
<1>7. Plays(Tests!FreeNull \o Tests!Fresh(<<>>, FALSE) \o Tests!Fresh(<<>>, TRUE), Absent, Absent)
    <2>1. Plays(Tests!FreeNull \o Tests!Fresh(<<>>, FALSE), Absent, Absent)
        BY <1>5, FreeNullPlays, PlaysBoth, Zenon
    <2> QED
        BY <1>5, <2>1, PlaysBoth, Zenon
<1> DEFINE empty == Tests!FreeNull \o Tests!Fresh(<<>>, FALSE) \o Tests!Fresh(<<>>, TRUE)
<1> HIDE DEF empty
<1>8. Plays(empty \o first \o second, Absent, Absent)
    <2>1. Plays(empty \o first, Absent, Absent)
        BY <1>5, <1>7, PlaysBoth, Zenon DEF empty
    <2> QED
        BY <1>5, <2>1, PlaysBoth, Zenon
<1>9. Plays(empty \o first \o second \o third \o fourth, Absent, Absent)
    <2>1. Plays(empty \o first \o second \o third, Absent, Absent)
        BY <1>5, <1>8, PlaysBoth, Zenon
    <2> QED
        BY <1>5, <2>1, PlaysBoth, Zenon
<1> QED
    BY <1>6, <1>9 DEF empty

LEMMA OurTest1Plays == Plays(Tests!test1, Absent, Absent)
<1>0. Plays(<< >>, Present(<< >>), Present(<< >>))
    BY PlaysNone
<1>1. Plays(<<Tests!InsertRef(5, 0)>>, Present(<< >>), Present(<<5>>))
    <2>1. Right(Tests!InsertRef(5, 0), Present(<< >>), Present(<<5>>))
        BY TestKeys, References, Zenon
    <2> QED
        BY <2>1, Plays1, Zenon
<1>2. Plays(<<Tests!Insert(5, 0)>>, Present(<< >>), Present(<<5>>))
    <2>1. Right(Tests!Insert(5, 0), Present(<< >>), Present(<<5>>))
        BY TestKeys, Insertions, Zenon
    <2> QED
        BY <2>1, Plays1, Zenon
<1>3. Plays(<<Tests!InsertRef(6, 0), Tests!InsertRef(5, 99)>>, Present(<< >>), Present(<<6, 5>>))
    <2>1. /\ Right(Tests!InsertRef(6, 0), Present(<< >>), Present(<<6>>))
          /\ Right(Tests!InsertRef(5, 99), Present(<<6>>), Present(<<6, 5>>))
        <3>1. /\ 6 \in Ids /\ 0 \in Int /\ 5 \in Ids /\ 99 \in Int /\ 99 >= 1 /\ 5 # 6
            BY DEF Ids
        <3> QED
            BY <3>1, References, Zenon
    <2> QED
        BY <2>1, Plays2, Zenon
<1>4. Plays(<<Tests!Insert(5, 0), Tests!Insert(6, 99)>>, Present(<< >>), Present(<<5, 6>>))
    <2>1. /\ Right(Tests!Insert(5, 0), Present(<< >>), Present(<<5>>))
          /\ Right(Tests!Insert(6, 99), Present(<<5>>), Present(<<5, 6>>))
        <3>1. /\ 5 \in Ids /\ 0 \in Int /\ 6 \in Ids /\ 99 \in Int /\ 99 >= 1
            BY DEF Ids
        <3> QED
            BY <3>1, Insertions, Zenon
    <2> QED
        BY <2>1, Plays2, Zenon
<1>5. Plays(<<Tests!Make(5)>>, Absent, Absent) /\ Plays(<<Tests!Make(6)>>, Absent, Absent)
    <2>1. Right(Tests!Make(5), Absent, Absent) /\ Right(Tests!Make(6), Absent, Absent)
        BY TestKeys, MakeIsRight, Zenon
    <2> QED
        BY <2>1, Plays1, Zenon
<1>6. Plays(<<Tests!Release(5), Tests!Release(6)>>, Absent, Absent)
    <2>1. Right(Tests!Release(5), Absent, Absent) /\ Right(Tests!Release(6), Absent, Absent)
        BY ReleaseIsRight DEF Ids
    <2> QED
        BY <2>1, Plays2, Zenon
<1> DEFINE first   == Tests!Fresh(<<Tests!InsertRef(5, 0)>>, FALSE)
           second  == Tests!Fresh(<<Tests!Insert(5, 0)>>, TRUE)
           third   == Tests!Fresh(<<Tests!InsertRef(6, 0), Tests!InsertRef(5, 99)>>, FALSE)
           fourth  == Tests!Fresh(<<Tests!Insert(5, 0), Tests!Insert(6, 99)>>, TRUE)
           release == <<Tests!Release(5), Tests!Release(6)>>
           five    == <<Tests!Make(5)>>
           six     == <<Tests!Make(6)>>
<1>7. /\ Plays(Tests!Fresh(<<>>, FALSE), Absent, Absent)
      /\ Plays(Tests!Fresh(<<>>, TRUE), Absent, Absent)
      /\ Plays(first, Absent, Absent) /\ Plays(second, Absent, Absent)
      /\ Plays(third, Absent, Absent) /\ Plays(fourth, Absent, Absent)
    BY <1>0, <1>1, <1>2, <1>3, <1>4, FreshPlays
<1>8. Plays(five, Absent, Absent) /\ Plays(six, Absent, Absent) /\ Plays(release, Absent, Absent)
    BY <1>5, <1>6
<1>9. Tests!test1 = Tests!FreeNull \o Tests!Fresh(<<>>, FALSE) \o Tests!Fresh(<<>>, TRUE)
                        \o five \o first \o second \o six \o third \o fourth \o release
    BY Zenon DEF Tests!test1
<1> HIDE DEF first, second, third, fourth, release, five, six
<1>10. Plays(Tests!FreeNull \o Tests!Fresh(<<>>, FALSE) \o Tests!Fresh(<<>>, TRUE), Absent, Absent)
    <2>1. Plays(Tests!FreeNull \o Tests!Fresh(<<>>, FALSE), Absent, Absent)
        BY <1>7, FreeNullPlays, PlaysBoth, Zenon
    <2> QED
        BY <1>7, <2>1, PlaysBoth, Zenon
<1> DEFINE empty == Tests!FreeNull \o Tests!Fresh(<<>>, FALSE) \o Tests!Fresh(<<>>, TRUE)
<1> HIDE DEF empty
<1>11. Plays(empty \o five \o first \o second, Absent, Absent)
    <2>1. Plays(empty \o five, Absent, Absent)
        BY <1>8, <1>10, PlaysBoth, Zenon DEF empty
    <2>2. Plays(empty \o five \o first, Absent, Absent)
        BY <1>7, <2>1, PlaysBoth, Zenon
    <2> QED
        BY <1>7, <2>2, PlaysBoth, Zenon
<1>12. Plays(empty \o five \o first \o second \o six \o third, Absent, Absent)
    <2>1. Plays(empty \o five \o first \o second \o six, Absent, Absent)
        BY <1>8, <1>11, PlaysBoth, Zenon
    <2> QED
        BY <1>7, <2>1, PlaysBoth, Zenon
<1>13. Plays(empty \o five \o first \o second \o six \o third \o fourth \o release, Absent, Absent)
    <2>1. Plays(empty \o five \o first \o second \o six \o third \o fourth, Absent, Absent)
        BY <1>7, <1>12, PlaysBoth, Zenon
    <2> QED
        BY <1>8, <2>1, PlaysBoth, Zenon
<1> QED
    BY <1>9, <1>13 DEF empty

(* Four scripts, each from no list to no list, are one such script.        *)
LEMMA FourPlay ==
    ASSUME NEW a, NEW b, NEW c, NEW d, Plays(a, Absent, Absent), Plays(b, Absent, Absent),
           Plays(c, Absent, Absent), Plays(d, Absent, Absent)
    PROVE  Plays(a \o b \o c \o d, Absent, Absent)
<1>1. Plays(a \o b, Absent, Absent)
    BY PlaysBoth, Zenon
<1>2. Plays(a \o b \o c, Absent, Absent)
    BY <1>1, PlaysBoth, Zenon
<1> QED
    BY <1>2, PlaysBoth, Zenon

LEMMA OurTest3Plays == Plays(Tests!test3, Absent, Absent)
<1>1. Plays(<<Tests!Create, Tests!InsertRef(11, -1), Tests!InsertRef(13, 99), Tests!InsertRef(12, 1),
              Tests!Size(3), Tests!RefAt(-1, 11), Tests!RefAt(99, 13), Tests!Delete(-2, FALSE),
              Tests!Size(2), Tests!Delete(98, FALSE), Tests!Size(1), Tests!Free(FALSE),
              Tests!IsList(FALSE)>>, Absent, Absent)
    <2>1. /\ Right(Tests!Create, Absent, Present(<< >>))
          /\ Right(Tests!Free(FALSE), Present(<<12>>), Absent)
          /\ Right(Tests!IsList(FALSE), Absent, Absent)
        BY CreateIsRight, FreeIsRight, IsListIsRight
    <2>2. /\ Right(Tests!InsertRef(11, -1), Present(<< >>), Present(<<11>>))
          /\ Right(Tests!InsertRef(13, 99), Present(<<11>>), Present(<<11, 13>>))
          /\ Right(Tests!InsertRef(12, 1), Present(<<11, 13>>), Present(<<11, 12, 13>>))
        <3>1. /\ 11 \in Ids /\ -1 \in Int /\ 13 \in Ids /\ 99 \in Int /\ 99 >= 1 /\ 12 \in Ids
              /\ 1 \in Int /\ 1 = 1 /\ 13 # 11 /\ 12 # 11 /\ 12 # 13
            BY DEF Ids
        <3> QED
            BY <3>1, References, Zenon
    <2>3. /\ Right(Tests!Delete(-2, FALSE), Present(<<11, 12, 13>>), Present(<<12, 13>>))
          /\ Right(Tests!Delete(98, FALSE), Present(<<12, 13>>), Present(<<12>>))
        <3>1. /\ 11 \in Ids /\ 12 \in Ids /\ 13 \in Ids /\ -2 \in Int /\ FALSE \in BOOLEAN
              /\ -2 <= 0 /\ 98 \in Int /\ 98 >= 2
            BY DEF Ids
        <3> QED
            BY <3>1, Deletions, Zenon
    <2>4. /\ Right(Tests!Size(3), Present(<<11, 12, 13>>), Present(<<11, 12, 13>>))
          /\ Right(Tests!Size(2), Present(<<12, 13>>), Present(<<12, 13>>))
          /\ Right(Tests!Size(1), Present(<<12>>), Present(<<12>>))
        <3>1. /\ 3 \in Int /\ 3 = Len(<<11, 12, 13>>) /\ 2 \in Int /\ 2 = Len(<<12, 13>>)
              /\ 1 \in Int /\ 1 = Len(<<12>>)
            OBVIOUS
        <3> QED
            BY <3>1, SizeIsRight, Zenon
    <2>5. /\ Right(Tests!RefAt(-1, 11), Present(<<11, 12, 13>>), Present(<<11, 12, 13>>))
          /\ Right(Tests!RefAt(99, 13), Present(<<11, 12, 13>>), Present(<<11, 12, 13>>))
        <3>1. /\ -1 \in Int /\ 11 \in Int /\ 11 = Found(<<11, 12, 13>>, -1) /\ 99 \in Int
              /\ 13 \in Int /\ 13 = Found(<<11, 12, 13>>, 99)
            BY DEF Found
        <3> QED
            BY <3>1, AtIsRight, Zenon
    <2> QED
        BY <2>1, <2>2, <2>3, <2>4, <2>5, Plays13, Zenon
<1>2. Plays(<<Tests!Insert(13, 99), Tests!Insert(11, -1), Tests!Insert(12, 1), Tests!Size(3),
              Tests!Delete(-2, TRUE), Tests!Size(2), Tests!Delete(98, TRUE),
              Tests!Size(1)>>, Present(<< >>), Present(<<12>>))
    <2>1. /\ Right(Tests!Insert(13, 99), Present(<< >>), Present(<<13>>))
          /\ Right(Tests!Insert(11, -1), Present(<<13>>), Present(<<11, 13>>))
          /\ Right(Tests!Insert(12, 1), Present(<<11, 13>>), Present(<<11, 12, 13>>))
        <3>1. /\ 13 \in Ids /\ 99 \in Int /\ 11 \in Ids /\ -1 \in Int /\ -1 <= 0 /\ 12 \in Ids
              /\ 1 \in Int /\ 1 = 1
            BY DEF Ids
        <3> QED
            BY <3>1, Insertions, Zenon
    <2>2. /\ Right(Tests!Delete(-2, TRUE), Present(<<11, 12, 13>>), Present(<<12, 13>>))
          /\ Right(Tests!Delete(98, TRUE), Present(<<12, 13>>), Present(<<12>>))
        <3>1. /\ 11 \in Ids /\ 12 \in Ids /\ 13 \in Ids /\ -2 \in Int /\ TRUE \in BOOLEAN
              /\ -2 <= 0 /\ 98 \in Int /\ 98 >= 2
            BY DEF Ids
        <3> QED
            BY <3>1, Deletions, Zenon
    <2>3. /\ Right(Tests!Size(3), Present(<<11, 12, 13>>), Present(<<11, 12, 13>>))
          /\ Right(Tests!Size(2), Present(<<12, 13>>), Present(<<12, 13>>))
          /\ Right(Tests!Size(1), Present(<<12>>), Present(<<12>>))
        <3>1. /\ 3 \in Int /\ 3 = Len(<<11, 12, 13>>) /\ 2 \in Int /\ 2 = Len(<<12, 13>>)
              /\ 1 \in Int /\ 1 = Len(<<12>>)
            OBVIOUS
        <3> QED
            BY <3>1, SizeIsRight, Zenon
    <2> QED
        BY <2>1, <2>2, <2>3, Plays8, Zenon
<1>3. Plays(Tests!Fresh(<<Tests!Insert(13, 99), Tests!Insert(11, -1), Tests!Insert(12, 1),
                          Tests!Size(3), Tests!Delete(-2, TRUE), Tests!Size(2),
                          Tests!Delete(98, TRUE), Tests!Size(1)>>, TRUE), Absent, Absent)
    BY <1>2, FreshPlays
<1>4. Plays(<<Tests!Make(11), Tests!Make(12), Tests!Make(13)>>, Absent, Absent)
    <2>1. /\ Right(Tests!Make(11), Absent, Absent) /\ Right(Tests!Make(12), Absent, Absent)
          /\ Right(Tests!Make(13), Absent, Absent)
        BY MakeIsRight DEF Ids
    <2> QED
        BY <2>1, Plays3, Zenon
<1>5. Plays(<<Tests!Release(11), Tests!Release(12), Tests!Release(13)>>, Absent, Absent)
    <2>1. /\ Right(Tests!Release(11), Absent, Absent) /\ Right(Tests!Release(12), Absent, Absent)
          /\ Right(Tests!Release(13), Absent, Absent)
        BY ReleaseIsRight DEF Ids
    <2> QED
        BY <2>1, Plays3, Zenon
<1> QED
    BY <1>1, <1>3, <1>4, <1>5, FourPlay, Zenon DEF Tests!test3

LEMMA RandomPlays == Plays(Tests!randomtest, Absent, Present(<<1, 3, 5, 7>>))
<1>1. Plays(<<Tests!Create, Tests!Insert(1, 0), Tests!Insert(3, 1), Tests!Insert(7, 5),
              Tests!Insert(5, 2)>>, Absent, Present(<<1, 3, 5, 7>>))
    <2>1. Right(Tests!Create, Absent, Present(<< >>))
        BY CreateIsRight
    <2>2. /\ Right(Tests!Insert(1, 0), Present(<< >>), Present(<<1>>))
          /\ Right(Tests!Insert(3, 1), Present(<<1>>), Present(<<1, 3>>))
          /\ Right(Tests!Insert(7, 5), Present(<<1, 3>>), Present(<<1, 3, 7>>))
          /\ Right(Tests!Insert(5, 2), Present(<<1, 3, 7>>), Present(<<1, 3, 5, 7>>))
        <3>1. /\ 1 \in Ids /\ 0 \in Int /\ 3 \in Ids /\ 1 \in Int /\ 1 >= 1 /\ 7 \in Ids
              /\ 5 \in Int /\ 5 >= 2 /\ 5 \in Ids /\ 2 \in Int /\ 2 = 2
            BY DEF Ids
        <3> QED
            BY <3>1, Insertions, Zenon
    <2> QED
        BY <2>1, <2>2, Plays5, Zenon
<1> QED
    BY <1>1 DEF Tests!randomtest

-----------------------------------------------------------------------------
(* What is known while a test function runs.  The one test on the list     *)
(* NULL makes no list; every other goes through the lists it was played    *)
(* with, and leaves none, but randomtest leaves a list to be cleaned.      *)

Script(calls, at) ==
    /\ Played(calls, at) /\ at[1] = Absent
    /\ at[Len(calls) + 1] = IF calls = Tests!randomtest THEN Present(<<1, 3, 5, 7>>) ELSE Absent

Running ==
    /\ v10 = "off" /\ Proven!IInv
    /\ IF v8 = Tests!test2 THEN ~v1
       ELSE Live /\ \E at : Script(v8, at) /\ Listing = at[v9 + 1]

(* dpl_cleanup_rand, and what follows.                                     *)
Cleaning ==
    /\ v10 = "on" /\ v8 = Tests!randomtest /\ v9 = Len(v8) /\ v1
    /\ Proven!IInv

Cleaned ==
    /\ v10 = "over" /\ v8 = Tests!randomtest /\ v9 = Len(v8)
    /\ Proven!IInv /\ v7 = << >>

TestInv ==
    /\ v8 \in Tests!Scripts \cup {Tests!randomtest}
    /\ v9 \in 0..Len(v8)
    /\ Running \/ Cleaning \/ Cleaned

LEMMA NullScript ==
    /\ Len(Tests!test2) = 6 /\ Tests!test2 # Tests!randomtest
    /\ \A i \in 1..6 : Tests!test2[i] \in
           {Tests!Make(10), Tests!InsertRef(10, -1), Tests!Insert(10, 99), Tests!IsList(FALSE),
            Tests!Release(10)}
<1>1. Len(Tests!test2) = 6 /\ Len(Tests!randomtest) = 5
    BY DEF Tests!test2, Tests!randomtest
<1>2. /\ Tests!test2[1] = Tests!Make(10) /\ Tests!test2[2] = Tests!InsertRef(10, -1)
      /\ Tests!test2[3] = Tests!IsList(FALSE) /\ Tests!test2[4] = Tests!Insert(10, 99)
      /\ Tests!test2[5] = Tests!IsList(FALSE) /\ Tests!test2[6] = Tests!Release(10)
    BY DEF Tests!test2
<1>3. Tests!test2 # Tests!randomtest
    BY <1>1
<1>4. \A i \in 1..6 : i = 1 \/ i = 2 \/ i = 3 \/ i = 4 \/ i = 5 \/ i = 6
    OBVIOUS
<1> QED
    BY <1>1, <1>2, <1>3, <1>4, Zenon

LEMMA ScriptsPlay ==
    ASSUME NEW calls \in Tests!Scripts \cup {Tests!randomtest}, calls # Tests!test2
    PROVE  \E at : Script(calls, at)
<1>1. CASE calls = Tests!randomtest
    BY <1>1, RandomPlays DEF Script, Plays
<1>2. CASE calls # Tests!randomtest
    <2>1. Plays(calls, Absent, Absent)
        BY <1>2, YourTestPlays, Create02Plays, Insert03Plays, Remove04Plays, Size05Plays,
           Reference06Plays, Element07Plays, Index08Plays, Behind09Plays, OurTest1Plays,
           OurTest3Plays DEF Tests!Scripts
    <2>2. PICK at : Played(calls, at) /\ at[1] = Absent /\ at[Len(calls) + 1] = Absent
        BY <2>1 DEF Plays
    <2> QED
        BY <1>2, <2>2 DEF Script
<1> QED
    BY <1>1, <1>2

LEMMA ScriptLength ==
    ASSUME NEW calls \in Tests!Scripts \cup {Tests!randomtest}
    PROVE  Len(calls) \in Nat
<1>1. CASE calls = Tests!test2
    BY <1>1, NullScript
<1>2. CASE calls # Tests!test2
    <2>1. PICK at : Script(calls, at)
        BY <1>2, ScriptsPlay
    <2>2. calls \in Seq(Calls)
        BY <2>1 DEF Script, Played
    <2> QED
        BY <2>2
<1> QED
    BY <1>1, <1>2

LEMMA TestInit == Tests!TestInit => TestInv
<1> SUFFICES ASSUME Tests!TestInit PROVE TestInv
    OBVIOUS
<1>1. /\ v8 \in Tests!Scripts \cup {Tests!randomtest}
      /\ v9 = 0 /\ v10 = "off" /\ Proven!Init
    BY SameProperties DEF Tests!TestInit
<1>2. Proven!IInv
    BY <1>1, ListConstants, Proven!InitInv
<1>3. ~v1 /\ Listing = Absent /\ Live
    <2>1. v1 = FALSE /\ v7 = << >>
        BY <1>1 DEF Proven!Init
    <2>2. KeysOf(v4, v7) = << >>
        BY <2>1, NoKeys
    <2>3. Live
        <3>1. Len(v7) = 0
            BY <2>1
        <3> QED
            BY <3>1 DEF Live
    <2> QED
        BY <2>1, <2>2, <2>3 DEF Listing, Absent
<1>4. Running
    BY <1>1, <1>2, <1>3, ScriptsPlay DEF Running, Script
<1> QED
    BY <1>1, <1>4, ScriptLength DEF TestInv

(* A call of the list NULL, or one that is not of a list.                  *)
LEMMA NullCall ==
    ASSUME Running, v8 = Tests!test2, NEW i \in 1..6, Tests!Call(v8[i])
    PROVE  Proven!IInv' /\ v1' = v1
<1>1. /\ ~v1 /\ Proven!IInv
      /\ v8[i] \in {Tests!Make(10), Tests!InsertRef(10, -1), Tests!Insert(10, 99),
                     Tests!IsList(FALSE), Tests!Release(10)}
    BY NullScript DEF Running
<1>2. CASE v8[i] \in {Tests!Make(10), Tests!Release(10)}
    <2>1. v8[i].key = 10 /\ v8[i].op \in {"make", "release"}
        BY <1>2 DEF Tests!Make, Tests!Release
    <2>2. \/ Proven!CallerMakes(10)
          \/ \E e \in v5 : v4[e] = 10 /\ Proven!CallerFrees(e)
        BY <2>1, SameCalls DEF Tests!Call
    <2> QED
        BY <1>1, <2>2, CallerDone
<1>3. CASE v8[i] \in {Tests!InsertRef(10, -1), Tests!Insert(10, 99), Tests!IsList(FALSE)}
    <2>1. v8[i].op \in {"insert", "isList"}
        BY <1>3 DEF Tests!InsertRef, Tests!Insert, Tests!IsList
    <2>2. UNCHANGED <<v1, v2, v3, v4, v5, v6, v7>>
        BY <1>1, <2>1 DEF Tests!Call, Tests!dpl_insert_at_index, Tests!vars
    <2>3. Proven!Others
        BY <2>2 DEF Proven!Others, Proven!vars
    <2> QED
        BY <1>1, <2>2, <2>3, ListConstants, Proven!OthersKeep
<1> QED
    BY <1>1, <1>2, <1>3

LEMMA RunTestKeeps ==
    ASSUME TestInv, Tests!RunTest
    PROVE  TestInv'
<1>1. /\ v9 < Len(v8) /\ v9' = v9 + 1 /\ Tests!Call(v8[v9 + 1])
      /\ v8' = v8 /\ v10' = v10 /\ v11' = v11
    BY DEF Tests!RunTest
<1>2. /\ v8 \in Tests!Scripts \cup {Tests!randomtest} /\ v9 \in Nat /\ Len(v8) \in Nat
    BY ScriptLength DEF TestInv
<1>3. Running
    BY <1>1, <1>2 DEF TestInv, Cleaning, Cleaned
<1>4. CASE v8 = Tests!test2
    <2>1. v9 + 1 \in 1..6
        BY <1>1, <1>2, <1>4, NullScript
    <2>2. Proven!IInv' /\ v1' = v1
        BY <1>1, <1>3, <1>4, <2>1, NullCall
    <2>3. Running'
        BY <1>1, <1>3, <1>4, <2>2 DEF Running
    <2> QED
        BY <1>1, <1>2, <2>3 DEF TestInv
<1>5. CASE v8 # Tests!test2
    <2>0. Live
        BY <1>3, <1>5 DEF Running
    <2>1. PICK at : Script(v8, at) /\ Listing = at[v9 + 1]
        BY <1>3, <1>5 DEF Running
    <2>2. Right(v8[v9 + 1], Listing, at[(v9 + 1) + 1])
        BY <1>1, <1>2, <2>1 DEF Script, Played
    <2>3. Proven!IInv' /\ Live' /\ Listing' = at[v9' + 1]
        BY <1>1, <1>3, <2>0, <2>2, CallDone DEF Running
    <2>4. Running'
        BY <1>1, <1>3, <1>5, <2>1, <2>3 DEF Running
    <2> QED
        BY <1>1, <1>2, <2>4 DEF TestInv
<1> QED
    BY <1>4, <1>5

LEMMA CleanupStarts ==
    ASSUME TestInv, Tests!StartCleanup
    PROVE  TestInv'
<1>1. /\ v8 = Tests!randomtest /\ v9 = Len(v8) /\ v10 = "off" /\ v10' = "on"
      /\ UNCHANGED <<v1, v2, v3, v4, v5, v6, v7, v8, v9, v11>>
    BY DEF Tests!StartCleanup, Tests!vars
<1>2. Proven!IInv /\ Proven!IInv'
    BY <1>1, ListConstants, Proven!OthersKeep
       DEF Proven!vars, Proven!Others, TestInv, Running, Cleaning, Cleaned
<1>3. v1
    <2>1. PICK at : Script(v8, at) /\ Listing = at[Len(v8) + 1]
        BY <1>1, NullScript DEF TestInv, Running, Cleaning, Cleaned
    <2> QED
        BY <1>1, <2>1 DEF Script, Present, Listing
<1> QED
    BY <1>1, <1>2, <1>3 DEF TestInv, Cleaning

(* A round of dpl_cleanup_rand: it removes what it finds, or finds the     *)
(* list empty.                                                             *)
LEMMA CleanupKeeps ==
    ASSUME TestInv, Tests!dpl_cleanup_rand
    PROVE  TestInv'
<1>1. PICK index \in -1..Tests!dpl_size : Tests!dpl_remove_at_index(index, TRUE)
    BY DEF Tests!dpl_cleanup_rand
<1>2. /\ v10 = "on" /\ v11' = Tests!dpl_size
      /\ v10' = IF v11' > 0 THEN "on" ELSE "over"
      /\ v8' = v8 /\ v9' = v9
    BY <1>1 DEF Tests!dpl_cleanup_rand
<1>3. v8 = Tests!randomtest /\ v9 = Len(v8) /\ v1 /\ Proven!IInv
    BY <1>2 DEF TestInv, Running, Cleaning, Cleaned
<1>4. /\ Tests!dpl_size = Len(v7) /\ Proven!dpl_size = Len(v7) /\ Len(v7) \in Nat
      /\ (v2 = NULL <=> v7 = << >>) /\ v7 \in Seq(Objs)
    BY <1>3, ListOf, SameWalks DEF Tests!dpl_size
<1>5. CASE v2 = NULL
    <2>1. UNCHANGED <<v1, v2, v3, v4, v5, v6, v7>>
        BY <1>1, <1>5 DEF Tests!dpl_remove_at_index, Tests!vars
    <2>2. Proven!IInv' /\ v7' = << >> /\ v10' = "over"
        BY <1>2, <1>3, <1>4, <1>5, <2>1, ListConstants, Proven!OthersKeep
           DEF Proven!vars, Proven!Others
    <2>3. Cleaned'
        BY <1>2, <1>3, <2>2 DEF Cleaned
    <2> QED
        BY <1>2, <2>3 DEF TestInv
<1>6. CASE v2 # NULL
    <2>1. Proven!dpl_remove_at_index(index, TRUE)
        BY <1>1, <1>6, SameCalls DEF Tests!dpl_remove_at_index
    <2>2. /\ index \in Int /\ v10' = "on" /\ v1'
          /\ Proven!dpl_size = 1 => index <= 0
        BY <1>2, <1>3, <1>4, <1>6, <2>1 DEF Proven!dpl_remove_at_index
    <2>3. Proven!IInv'
        BY <1>3, <2>1, <2>2, ListConstants, Proven!Removal
    <2>4. Cleaning'
        BY <1>2, <1>3, <2>2, <2>3 DEF Cleaning
    <2> QED
        BY <1>2, <2>4 DEF TestInv
<1> QED
    BY <1>5, <1>6

LEMMA FreeEmptyKeeps ==
    ASSUME TestInv, Tests!FreeEmpty
    PROVE  TestInv'
<1>1. /\ v10 = "over" /\ v10' = v10 /\ v8' = v8 /\ v9' = v9
      /\ Proven!dpl_free(FALSE)
    BY SameCalls DEF Tests!FreeEmpty, Tests!dpl_free
<1>2. v8 = Tests!randomtest /\ v9 = Len(v8) /\ Proven!IInv
    BY <1>1 DEF TestInv, Running, Cleaning, Cleaned
<1>3. Proven!IInv' /\ v7' = << >>
    BY <1>1, <1>2, ListConstants, Proven!Freeing DEF Proven!dpl_free
<1>4. Cleaned'
    BY <1>1, <1>2, <1>3 DEF Cleaned
<1> QED
    BY <1>1, <1>4 DEF TestInv

(* What the tests assert follows.                                          *)
LEMMA TestInvHolds ==
    ASSUME TestInv
    PROVE  Tests!TestsHold
<1>1. Proven!IInv
    BY DEF TestInv, Running, Cleaning, Cleaned
<1>2. /\ Tests!List!TypeOK
      /\ Tests!List!BothWaysContents /\ Tests!List!NothingLeaks
    BY <1>1, SameProperties, ListConstants, Proven!IInvImplies DEF Proven!IInv
<1>4. ASSUME v9 < Len(v8), "expect" \in DOMAIN v8[v9 + 1]
      PROVE  Tests!Answer(v8[v9 + 1]) = v8[v9 + 1].expect
    <2>1. v9 + 1 \in 1..Len(v8) /\ Running
        BY <1>4, ScriptLength DEF TestInv, Cleaning, Cleaned
    <2>2. CASE v8 = Tests!test2
        <3>1. v8[v9 + 1] \in
                  {Tests!Make(10), Tests!InsertRef(10, -1), Tests!Insert(10, 99),
                   Tests!IsList(FALSE), Tests!Release(10)}
            BY <2>1, <2>2, NullScript
        <3>2. \A call \in {Tests!Make(10), Tests!InsertRef(10, -1), Tests!Insert(10, 99),
                           Tests!Release(10)} : "expect" \notin DOMAIN call
            BY DEF Tests!Make, Tests!InsertRef, Tests!Insert, Tests!Release
        <3>3. v8[v9 + 1] = Tests!IsList(FALSE)
            BY <1>4, <3>1, <3>2
        <3>4. v1 = FALSE
            BY <2>1, <2>2, ListOf DEF Running
        <3>5. v8[v9 + 1].op = "isList" /\ v8[v9 + 1].expect = FALSE
            BY <3>3 DEF Tests!IsList
        <3> QED
            BY <3>4, <3>5 DEF Tests!Answer
    <2>3. CASE v8 # Tests!test2
        <3>1. PICK at : Script(v8, at) /\ Listing = at[v9 + 1]
            BY <2>1, <2>3 DEF Running
        <3>2. Right(v8[v9 + 1], Listing, at[(v9 + 1) + 1])
            BY <2>1, <3>1 DEF Script, Played
        <3>3. v8[v9 + 1] \in Queries
            <4>1. v8[v9 + 1] \in Calls
                BY <3>2 DEF Right
            <4> QED
                BY <1>4, <4>1 DEF Calls
        <3>4. Proven!IInv /\ Live
            BY <2>1, <2>3 DEF Running
        <3>5. Tests!Answer(v8[v9 + 1]) = v8[v9 + 1].expect
            BY <3>2, <3>3, <3>4, AnswerIsRight
        <3> QED
            BY <3>5
    <2> QED
        BY <2>2, <2>3
<1>5. ASSUME Tests!TestFinished
      PROVE  Tests!List!nodes = {}
    <2>1. v7 = << >>
        <3>1. CASE v8 = Tests!randomtest
            BY <1>1, <1>5, <3>1, ListOf DEF Tests!TestFinished
        <3>2. CASE v8 = Tests!test2
            BY <1>1, <3>2, NullScript, ListOf DEF TestInv, Running, Cleaning, Cleaned
        <3>3. CASE v8 # Tests!randomtest /\ v8 # Tests!test2
            <4>1. PICK at : Script(v8, at) /\ Listing = at[Len(v8) + 1]
                BY <1>5, <3>3 DEF TestInv, Running, Cleaning, Cleaned, Tests!TestFinished
            <4>2. Live
                BY <1>5, <3>3 DEF TestInv, Running, Cleaning, Cleaned, Tests!TestFinished
            <4>3. KeysOf(v4, v7) = << >>
                BY <3>3, <4>1, <4>2 DEF Script, Absent, Listing
            <4> QED
                BY <1>1, <4>2, <4>3, KeysOfList
        <3> QED
            BY <3>1, <3>2, <3>3
    <2>2. Proven!dpl_size = 0
        BY <1>1, <2>1, ListOf
    <2>3. Proven!Listed = {}
        BY <2>2 DEF Proven!Listed
    <2>4. Proven!NothingLeaks
        BY <1>1, ListConstants, Proven!IInvImplies
    <2> QED
        BY <2>3, <2>4, SameWalks DEF Proven!NothingLeaks
<1> QED
    BY <1>2, <1>4, <1>5 DEF Tests!TestsHold

(* Every assert of the unit tests holds when it is reached, whichever      *)
(* addresses malloc returns; the list is right after each call, and at the *)
(* end of a test its nodes are gone.  The random removal is right as well, *)
(* whichever indexes it picks, 0 or less for the last of its elements.     *)
THEOREM TestsCorrect == Safety => [](program = "tests" => Tests!TestsHold)
<1> DEFINE Inv == program = "tests" => TestInv
<1>1. Init => Inv
    BY TestInit DEF Init
<1>2. Inv /\ [Next]_vars => Inv'
    <2> SUFFICES ASSUME Inv, [Next]_vars, program' = "tests" PROVE TestInv'
        OBVIOUS
    <2>1. program = "tests" /\ TestInv
        BY SameProgram
    <2>2. Tests!TestStep \/ UNCHANGED <<v1, v2, v3, v4, v5, v6, v7, v8, v9, v10, v11>>
        BY <2>1 DEF Next, Step, Milestone3Step, Others, Accidents, vars
    <2>3. CASE Tests!TestStep
        BY <2>1, <2>3, RunTestKeeps, CleanupStarts, CleanupKeeps, FreeEmptyKeeps
           DEF Tests!TestStep
    <2>4. CASE UNCHANGED <<v1, v2, v3, v4, v5, v6, v7, v8, v9, v10, v11>>
        <3>1. Proven!IInv => Proven!IInv'
            BY <2>4, ListConstants, Proven!OthersKeep DEF Proven!vars, Proven!Others
        <3>3. Listing' = Listing /\ (Live => Live')
            BY <2>4 DEF Listing, KeysOf, Live, Proven!objs
        <3>4. Running \/ Cleaning \/ Cleaned => (Running \/ Cleaning \/ Cleaned)'
            BY <2>4, <3>1, <3>3 DEF Running, Cleaning, Cleaned
        <3> QED
            BY <2>1, <2>4, <3>3, <3>4 DEF TestInv
    <2> QED
        BY <2>2, <2>3, <2>4
<1>3. Inv => (program = "tests" => Tests!TestsHold)
    BY TestInvHolds
<1> QED
    BY <1>1, <1>2, <1>3, PTL DEF Safety

(* The lists and lookups that stand beside the gateway's, together.        *)
THEOREM ListsCorrect == Safety => []ListsAnswerAsTold
<1> DEFINE Told == /\ program = "tests" => Tests!TestsHold
                   /\ program = "lists" => Lists!ExercisesHold
                   /\ program = "datamgr" => Datamgr!ReadingsAreFiled
<1>1. Told => ListsAnswerAsTold
    BY DEF ListsAnswerAsTold
<1> QED
    BY <1>1, TestsCorrect, ExercisesCorrect, LookupCorrect, PTL
================================================================================
