----------------------------- MODULE Milestone3 -----------------------------
(***************************************************************************)
(* milestone3: a writer puts the records of a file in a shared buffer, two *)
(* readers compete for them and append them to a csv file.  The first      *)
(* record with id 0, from the file or put behind it, ends the stream: the  *)
(* reader that meets it leaves it at the head and signals the other one.   *)
(* What happens under a mutex is one step.                                 *)
(***************************************************************************)
EXTENDS Naturals, Sequences, Functions, CondVar

CONSTANT MaxRecords    \* bound: the length of the file

VARIABLES
    records,    \* rigid: the file, by what the ids are: "sensor" or "zero"
    pc,         \* main, the writer and both readers
    count,      \* how many records the writer has read
    buffer,     \* places in the file; Eos is the record put behind it
    holding,    \* what each reader has removed and not yet written
    csv,        \* the places in the order they were written
    dropped,    \* history: sbuffer_insert failed
    process     \* running or exited

vars == <<records, pc, count, buffer, holding, csv, dropped, process>>

Reader == {"reader1", "reader2"}
Eos    == Len(records) + 1
IdOf(i) == IF i = Eos THEN "zero" ELSE records[i]

Init ==
    /\ records \in UNION {[1..n -> {"sensor", "zero"}] : n \in 0..MaxRecords}
    /\ pc = [t \in Reader \cup {"main", "writer"} |-> IF t = "main" THEN "open" ELSE "none"]
    /\ count = 0 /\ buffer = << >> /\ csv = << >>
    /\ holding = [r \in Reader |-> 0]
    /\ dropped = FALSE /\ process = "running"

Go(t, from, to) ==
    /\ process = "running"
    /\ pc[t] = from
    /\ pc' = [pc EXCEPT ![t] = to]

(* exit(EXIT_FAILURE): a file cannot be opened, the buffer not be made or  *)
(* a thread not be created.                                                *)
Exit(t, places) ==
    /\ process = "running"
    /\ pc[t] \in places
    /\ process' = "exited"
    /\ UNCHANGED <<records, pc, count, buffer, holding, csv, dropped>>

-----------------------------------------------------------------------------
(* main *)

OpenCsv ==
    /\ Go("main", "open", "create")
    /\ UNCHANGED <<records, count, buffer, holding, csv, dropped, process>>

Create ==
    /\ process = "running"
    /\ pc["main"] = "create"
    /\ pc' = CASE pc["writer"] = "none"  -> [pc EXCEPT !["writer"] = "open"]
               [] pc["writer"] # "none" /\ pc["reader1"] = "none" -> [pc EXCEPT !["reader1"] = "remove"]
               [] OTHER -> [pc EXCEPT !["reader2"] = "remove", !["main"] = "join"]
    /\ UNCHANGED <<records, count, buffer, holding, csv, dropped, process>>

sbuffer_free == buffer' = << >>

JoinAndFree ==
    /\ \A t \in Reader \cup {"writer"} : pc[t] = "end"
    /\ Go("main", "join", "end")
    /\ sbuffer_free
    /\ UNCHANGED <<records, count, holding, csv, dropped, process>>

-----------------------------------------------------------------------------
(* writerThread *)

(* sbuffer_insert; next is where its caller, the writer, goes on.          *)
sbuffer_insert(i, next) ==
    \/ /\ buffer' = Append(buffer, i)
       /\ pc' \in Signalled([pc EXCEPT !["writer"] = next], Reader, "remove")
       /\ UNCHANGED dropped
    \/ /\ dropped' = TRUE
       /\ pc' = [pc EXCEPT !["writer"] = next]
       /\ UNCHANGED buffer

OpenFile ==
    /\ Go("writer", "open", "read")
    /\ UNCHANGED <<records, count, buffer, holding, csv, dropped, process>>

CopyRecord ==
    /\ process = "running"
    /\ pc["writer"] = "read"
    /\ count < Len(records)
    /\ count' = count + 1
    /\ sbuffer_insert(count', "read")
    /\ UNCHANGED <<records, holding, csv, process>>

AddEos ==
    /\ process = "running"
    /\ pc["writer"] = "read"
    /\ count = Len(records)
    /\ sbuffer_insert(Eos, "end")
    /\ UNCHANGED <<records, count, holding, csv, process>>

-----------------------------------------------------------------------------
(* readerThread *)

(* Fault: the other reader is not signalled.                               *)
RelayNothing(r) == pc' = [pc EXCEPT ![r] = "end"]

RelayEos(r) == pc' \in Signalled([pc EXCEPT ![r] = "end"], Reader, "remove")

sbuffer_remove(r) ==
    /\ process = "running"
    /\ pc[r] = "remove"
    /\ IF buffer = << >> THEN
            pc' = [pc EXCEPT ![r] = "wait"] /\ UNCHANGED <<buffer, holding>>
       ELSE IF IdOf(Head(buffer)) = "zero" THEN
            RelayEos(r) /\ UNCHANGED <<buffer, holding>>
       ELSE /\ holding' = [holding EXCEPT ![r] = Head(buffer)]
            /\ buffer' = Tail(buffer)
            /\ pc' = [pc EXCEPT ![r] = "write"]
    /\ UNCHANGED <<records, count, csv, dropped, process>>

WriteCsv(r) ==
    /\ Go(r, "write", "remove")
    /\ csv' = Append(csv, holding[r])
    /\ holding' = [holding EXCEPT ![r] = 0]
    /\ UNCHANGED <<records, count, buffer, dropped, process>>

SpuriousWake(r) ==
    /\ Go(r, "wait", "remove")
    /\ UNCHANGED <<records, count, buffer, holding, csv, dropped, process>>

-----------------------------------------------------------------------------
Step(t) ==
    \/ t = "main"   /\ (OpenCsv \/ Create \/ JoinAndFree)
    \/ t = "writer" /\ (OpenFile \/ CopyRecord \/ AddEos)
    \/ t \in Reader /\ (sbuffer_remove(t) \/ WriteCsv(t))

Accident ==
    \/ \E r \in Reader : SpuriousWake(r)
    \/ Exit("main", {"open", "create"})
    \/ Exit("writer", {"open"})

Next == (\E t \in DOMAIN pc : Step(t)) \/ Accident

Spec == Init /\ [][Next]_vars /\ \A t \in Reader \cup {"main", "writer"} : WF_vars(Step(t))
-----------------------------------------------------------------------------
EosIsPut ==
    /\ pc["writer"] = "end"
    /\ ~dropped \/ \E i \in DOMAIN buffer : IdOf(buffer[i]) = "zero"

Ended == process = "exited" \/ pc["main"] = "end"

(* Types of every variable.                                                *)
TypeOK ==
    /\ pc \in [Reader \cup {"main", "writer"} ->
                  {"none", "open", "create", "join", "read", "remove", "wait", "write", "end"}]
    /\ count \in 0..Len(records)
    /\ buffer \in Seq(1..Eos) /\ csv \in Seq(1..Eos)
    /\ holding \in [Reader -> 0..Eos]
    /\ dropped \in BOOLEAN /\ process \in {"running", "exited"}

(* Whichever reader gets a record, it is in one place: the buffer, one     *)
(* reader's hands or one line of the csv file; nothing behind the first id *)
(* 0 is taken; nobody sleeps over a record, or over the end of the stream, *)
(* when nobody else is awake who will take it or pass the signal on; and   *)
(* in the end every record in front of that id is in the file, unless its  *)
(* insertion failed.                                                       *)
ReadersShareTheFile ==
    LET held  == {holding[r] : r \in Reader} \ {0}
        taken == Range(csv) \cup held
        zeros == {i \in 1..Eos : IdOf(i) = "zero"}
    IN  /\ \A i, j \in DOMAIN csv : csv[i] = csv[j] => i = j
        /\ Range(csv) \cap held = {}
        /\ taken \cap Range(buffer) = {}
        /\ taken \cap zeros = {}
        /\ ~dropped => \A i \in taken, z \in zeros : i < z
        /\ (buffer # << >> /\ \E r \in Reader : pc[r] = "wait")
               => \E r \in Reader : pc[r] \in {"remove", "write"}
        /\ (pc["main"] = "end" /\ ~dropped)
               => \A i \in 1..Len(records) : (\A z \in zeros : i < z) => i \in Range(csv)
=============================================================================
