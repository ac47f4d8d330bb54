--------------------------- MODULE ListExercises ---------------------------
(***************************************************************************)
(* The lists that Dplist grew from: lab3m1/ex1/dplist.c, of characters,    *)
(* and lab3m1/ex2/dplist.c, of copied strings, which go with their nodes.  *)
(* Both have a tail.  That of ex1 is not initialised and only ever reset;  *)
(* ex2 uses it as the answer to an index that is too big.  A call that     *)
(* follows NULL or frees what malloc did not return crashes.  Callers use  *)
(* any index; program.c of ex1 is a caller as well.  malloc succeeds.      *)
(* There are calls for which the code does not do what its own header says *)
(* (ex1/dplist.h and ex2/dplist.h, which say the same); careful callers    *)
(* know them and make no such call.                                        *)
(***************************************************************************)
EXTENDS Integers, SequencesExt, ListScripts

CONSTANTS MaxNodes,       \* bound: nodes that live at a time
          Element,
          Index,          \* the indexes callers use
          CarefulCallers  \* do callers avoid what the code does not do?

VARIABLES kind,           \* rigid: ex1, ex2 or program
          exists, head, tail, heap,
          contents,       \* history: the elements by the rules of the headers
          crash,          \* the call that crashed
          done            \* program.c: how many of its calls were made

vars == <<kind, exists, head, tail, heap, contents, crash, done>>

Nil == 0
Junk == -1
None == [op |-> "none", index |-> 0, size |-> 0]
nodes == DOMAIN heap

Init ==
    /\ kind \in {"ex1", "ex2", "program"}
    /\ exists = FALSE /\ head = Nil /\ tail = Nil
    /\ heap = << >> /\ contents = << >>
    /\ crash = None /\ done = 0

-----------------------------------------------------------------------------
(* current after k rounds of a loop that starts at head.                   *)
After[k \in Nat] ==
    IF k = 0 THEN head
    ELSE IF After[k - 1] = Nil THEN Nil ELSE heap[After[k - 1]].next

dpl_size == Cardinality({k \in 0..MaxNodes : After[k] # Nil})

LastNode == After[dpl_size - 1]

Walk == [i \in 1..dpl_size |-> heap[After[i - 1]].element]

(* Only called on a list with nodes and an index of at least 1.            *)
dpl_get_reference_at_index(index) ==
    IF index < dpl_size THEN After[index]
    ELSE IF kind = "ex2" THEN tail ELSE LastNode

(* That of ex1 reads the tail beyond the end, which is NULL or junk; that  *)
(* of ex2 has no element for an index outside the list.                    *)
dpl_get_element_at_index(index) ==
    CASE index <= 0 /\ (kind # "ex2" \/ index = 0) -> heap[head].element
      [] index > 0 /\ index < dpl_size             -> heap[After[index]].element
      [] OTHER -> IF kind # "ex2" /\ tail \in nodes THEN heap[tail].element ELSE Junk

(* The calls that change the list and do not do what the header says.      *)
Surprising(op, index) ==
    \/ op = "free" /\ kind = "ex2"
    \/ head # Nil /\ kind = "ex2" /\ op = "insert" /\ index >= dpl_size
    \/ head # Nil /\ kind = "ex2" /\ op = "remove" /\ (index < 0 \/ (index > 0 /\ dpl_size = 1))
    \/ head # Nil /\ kind # "ex2" /\ op = "remove" /\ index > 0 /\ index >= dpl_size - 1

Avoided(op, index) == CarefulCallers /\ Surprising(op, index)

Crash(op, index) ==
    /\ crash' = [op |-> op, index |-> index, size |-> dpl_size]
    /\ UNCHANGED <<exists, head, tail, heap, contents>>

dpl_create ==
    /\ ~exists
    /\ exists' = TRUE
    /\ head' = Nil
    /\ tail' = IF kind = "ex2" THEN Nil ELSE Junk
    /\ UNCHANGED <<heap, contents, crash>>

-----------------------------------------------------------------------------
(* Insertion.                                                              *)

(* Fault: the one behind does not learn of its new neighbour.              *)
BetweenForward(p, n, x, e) ==
    [m \in nodes \cup {n} |->
        IF m = n THEN [prev |-> p, next |-> x, element |-> e]
        ELSE [heap[m] EXCEPT !.next = IF m = p THEN n ELSE @]]

(* Node n linked between p and x, of which either may be Nil.             *)
Between(p, n, x, e) ==
    [m \in nodes \cup {n} |->
        IF m = n THEN [prev |-> p, next |-> x, element |-> e]
        ELSE [heap[m] EXCEPT !.next = IF m = p THEN n ELSE @,
                             !.prev = IF m = x THEN n ELSE @]]

(* ex1 appends behind the end; ex2 stays in front of the last node.        *)
Behind(index) == kind # "ex2" /\ index >= dpl_size

(* What the headers promise of an insertion.                               *)
WithInserted(e, index) ==
    CASE index <= 0                         -> <<e>> \o contents
      [] index > 0 /\ index < Len(contents) -> InsertAt(contents, index + 1, e)
      [] OTHER                              -> Append(contents, e)

dpl_insert_at_index(e, index) ==
    /\ exists /\ ~Avoided("insert", index)
    /\ \E n \in 1..MaxNodes \ nodes :
          /\ \A m \in 1..MaxNodes \ nodes : n <= m
          /\ LET ref   == dpl_get_reference_at_index(index)
                 front == head = Nil \/ index <= 0
                 p     == IF front THEN Nil ELSE IF Behind(index) THEN ref ELSE heap[ref].prev
                 x     == IF front THEN head ELSE IF Behind(index) THEN Nil ELSE ref
             IN  /\ heap' = Between(p, n, x, e)
                 /\ head' = IF p = Nil THEN n ELSE head
          /\ tail' = IF kind = "ex2" /\ head = Nil THEN n ELSE tail
    /\ contents' = WithInserted(e, index)
    /\ UNCHANGED <<exists, crash>>

-----------------------------------------------------------------------------
(* Removal.                                                                *)

(* What the headers promise of a removal.                                  *)
WithRemoved(index) ==
    CASE contents = << >>                   -> << >>
      [] contents # << >> /\ index <= 0     -> Tail(contents)
      [] index > 0 /\ index < Len(contents) -> RemoveAt(contents, index + 1)
      [] OTHER                              -> Front(contents)

TailWithout(n) ==
    IF kind = "ex2" THEN IF n = tail THEN heap[n].prev ELSE tail
    ELSE IF n = head /\ heap[n].next = Nil THEN Nil ELSE tail

(* Node n is unlinked and freed.                                           *)
RemoveNode(n) ==
    /\ heap' = [m \in nodes \ {n} |->
                   [heap[m] EXCEPT !.next = IF m = heap[n].prev THEN heap[n].next ELSE @,
                                   !.prev = IF m = heap[n].next THEN heap[n].prev ELSE @]]
    /\ head' = IF n = head THEN heap[n].next ELSE head
    /\ tail' = TailWithout(n)
    /\ UNCHANGED <<exists, crash>>

(* A negative index is the front in ex1 and wrong in ex2.  Where there is  *)
(* an index both follow prev, and ex1 always follows next as well.         *)
dpl_remove_at_index(index) ==
    /\ exists /\ ~Avoided("remove", index)
    /\ IF head = Nil \/ (kind = "ex2" /\ index < 0) THEN
            /\ contents' = WithRemoved(index)
            /\ UNCHANGED <<exists, head, tail, heap, crash>>
       ELSE LET n == IF index <= 0 THEN head ELSE dpl_get_reference_at_index(index)
            IN  IF index > 0 /\ (heap[n].prev = Nil \/ (kind # "ex2" /\ heap[n].next = Nil))
                THEN Crash("remove", index)
                ELSE RemoveNode(n) /\ contents' = WithRemoved(index)

FreeNodes ==
    /\ exists' = FALSE
    /\ head' = Nil /\ heap' = << >> /\ contents' = << >>
    /\ UNCHANGED <<tail, crash>>

(* ex2 frees the caller's variable instead of the list.                    *)
dpl_free ==
    /\ exists /\ ~Avoided("free", 0)
    /\ IF kind = "ex2" THEN Crash("free", 0) ELSE FreeNodes

-----------------------------------------------------------------------------
AnyCaller ==
    /\ kind # "program"
    /\ \/ dpl_create
       \/ \E e \in Element, index \in Index : dpl_insert_at_index(e, index)
       \/ \E index \in Index : dpl_remove_at_index(index)
       \/ dpl_free
    /\ UNCHANGED done

(* program.c asserts sizes only, and that there is a list.  The last call  *)
(* of ex1program is a surprising one, before which careful callers stop.   *)
RunProgram ==
    /\ kind = "program" /\ done < Len(ex1program)
    /\ done' = done + 1
    /\ LET call == ex1program[done + 1]
       IN  CASE call.op = "create" -> dpl_create
             [] call.op = "insert" -> dpl_insert_at_index(call.key, call.index)
             [] call.op = "remove" -> dpl_remove_at_index(call.index)
             [] call.op = "free"   -> dpl_free
             [] OTHER -> UNCHANGED <<exists, head, tail, heap, contents, crash>>

Next == crash = None /\ (AnyCaller \/ RunProgram) /\ UNCHANGED kind

Spec == Init /\ [][Next]_vars
-----------------------------------------------------------------------------
(* program.c up to its next assert: what it asserts is so.                 *)
AssertHolds ==
    LET call == ex1program[done + 1]
    IN  /\ call.op = "size" => dpl_size = call.expect
        /\ call.op = "isList" => exists

(* With callers that avoid the surprising calls each list is what its      *)
(* header makes of the calls so far, read forwards and backwards, without  *)
(* a node that leaks and without a crash; an index inside the list finds   *)
(* its element; ex2 has its last node as tail, by which it removes at the  *)
(* end; and the asserts of program.c hold when they are reached.           *)
ExercisesHold ==
    /\ crash = None
    /\ Walk = contents
    /\ LET size == dpl_size
       IN  /\ nodes = {After[k] : k \in 0..size - 1}
           /\ \A k \in 0..size - 1 :
                 heap[After[k]].prev = IF k = 0 THEN Nil ELSE After[k - 1]
           /\ exists /\ kind = "ex2" => tail = IF size = 0 THEN Nil ELSE LastNode
    /\ \A i \in 1..Len(contents) : dpl_get_element_at_index(i - 1) = contents[i]
    /\ kind = "program" /\ done < Len(ex1program) => AssertHolds

(* ex1/dplist.h:55, "If 'index' is bigger than the number of elements in   *)
(* the list, the last list node is removed": the removal does not crash.   *)
LastNodeIsRemoved == kind = "ex1" => crash.op # "remove"

(* ex1/program.c:50, "Numbers must have size 0.": no call that the program *)
(* makes before it asserts so crashes.                                     *)
AssertIsReached == kind = "program" => crash = None

(* ex1/dplist.h:78, "If 'index' is bigger than the number of elements in   *)
(* the list, the element of the last list node is returned".               *)
LastElementIsReturned ==
    kind = "ex1" /\ contents # << >> =>
        \A index \in Index :
            index > Len(contents) => dpl_get_element_at_index(index) = Last(contents)

(* ex2/dplist.h:45, "If 'index' is bigger than the number of elements in   *)
(* the list, the list node is inserted at the end of the list": a step does  *)
(* so.                                                                     *)
InsertedAtTheEnd ==
    kind = "ex2" /\ Len(contents') > Len(contents) /\ Walk = contents => Walk' = contents'

(* ex2/dplist.h:56, "If 'index' is 0 or negative, the first list node is   *)
(* removed": a step does so.                                               *)
FirstNodeIsRemoved ==
    kind = "ex2" /\ Len(contents') < Len(contents) /\ Walk = contents => Walk' = contents'

(* ex2/dplist.h:29, "The list itself also needs to be deleted. (free all   *)
(* memory)": dpl_free does so and does not crash.                          *)
ListIsFreed == kind = "ex2" => crash.op # "free"
=============================================================================
