-------------------------------- MODULE Dplist --------------------------------
(***************************************************************************)
(* The doubly linked list of the data manager, src/project/lib/dplist.c,   *)
(* at the level of its nodes and pointers.  Callers pass any index: the    *)
(* negative ones mean the front, those that are too big the end.           *)
(*                                                                         *)
(* An element is a heap object with a key, which is what element_compare   *)
(* looks at.  Callers make objects and insert them by reference, again and *)
(* again if they like, or have the list insert a copy, which they do not   *)
(* know until they ask for the element of a node.  The list returns no     *)
(* removed element, so the flags of a removal must go with those of the    *)
(* insertions: spoilt are the objects with which callers got this wrong.   *)
(* malloc is not checked: when it fails the program crashes, which is to   *)
(* stop here, like freeing an object twice.  Calls on a NULL list return   *)
(* at once and change nothing; they are left out.                          *)
(***************************************************************************)
EXTENDS Integers, SequencesExt

CONSTANTS Nodes, Objs,       \* the heap: addresses of nodes and of elements
          Keys,              \* what element_compare compares
          NULL,
          Indexes,           \* the indexes callers pass
          CarefulCallers     \* is the only node always removed by index <= 0?

ASSUME DplistAssumption ==
    /\ IsFiniteSet(Nodes)
    /\ NULL \notin Nodes \cup Objs
    /\ Indexes \subseteq Int
    /\ CarefulCallers \in BOOLEAN

VARIABLES
    exists,                  \* the list has been created and not freed
    head,
    heap,                    \* the fields of every allocated node
    key,                     \* the key of every allocated element object
    mine,                    \* the objects that callers have a pointer to
    spoilt,                  \* history: objects freed while listed, or lost
    contents                 \* history: the elements, by the rules of dplist.h

vars == <<exists, head, heap, key, mine, spoilt, contents>>

Init ==
    /\ exists = FALSE
    /\ head = NULL
    /\ heap = << >>
    /\ key = << >>
    /\ mine = {}
    /\ spoilt = {}
    /\ contents = << >>

nodes == DOMAIN heap
objs  == DOMAIN key

-----------------------------------------------------------------------------
(* Walks along the next pointers.  The node after the last is NULL, and no *)
(* list is longer than the heap.                                           *)

(* current after k rounds of a loop that starts at head.                   *)
Step[k \in Nat] ==
    IF k = 0 THEN head
    ELSE IF Step[k - 1] = NULL THEN NULL ELSE heap[Step[k - 1]].next

dpl_size == Cardinality({k \in 0..Cardinality(Nodes) : Step[k] # NULL})

LastNode == Step[dpl_size - 1]

dpl_get_reference_at_index(index) ==
    IF head = NULL THEN NULL
    ELSE IF index <= 0 THEN head
    ELSE IF Step[index] # NULL THEN Step[index] ELSE LastNode

dpl_get_element_at_index(index) ==
    IF head = NULL THEN NULL ELSE heap[dpl_get_reference_at_index(index)].element

(* Fault: the last match is found, not the first.                          *)
LastMatch(k) ==
    SelectLastInSeq([i \in 1..dpl_size |-> heap[Step[i - 1]].element],
                    LAMBDA e : key[e] = k) - 1

dpl_get_index_of_element(k) ==
    SelectInSeq([i \in 1..dpl_size |-> heap[Step[i - 1]].element],
                LAMBDA e : key[e] = k) - 1

dpl_get_element_at_reference(ref) ==
    IF \E k \in 0..dpl_size - 1 : Step[k] = ref THEN heap[ref].element ELSE NULL

-----------------------------------------------------------------------------
dpl_create ==
    /\ ~exists
    /\ exists' = TRUE
    /\ UNCHANGED <<head, heap, key, mine, spoilt, contents>>

Node(p, x, e) == [prev |-> p, next |-> x, element |-> e]

(* What malloc adds to the heap: one more address, and what is put there.  *)
Allocated(memory, address, object) ==
    [a \in DOMAIN memory \cup {address} |-> IF a = address THEN object ELSE memory[a]]

(* The ways dpl_insert_at_index links node n with element e: in front,     *)
(* before ref, or behind ref, the last node.                               *)
LinkFirst(n, e) ==
    /\ head' = n
    /\ heap' = Allocated([m \in nodes |-> IF m = head THEN [heap[m] EXCEPT !.prev = n]
                                         ELSE heap[m]],
                         n, Node(NULL, head, e))

(* Fault: the new node skips the one it is put in front of.                *)
LinkOver(n, e, ref) ==
    /\ heap' = Allocated([heap EXCEPT ![heap[ref].prev].next = n, ![ref].prev = n],
                         n, Node(heap[ref].prev, heap[ref].next, e))
    /\ UNCHANGED head

LinkBefore(n, e, ref) ==
    /\ heap' = Allocated([heap EXCEPT ![heap[ref].prev].next = n, ![ref].prev = n],
                         n, Node(heap[ref].prev, ref, e))
    /\ UNCHANGED head

LinkLast(n, e, ref) ==
    /\ heap' = Allocated([heap EXCEPT ![ref].next = n], n, Node(ref, NULL, e))
    /\ UNCHANGED head

(* What dplist.h promises of an insertion.                                 *)
WithInserted(e, index) ==
    CASE index <= 0                             -> <<e>> \o contents
      [] index > 0 /\ index < Len(contents)     -> InsertAt(contents, index + 1, e)
      [] OTHER                                  -> Append(contents, e)

(* What enters the list for an element with key k: a copy, or the caller's *)
(* object itself.                                                          *)
Entering(k, insert_copy) ==
    IF insert_copy THEN Objs \ objs ELSE {e \in mine : key[e] = k}

dpl_insert_at_index(k, index, insert_copy) ==
    /\ exists
    /\ \E n \in Nodes \ nodes, e \in Entering(k, insert_copy) :
          /\ key' = IF insert_copy THEN Allocated(key, e, k) ELSE key
          /\ contents' = WithInserted(e, index)
          /\ LET ref == dpl_get_reference_at_index(index)
             IN  CASE head = NULL \/ index <= 0 -> LinkFirst(n, e)
                   [] head # NULL /\ index > 0 /\ index < dpl_size -> LinkBefore(n, e, ref)
                   [] OTHER -> LinkLast(n, e, ref)
    /\ UNCHANGED <<exists, mine, spoilt>>

(* free_element decides whether the elements go with their nodes; one that *)
(* is freed already is the end.                                            *)
Drop(elements, free_element) ==
    IF free_element
    THEN /\ elements \subseteq objs
         /\ key' = Restrict(key, objs \ elements)
         /\ mine' = mine \ elements
    ELSE UNCHANGED <<key, mine>>

(* Fault: the predecessor of the next node stays what it was.              *)
UnlinkForward(n) ==
    [m \in nodes \ {n} |->
        [heap[m] EXCEPT !.next = IF m = heap[n].prev THEN heap[n].next ELSE @]]

(* The heap without node n, whose neighbours are joined; in front of the   *)
(* first node there is none.                                               *)
Unlink(n) ==
    [m \in nodes \ {n} |->
        [heap[m] EXCEPT !.next = IF m = heap[n].prev THEN heap[n].next ELSE @,
                        !.prev = IF m = heap[n].next THEN heap[n].prev ELSE @]]

(* What dplist.h promises of a removal, and the element it means.          *)
WithRemoved(index) ==
    CASE index <= 0                         -> Tail(contents)
      [] index > 0 /\ index < Len(contents) -> RemoveAt(contents, index + 1)
      [] OTHER                              -> Front(contents)

Removed(index) ==
    CASE index <= 0                         -> Head(contents)
      [] index > 0 /\ index < Len(contents) -> contents[index + 1]
      [] OTHER                              -> Last(contents)

(* Fault: the element that is dropped is the first one's.                  *)
FirstElement(n) == heap[head].element

ElementOf(n) == heap[n].element

(* Only an index of 0 or less moves the head; otherwise head is not even   *)
(* looked at, also when the node that goes is the first and only one.      *)
dpl_remove_at_index(index, free_element) ==
    /\ exists
    /\ head # NULL
    /\ CarefulCallers /\ dpl_size = 1 => index <= 0
    /\ LET n == dpl_get_reference_at_index(index)
       IN  /\ heap' = Unlink(n)
           /\ head' = IF index <= 0 THEN heap[head].next ELSE head
           /\ Drop({ElementOf(n)}, free_element)
    /\ contents' = WithRemoved(index)
    /\ spoilt' = spoilt \cup IF free_element THEN {Removed(index)} \cap Range(contents')
                              ELSE {Removed(index)} \ mine
    /\ UNCHANGED exists

Listed == {Step[k] : k \in 0..dpl_size - 1}

OnceEach == \A m, n \in Listed : heap[m].element = heap[n].element => m = n

dpl_free(free_element) ==
    /\ exists
    /\ free_element => OnceEach
    /\ exists' = FALSE
    /\ head' = NULL
    /\ heap' = Restrict(heap, nodes \ Listed)
    /\ Drop({heap[n].element : n \in Listed}, free_element)
    /\ contents' = << >>
    /\ spoilt' = spoilt \cup IF free_element THEN {} ELSE Range(contents) \ mine

-----------------------------------------------------------------------------
(* What callers do with elements themselves: make one, to insert it, take  *)
(* the pointer dpl_get_element_at_index returns, and free one.             *)

CallerMakes(k) ==
    /\ \E e \in Objs \ objs : key' = Allocated(key, e, k) /\ mine' = mine \cup {e}
    /\ UNCHANGED <<exists, head, heap, spoilt, contents>>

CallerGets(index) ==
    /\ dpl_get_element_at_index(index) \in objs
    /\ mine' = mine \cup {dpl_get_element_at_index(index)}
    /\ UNCHANGED <<exists, head, heap, key, spoilt, contents>>

CallerFrees(e) ==
    /\ e \in mine
    /\ mine' = mine \ {e}
    /\ key' = Restrict(key, objs \ {e})
    /\ spoilt' = spoilt \cup ({e} \cap Range(contents))
    /\ UNCHANGED <<exists, head, heap, contents>>

(* A head that is freed memory makes every further call undefined.         *)
Defined == head \in nodes \cup {NULL}

Next ==
    /\ Defined
    /\ \/ dpl_create
       \/ \E k \in Keys, index \in Indexes, insert_copy \in BOOLEAN :
             dpl_insert_at_index(k, index, insert_copy)
       \/ \E index \in Indexes, free_element \in BOOLEAN :
             dpl_remove_at_index(index, free_element)
       \/ \E free_element \in BOOLEAN : dpl_free(free_element)
       \/ \E k \in Keys : CallerMakes(k)
       \/ \E index \in Indexes : CallerGets(index)
       \/ \E e \in mine : CallerFrees(e)

Safety == Init /\ [][Next]_vars
-----------------------------------------------------------------------------
(* Types of every variable.                                                *)
TypeOK ==
    /\ exists \in BOOLEAN
    /\ head \in Nodes \cup {NULL}
    /\ nodes \subseteq Nodes
    /\ heap \in [nodes -> [prev : Nodes \cup {NULL}, next : Nodes \cup {NULL}, element : Objs]]
    /\ objs \subseteq Objs
    /\ key \in [objs -> Keys]
    /\ mine \in SUBSET objs
    /\ spoilt \in SUBSET Objs
    /\ contents \in Seq(Objs)

(* Read forwards the list is what the header's rules make of the calls so  *)
(* far, whatever mixture of front, inner, last and out-of-range indexes    *)
(* they had; read backwards it is the same list.                           *)
BothWaysContents ==
    /\ [i \in 1..dpl_size |-> heap[Step[i - 1]].element] = contents
    /\ head # NULL => heap[head].prev = NULL
    /\ \A i \in 1..dpl_size - 1 : heap[Step[i]].prev = Step[i - 1]

(* No node leaks and none is used after it was freed: the allocated nodes  *)
(* are those of the list.  Whatever the flags of the calls, an object that *)
(* nobody can reach any more, an element that is freed but listed, and one *)
(* that is listed twice but unknown to callers are objects that a caller   *)
(* spoilt: by removing a copy it did not know without free_element, by     *)
(* freeing an object that stayed listed, or by having the list free it     *)
(* while another node held it.  The list itself loses and frees no other.  *)
NothingLeaks ==
    /\ nodes = Listed
    /\ objs \ (mine \cup {heap[n].element : n \in Listed}) \subseteq spoilt
    /\ \A n \in Listed : heap[n].element \in objs \cup spoilt
    /\ \A m, n \in Listed : heap[m].element = heap[n].element =>
          m = n \/ heap[m].element \in mine \cup spoilt

(* Every query answers by the header's rules, for every index and key:     *)
(* positions outside the list mean its ends, a search finds the first      *)
(* match as long as no listed element is freed, and a reference leads back *)
(* to the element at its index.                                            *)
QueriesAgree ==
    /\ dpl_size = Len(contents)
    /\ contents # << >> => \A index \in Indexes :
          LET i == CASE index <= 0 -> 1
                     [] index > 0 /\ index < Len(contents) -> index + 1
                     [] OTHER -> Len(contents)
              e == dpl_get_element_at_index(index)
          IN  /\ e = contents[i]
              /\ dpl_get_element_at_reference(dpl_get_reference_at_index(index)) = e
    /\ Range(contents) \subseteq objs => \A k \in Keys :
          LET places == {i \in 1..Len(contents) : key[contents[i]] = k}
              found  == dpl_get_index_of_element(k)
          IN  IF places = {} THEN found = -1
              ELSE found + 1 \in places /\ \A i \in places : found < i

(* A reference the caller keeps goes on naming the same element until that *)
(* node itself is removed, however much is inserted and removed around it. *)
ReferencesStay ==
    [][\A n \in nodes \cap nodes' :
          dpl_get_element_at_reference(n)' = dpl_get_element_at_reference(n)]_vars

(* dplist.h:68, "If 'index' is bigger than the number of elements in the   *)
(* list, the last list node is removed": when the last one is gone the     *)
(* list is empty.                                                          *)
LastNodeIsRemoved == contents = << >> => head = NULL
=============================================================================
