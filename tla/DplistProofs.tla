----------------------------- MODULE DplistProofs -----------------------------
(***************************************************************************)
(* Proofs about Dplist, for any heap, any keys and any indexes, as long as *)
(* the only node is removed by an index of 0 or less: the list read from   *)
(* either end is what the rules of dplist.h make of the calls, no object   *)
(* is lost or freed while listed but those that callers spoilt, every      *)
(* query answers by the same rules and a reference goes on naming its      *)
(* element.  For callers that use any index there as well, the same holds  *)
(* until they do.                                                          *)
(*                                                                         *)
(* The inductive invariant names the nodes in their order: chain is a      *)
(* function from places to nodes, and next, prev, head and the elements    *)
(* are said of its places.  That loops over next visit the chain follows by    *)
(* induction over the number of rounds.                                    *)
(***************************************************************************)
EXTENDS Dplist, FiniteSetTheorems, TLAPS

Size == Len(contents)

(* The node at place i of the chain, or NULL next to either end.           *)
At(chain, i) == IF i \in 1..Size THEN chain[i] ELSE NULL

IsChain(chain) ==
    /\ chain \in [1..Size -> Nodes]
    /\ nodes = {chain[i] : i \in 1..Size}
    /\ \A i, j \in 1..Size : chain[i] = chain[j] => i = j
    /\ head = At(chain, 1)
    /\ \A i \in 1..Size : /\ heap[chain[i]].next = At(chain, i + 1)
                          /\ heap[chain[i]].prev = At(chain, i - 1)
                          /\ heap[chain[i]].element = contents[i]

(* Objects are known to callers, listed or spoilt; listed elements are     *)
(* allocated unless spoilt, and listed once unless known or spoilt.        *)
Owned ==
    /\ \A o \in objs : o \in mine \cup spoilt \/ \E n \in nodes : heap[n].element = o
    /\ \A n \in nodes : heap[n].element \in objs \cup spoilt
    /\ \A m, n \in nodes : heap[m].element = heap[n].element =>
          m = n \/ heap[m].element \in mine \cup spoilt

IInv ==
    /\ TypeOK
    /\ Owned
    /\ \E chain \in [1..Size -> Nodes] : IsChain(chain)
    /\ ~exists => contents = << >>

-----------------------------------------------------------------------------
(* Mathematics the list needs.                                             *)

(* Induction over the naturals, for a set instead of a formula: were some  *)
(* number missing, adding 1 would be an injection of a finite set into     *)
(* itself that misses 0.                                                   *)
LEMMA Induction ==
    ASSUME NEW S, 0 \in S, \A n \in Nat \cap S : n + 1 \in S
    PROVE  Nat \subseteq S
<1> DEFINE Down == {k \in Nat : 0..k \subseteq S}
           F    == [k \in Down |-> k + 1]
<1> SUFFICES ASSUME NEW m \in Nat, m \notin S
             PROVE  FALSE
    OBVIOUS
<1>1. 0 \in Down
    OBVIOUS
<1>2. ASSUME NEW k \in Down PROVE k + 1 \in Down
    <2>1. k \in S /\ k + 1 \in S
        OBVIOUS
    <2>2. 0..(k + 1) = 0..k \cup {k + 1}
        OBVIOUS
    <2> QED
        BY <2>1, <2>2
<1>3. \A k \in Down : k <= m
    OBVIOUS
<1>4. IsFiniteSet(Down)
    BY <1>3, FS_BoundedSetOfNaturals
<1>5. F \in Injection(Down, Down)
    BY <1>2 DEF Injection, IsInjective
<1>6. F \in Surjection(Down, Down)
    BY <1>4, <1>5, FS_Injection
<1>7. PICK k \in Down : F[k] = 0
    BY <1>1, <1>6 DEF Surjection
<1> QED
    BY <1>7

(* A set of naturals that is not empty has a least element.                *)
LEMMA Least ==
    ASSUME NEW I \in SUBSET Nat, I # {}
    PROVE  \E i \in I : \A j \in I : i <= j
<1> DEFINE Below == {n \in Nat : \A j \in I : n <= j}
<1> SUFFICES ASSUME \A i \in I : \E j \in I : j < i
             PROVE  FALSE
    OBVIOUS
<1>1. 0 \in Below
    OBVIOUS
<1>2. \A n \in Nat \cap Below : n + 1 \in Below
    OBVIOUS
<1>3. Nat \subseteq Below
    <2> HIDE DEF Below
    <2> QED
        BY <1>1, <1>2, Induction
<1>4. PICK i \in I : TRUE
    OBVIOUS
<1>5. i + 1 \in Below
    BY <1>3
<1> QED
    BY <1>5
-----------------------------------------------------------------------------
(* Walking the chain.                                                      *)

(* What a loop over next sees after k rounds.                              *)
LEMMA StepFollowsChain ==
    ASSUME TypeOK, NEW chain, IsChain(chain)
    PROVE  \A k \in Nat : Step[k] = At(chain, k + 1)
<1> DEFINE F(f) == [k \in Nat |-> IF k = 0 THEN head
                                  ELSE IF f[k - 1] = NULL THEN NULL ELSE heap[f[k - 1]].next]
           g    == [k \in Nat |-> At(chain, k + 1)]
           Same == {k \in Nat : Step[k] = At(chain, k + 1)}
<1>1. Size \in Nat /\ NULL \notin Nodes
    BY DplistAssumption DEF DplistAssumption, TypeOK, Size
<1>2. \A k \in Nat : g[k] = IF k = 0 THEN head
                            ELSE IF g[k - 1] = NULL THEN NULL ELSE heap[g[k - 1]].next
    BY <1>1 DEF IsChain, At
<1>3. g = F(g)
    <2>1. g = [k \in Nat |-> g[k]]
        OBVIOUS
    <2> QED
        BY <1>2, <2>1, Zenon
<1>4. Step = F(Step)
    <2>1. Step = CHOOSE f : f = F(f)
        BY DEF Step
    <2> QED
        BY <1>3, <2>1, Zenon
<1>5. 0 \in Same
    BY <1>4 DEF IsChain
<1>6. \A k \in Nat \cap Same : k + 1 \in Same
    <2> SUFFICES ASSUME NEW k \in Nat, Step[k] = At(chain, k + 1)
                 PROVE  Step[k + 1] = At(chain, k + 2)
        OBVIOUS
    <2>1. Step[k + 1] = IF Step[k] = NULL THEN NULL ELSE heap[Step[k]].next
        BY <1>4
    <2> QED
        BY <1>1, <2>1 DEF IsChain, At
<1>7. Nat \subseteq Same
    <2> HIDE DEF Same
    <2> QED
        BY <1>5, <1>6, Induction
<1> QED
    BY <1>7

(* The sizes and the nodes the loops find are those of the chain.          *)
LEMMA ChainFacts ==
    ASSUME TypeOK, NEW chain, IsChain(chain)
    PROVE  /\ Size \in Nat
           /\ dpl_size = Size
           /\ \A i \in 1..Size : Step[i - 1] = chain[i] /\ chain[i] \in nodes
           /\ Listed = nodes
<1>1. Size \in Nat /\ NULL \notin Nodes /\ IsFiniteSet(Nodes)
    BY DplistAssumption DEF DplistAssumption, TypeOK, Size
<1>2. \A k \in Nat : Step[k] = At(chain, k + 1)
    BY StepFollowsChain
<1>3. Size <= Cardinality(Nodes) /\ Cardinality(Nodes) \in Nat
    <2>1. chain \in Injection(1..Size, Nodes)
        BY DEF IsChain, Injection, IsInjective
    <2>2. Cardinality(1..Size) = Size
        BY <1>1, FS_Interval
    <2> QED
        BY <1>1, <2>1, <2>2, FS_Injection, FS_CardinalityType
<1>4. {k \in 0..Cardinality(Nodes) : Step[k] # NULL} = 0..(Size - 1)
    BY <1>1, <1>2, <1>3 DEF At, IsChain
<1>5. dpl_size = Size
    <2>1. Cardinality(0..(Size - 1)) = Size
        BY <1>1, FS_Interval
    <2>2. dpl_size = Cardinality(0..(Size - 1))
        BY <1>4, Zenon DEF dpl_size
    <2> QED
        BY <2>1, <2>2
<1>6. \A i \in 1..Size : Step[i - 1] = chain[i] /\ chain[i] \in nodes
    <2> TAKE i \in 1..Size
    <2>1. i - 1 \in Nat /\ i - 1 + 1 = i
        BY <1>1
    <2>2. Step[i - 1] = At(chain, i)
        BY <1>2, <2>1
    <2> QED
        BY <2>2 DEF At, IsChain
<1>7. Listed = nodes
    <2>1. \A k \in 0..(Size - 1) : Step[k] = chain[k + 1]
        BY <1>1, <1>2 DEF At
    <2>2. Listed = {Step[k] : k \in 0..(Size - 1)}
        BY <1>5 DEF Listed
    <2>3. \A n \in Listed : n \in nodes
        BY <1>1, <2>1, <2>2 DEF IsChain
    <2>4. \A n \in nodes : n \in Listed
        <3> SUFFICES ASSUME NEW i \in 1..Size
                     PROVE  chain[i] \in Listed
            BY DEF IsChain
        <3>1. i - 1 \in 0..(Size - 1) /\ Step[i - 1] = chain[i]
            BY <1>1, <1>6
        <3> QED
            BY <2>2, <3>1
    <2> QED
        BY <2>3, <2>4
<1> QED
    BY <1>1, <1>5, <1>6, <1>7

(* The node an index stands for: the first one for a negative index, the   *)
(* last one for an index that is too big.                                  *)
PlaceOf(index) == IF index <= 0 THEN 1 ELSE IF index < Size THEN index + 1 ELSE Size

LEMMA ReferenceAtIndex ==
    ASSUME TypeOK, NEW chain, IsChain(chain), head # NULL, NEW index \in Int
    PROVE  /\ PlaceOf(index) \in 1..Size
           /\ dpl_get_reference_at_index(index) = chain[PlaceOf(index)]
<1>1. /\ Size \in Nat /\ dpl_size = Size
      /\ \A i \in 1..Size : Step[i - 1] = chain[i] /\ chain[i] \in Nodes
    BY ChainFacts DEF IsChain
<1>2. Size > 0 /\ head = chain[1] /\ NULL \notin Nodes
    BY <1>1, DplistAssumption DEF DplistAssumption, IsChain, At
<1>3. PlaceOf(index) \in 1..Size
    BY <1>1, <1>2 DEF PlaceOf
<1>4. CASE index <= 0
    BY <1>2, <1>3, <1>4 DEF PlaceOf, dpl_get_reference_at_index
<1>5. CASE index > 0
    <2>1. Step[index] = At(chain, index + 1)
        BY <1>5, StepFollowsChain
    <2>2. LastNode = chain[Size]
        BY <1>1, <1>2 DEF LastNode
    <2>3. Step[index] # NULL <=> index < Size
        BY <1>1, <1>2, <1>5, <2>1 DEF At
    <2>4. index < Size => Step[index] = chain[index + 1]
        BY <1>1, <1>5, <2>1 DEF At
    <2> QED
        BY <1>1, <1>3, <1>5, <2>2, <2>3, <2>4 DEF PlaceOf, dpl_get_reference_at_index
<1> QED
    BY <1>4, <1>5

LEMMA ElementAtReference ==
    ASSUME TypeOK, NEW chain, IsChain(chain), NEW n \in nodes
    PROVE  dpl_get_element_at_reference(n) = heap[n].element
<1>1. /\ Size \in Nat /\ dpl_size = Size
      /\ \A i \in 1..Size : Step[i - 1] = chain[i]
    BY ChainFacts
<1>2. PICK i \in 1..Size : n = chain[i]
    BY DEF IsChain
<1>3. i - 1 \in 0..(dpl_size - 1) /\ Step[i - 1] = n
    BY <1>1, <1>2
<1> QED
    BY <1>3 DEF dpl_get_element_at_reference

(* A search through the list finds the first place whose key is k.         *)
LEMMA IndexOfElement ==
    ASSUME TypeOK, NEW chain, IsChain(chain), NEW k \in Keys,
           NEW places, places = {i \in 1..Size : key[contents[i]] = k}
    PROVE  IF places = {} THEN dpl_get_index_of_element(k) = -1
           ELSE /\ dpl_get_index_of_element(k) \in Int
                /\ dpl_get_index_of_element(k) + 1 \in places
                /\ \A i \in places : dpl_get_index_of_element(k) < i
<1> DEFINE elements == [i \in 1..dpl_size |-> heap[Step[i - 1]].element]
           matches  == {i \in 1..Len(elements) : key[elements[i]] = k}
           found    == dpl_get_index_of_element(k)
<1>1. /\ Size \in Nat /\ dpl_size = Size
      /\ \A i \in 1..Size : Step[i - 1] = chain[i]
    BY ChainFacts
<1>2. elements = [i \in 1..Size |-> heap[chain[i]].element]
    BY <1>1
<1>3. Len(elements) = Size
    BY <1>1, <1>2
<1>4. \A i \in 1..Size : key[elements[i]] = key[contents[i]]
    <2>1. \A i \in 1..Size : elements[i] = heap[chain[i]].element
        BY <1>2
    <2> HIDE DEF elements
    <2> QED
        BY <2>1 DEF IsChain
<1>5. matches = places
    BY <1>3, <1>4
<1>6. found = (IF matches # {} THEN Min(matches) ELSE 0) - 1
    BY DEF dpl_get_index_of_element, SelectInSeq
<1>7. places \subseteq 1..Size
    OBVIOUS
<1> HIDE DEF found, matches
<1>8. CASE places = {}
    <2>1. found = -1
        BY <1>5, <1>6, <1>8
    <2> QED
        BY <1>8, <2>1 DEF found
<1>9. CASE places # {}
    <2>1. \E i \in places : \A j \in places : i <= j
        <3>1. places \in SUBSET Nat
            BY <1>1, <1>7
        <3> QED
            BY <1>9, <3>1, Least
    <2>2. Min(places) \in places /\ \A j \in places : Min(places) <= j
        BY <2>1 DEF Min
    <2>3. found = Min(places) - 1
        BY <1>5, <1>6, <1>9
    <2>4. PICK first \in 1..Size : first = Min(places)
        BY <1>7, <2>2, Zenon
    <2>5. found = first - 1 /\ found + 1 = first
        BY <2>3, <2>4
    <2>6. found \in Int /\ found + 1 \in places
        BY <2>2, <2>4, <2>5
    <2>7. \A i \in places : i \in Nat /\ first <= i
        BY <1>1, <1>7, <2>2, <2>4
    <2>8. \A i \in places : found < i
        BY <2>4, <2>5, <2>7
    <2> QED
        BY <1>9, <2>6, <2>8 DEF found
<1> QED
    BY <1>8, <1>9

(* What the invariant says of the properties.                              *)
LEMMA IInvImplies == IInv => BothWaysContents /\ NothingLeaks /\ QueriesAgree
<1> SUFFICES ASSUME IInv
             PROVE  BothWaysContents /\ NothingLeaks /\ QueriesAgree
    OBVIOUS
<1>1. TypeOK /\ Owned
    BY DEF IInv
<1>2. PICK chain \in [1..Size -> Nodes] : IsChain(chain)
    BY DEF IInv
<1>3. /\ Size \in Nat /\ dpl_size = Size /\ Listed = nodes
      /\ \A i \in 1..Size : Step[i - 1] = chain[i] /\ chain[i] \in nodes
    BY <1>1, <1>2, ChainFacts
<1>4. contents \in Seq(Objs) /\ Size = Len(contents) /\ NULL \notin Nodes
    BY <1>1, DplistAssumption DEF TypeOK, Size, DplistAssumption
<1>5. BothWaysContents
    <2>1. [i \in 1..dpl_size |-> heap[Step[i - 1]].element] = contents
        <3>1. contents = [i \in 1..Size |-> contents[i]]
            BY <1>4
        <3>2. \A i \in 1..Size : heap[Step[i - 1]].element = contents[i]
            BY <1>2, <1>3 DEF IsChain
        <3>3. [i \in 1..Size |-> heap[Step[i - 1]].element] = [i \in 1..Size |-> contents[i]]
            BY <3>2, Zenon
        <3> QED
            BY <1>3, <3>1, <3>3
    <2>2. head # NULL => heap[head].prev = NULL
        BY <1>2, <1>3 DEF IsChain, At
    <2>3. ASSUME NEW i \in 1..(dpl_size - 1)
          PROVE  heap[Step[i]].prev = Step[i - 1]
        <3>1. i \in 1..Size /\ i + 1 \in 1..Size /\ i + 1 - 1 = i
            BY <1>3
        <3>2. Step[i] = chain[i + 1] /\ Step[i - 1] = chain[i]
            BY <1>3, <3>1
        <3>3. heap[chain[i + 1]].prev = At(chain, i)
            BY <1>2, <3>1 DEF IsChain
        <3> QED
            BY <3>1, <3>2, <3>3 DEF At
    <2> QED
        BY <2>1, <2>2, <2>3 DEF BothWaysContents
<1>6. NothingLeaks
    <2>1. \A o \in objs : o \in mine \cup spoilt \/ o \in {heap[n].element : n \in nodes}
        BY <1>1 DEF Owned
    <2> QED
        BY <1>1, <1>3, <2>1 DEF Owned, NothingLeaks
<1>7. QueriesAgree
    <2>1. ASSUME contents # << >>, NEW index \in Indexes
          PROVE  /\ dpl_get_element_at_index(index) = contents[PlaceOf(index)]
                 /\ dpl_get_element_at_reference(dpl_get_reference_at_index(index))
                        = dpl_get_element_at_index(index)
        <3>1. Size > 0 /\ head # NULL /\ index \in Int
            BY <1>2, <1>3, <1>4, <2>1, DplistAssumption DEF DplistAssumption, IsChain, At
        <3>2. /\ PlaceOf(index) \in 1..Size
              /\ dpl_get_reference_at_index(index) = chain[PlaceOf(index)]
            BY <1>1, <1>2, <3>1, ReferenceAtIndex
        <3>3. dpl_get_element_at_index(index) = heap[chain[PlaceOf(index)]].element
            BY <3>1, <3>2 DEF dpl_get_element_at_index
        <3>4. dpl_get_element_at_reference(chain[PlaceOf(index)])
                  = heap[chain[PlaceOf(index)]].element
            BY <1>1, <1>2, <1>3, <3>2, ElementAtReference
        <3> QED
            BY <1>2, <3>2, <3>3, <3>4 DEF IsChain
    <2>2. ASSUME NEW index \in Indexes
          PROVE  PlaceOf(index) = CASE index <= 0 -> 1
                                    [] index > 0 /\ index < Len(contents) -> index + 1
                                    [] OTHER -> Len(contents)
        <3>1. index \in Int /\ Len(contents) \in Nat
            BY <1>4, DplistAssumption DEF DplistAssumption
        <3> QED
            BY <3>1 DEF PlaceOf, Size
    <2>3. ASSUME NEW k \in Keys, NEW places,
                 places = {i \in 1..Len(contents) : key[contents[i]] = k}
          PROVE  IF places = {} THEN dpl_get_index_of_element(k) = -1
                 ELSE /\ dpl_get_index_of_element(k) + 1 \in places
                      /\ \A i \in places : dpl_get_index_of_element(k) < i
        BY <1>1, <1>2, <2>3, IndexOfElement DEF Size
    <2> QED
        BY <1>3, <1>4, <2>1, <2>2, <2>3, Zenon DEF QueriesAgree
<1> QED
    BY <1>5, <1>6, <1>7
-----------------------------------------------------------------------------
(* Insertion.                                                              *)

(* The sequences the header's rules make, place by place.                  *)
LEMMA ConcatElements ==
    ASSUME NEW S, NEW s \in Seq(S), NEW t \in Seq(S)
    PROVE  /\ s \o t \in Seq(S)
           /\ Len(s \o t) = Len(s) + Len(t)
           /\ \A i \in 1..(Len(s) + Len(t)) :
                 (s \o t)[i] = IF i <= Len(s) THEN s[i] ELSE t[i - Len(s)]
    OBVIOUS

LEMMA InsertAtElements ==
    ASSUME NEW S, NEW s \in Seq(S), NEW k \in S, NEW p \in 1..(Len(s) + 1)
    PROVE  /\ InsertAt(s, p, k) \in Seq(S)
           /\ Len(InsertAt(s, p, k)) = Len(s) + 1
           /\ \A i \in 1..(Len(s) + 1) :
                 InsertAt(s, p, k)[i] = IF i < p THEN s[i] ELSE IF i = p THEN k ELSE s[i - 1]
<1> DEFINE front == SubSeq(s, 1, p - 1)
           back  == SubSeq(s, p, Len(s))
<1>1. /\ front \in Seq(S) /\ Len(front) = p - 1
      /\ \A i \in 1..(p - 1) : front[i] = s[i]
    OBVIOUS
<1>2. /\ back \in Seq(S) /\ Len(back) = Len(s) + 1 - p
      /\ \A i \in 1..(Len(s) + 1 - p) : back[i] = s[p + i - 1]
    OBVIOUS
<1>3. /\ <<k>> \in Seq(S) /\ Len(<<k>>) = 1 /\ <<k>>[1] = k
    OBVIOUS
<1> HIDE DEF front, back
<1>4. /\ front \o <<k>> \in Seq(S) /\ Len(front \o <<k>>) = p
      /\ \A i \in 1..p : (front \o <<k>>)[i] = IF i < p THEN s[i] ELSE k
    <2>1. /\ front \o <<k>> \in Seq(S) /\ Len(front \o <<k>>) = p
          /\ \A i \in 1..p :
                (front \o <<k>>)[i] = IF i <= p - 1 THEN front[i] ELSE <<k>>[i - (p - 1)]
        BY <1>1, <1>3, ConcatElements
    <2> QED
        BY <1>1, <1>3, <2>1
<1> DEFINE left == front \o <<k>>
<1>5. left \in Seq(S) /\ Len(left) = p
    BY <1>4
<1>6. InsertAt(s, p, k) = left \o back
    BY DEF InsertAt, front, back
<1>7. \A i \in 1..p : left[i] = IF i < p THEN s[i] ELSE k
    BY <1>4
<1> HIDE DEF left
<1>8. /\ left \o back \in Seq(S) /\ Len(left \o back) = Len(left) + Len(back)
      /\ \A i \in 1..(Len(left) + Len(back)) :
            (left \o back)[i] = IF i <= Len(left) THEN left[i] ELSE back[i - Len(left)]
    BY <1>2, <1>5, ConcatElements
<1> QED
    BY <1>2, <1>5, <1>6, <1>7, <1>8

(* The place of the chain where an insertion at index puts the new node.   *)
NewPlace(index) ==
    IF index <= 0 THEN 1 ELSE IF index < Size THEN index + 1 ELSE Size + 1

LEMMA WithInsertedElements ==
    ASSUME NEW k \in Objs, NEW index \in Int, contents \in Seq(Objs)
    PROVE  /\ NewPlace(index) \in 1..(Size + 1)
           /\ WithInserted(k, index) \in Seq(Objs)
           /\ Len(WithInserted(k, index)) = Size + 1
           /\ \A i \in 1..(Size + 1) : WithInserted(k, index)[i] =
                 IF i < NewPlace(index) THEN contents[i]
                 ELSE IF i = NewPlace(index) THEN k ELSE contents[i - 1]
<1>1. Size \in Nat /\ Size = Len(contents)
    BY DEF Size
<1>2. CASE index <= 0
    <2>1. NewPlace(index) = 1 /\ WithInserted(k, index) = <<k>> \o contents
        BY <1>2 DEF NewPlace, WithInserted
    <2>2. <<k>> \in Seq(Objs) /\ Len(<<k>>) = 1 /\ <<k>>[1] = k
        OBVIOUS
    <2> QED
        BY <1>1, <2>1, <2>2, ConcatElements
<1>3. CASE index > 0 /\ index < Size
    <2>1. /\ NewPlace(index) = index + 1
          /\ WithInserted(k, index) = InsertAt(contents, index + 1, k)
        BY <1>1, <1>3 DEF NewPlace, WithInserted
    <2>2. index + 1 \in 1..(Len(contents) + 1)
        BY <1>1, <1>3
    <2>3. /\ WithInserted(k, index) \in Seq(Objs)
          /\ Len(WithInserted(k, index)) = Size + 1
          /\ \A i \in 1..(Size + 1) : WithInserted(k, index)[i] =
                IF i < index + 1 THEN contents[i]
                ELSE IF i = index + 1 THEN k ELSE contents[i - 1]
        <3> DEFINE longer == InsertAt(contents, index + 1, k)
        <3>1. /\ longer \in Seq(Objs) /\ Len(longer) = Len(contents) + 1
              /\ \A i \in 1..(Len(contents) + 1) : longer[i] =
                    IF i < index + 1 THEN contents[i]
                    ELSE IF i = index + 1 THEN k ELSE contents[i - 1]
            BY <2>2, InsertAtElements
        <3> QED
            BY <1>1, <2>1, <3>1
    <2> QED
        BY <1>1, <1>3, <2>1, <2>3
<1>4. CASE index > 0 /\ ~(index < Size)
    <2>1. NewPlace(index) = Size + 1 /\ WithInserted(k, index) = Append(contents, k)
        BY <1>1, <1>4 DEF NewPlace, WithInserted
    <2> QED
        BY <1>1, <2>1
<1> QED
    BY <1>2, <1>3, <1>4

(* n is linked into the chain at place p, whichever way it is done.        *)
LinkedAt(chain, p, n, e) ==
    /\ nodes' = nodes \cup {n}
    /\ heap' = [m \in nodes \cup {n} |-> heap'[m]]
    /\ head' = IF p = 1 THEN n ELSE head
    /\ heap'[n] = Node(At(chain, p - 1), At(chain, p), e)
    /\ \A i \in 1..Size :
          heap'[chain[i]] = [prev    |-> IF i = p THEN n ELSE heap[chain[i]].prev,
                             next    |-> IF i = p - 1 THEN n ELSE heap[chain[i]].next,
                             element |-> heap[chain[i]].element]

(* dpl_insert_at_index puts the node at the place that index means.        *)
LEMMA InsertLinksAtPlace ==
    ASSUME TypeOK, NEW chain, IsChain(chain),
           NEW n \in Nodes \ nodes, NEW e \in Objs, NEW index \in Int,
           CASE head = NULL \/ index <= 0 -> LinkFirst(n, e)
             [] head # NULL /\ index > 0 /\ index < dpl_size ->
                   LinkBefore(n, e, dpl_get_reference_at_index(index))
             [] OTHER -> LinkLast(n, e, dpl_get_reference_at_index(index))
    PROVE  LinkedAt(chain, NewPlace(index), n, e)
<1> DEFINE p   == NewPlace(index)
           ref == dpl_get_reference_at_index(index)
<1>1. /\ Size \in Nat /\ dpl_size = Size /\ NULL \notin Nodes
      /\ \A i \in 1..Size : chain[i] \in nodes /\ chain[i] \in Nodes
    BY ChainFacts, DplistAssumption DEF DplistAssumption, IsChain
<1>2. head = NULL <=> Size = 0
    BY <1>1 DEF IsChain, At
<1>3. /\ heap \in [nodes -> [prev : Nodes \cup {NULL}, next : Nodes \cup {NULL}, element : Objs]]
      /\ n \notin nodes
    BY DEF TypeOK
<1>4. \A i \in 1..Size :
          heap[chain[i]] = [prev |-> heap[chain[i]].prev, next |-> heap[chain[i]].next,
                            element |-> heap[chain[i]].element]
    BY <1>1, <1>3
<1>5. CASE head = NULL \/ index <= 0
    <2>1. LinkFirst(n, e)
        BY <1>5
    <2>2. p = 1
        BY <1>1, <1>2, <1>5 DEF NewPlace
    <2>3. At(chain, p - 1) = NULL /\ At(chain, p) = head
        BY <1>1, <2>2 DEF At, IsChain
    <2>4. /\ nodes' = nodes \cup {n} /\ head' = n /\ heap'[n] = Node(NULL, head, e)
          /\ heap' = [m \in nodes \cup {n} |-> heap'[m]]
        BY <1>3, <2>1 DEF LinkFirst, Allocated, nodes
    <2>5. ASSUME NEW i \in 1..Size
          PROVE  heap'[chain[i]] = [prev    |-> IF i = p THEN n ELSE heap[chain[i]].prev,
                                    next    |-> IF i = p - 1 THEN n ELSE heap[chain[i]].next,
                                    element |-> heap[chain[i]].element]
        <3>1. heap'[chain[i]] = IF chain[i] = head THEN [heap[chain[i]] EXCEPT !.prev = n]
                                ELSE heap[chain[i]]
            BY <1>1, <1>3, <2>1 DEF LinkFirst, Allocated
        <3>2. chain[i] = head <=> i = p
            BY <1>1, <2>2 DEF IsChain, At
        <3> QED
            BY <1>1, <1>3, <1>4, <2>2, <3>1, <3>2
    <2> QED
        BY <2>2, <2>3, <2>4, <2>5 DEF LinkedAt
<1>6. CASE head # NULL /\ index > 0 /\ index < dpl_size
    <2>1. LinkBefore(n, e, ref)
        BY <1>6
    <2>2. p = index + 1 /\ p \in 2..Size /\ ref = chain[p]
        BY <1>1, <1>6, ReferenceAtIndex DEF NewPlace, PlaceOf
    <2>3. heap[ref].prev = chain[p - 1] /\ p - 1 \in 1..Size
        BY <1>1, <2>2 DEF IsChain, At
    <2>4. At(chain, p - 1) = chain[p - 1] /\ At(chain, p) = ref
        BY <1>1, <2>2, <2>3 DEF At
    <2>5. heap' = Allocated([heap EXCEPT ![chain[p - 1]].next = n, ![chain[p]].prev = n],
                            n, Node(chain[p - 1], chain[p], e))
          /\ head' = head
        BY <2>1, <2>2, <2>3 DEF LinkBefore
    <2>6. /\ nodes' = nodes \cup {n} /\ heap'[n] = Node(chain[p - 1], chain[p], e)
          /\ heap' = [m \in nodes \cup {n} |-> heap'[m]]
        BY <1>3, <2>5 DEF Allocated, nodes
    <2>7. ASSUME NEW i \in 1..Size
          PROVE  heap'[chain[i]] = [prev    |-> IF i = p THEN n ELSE heap[chain[i]].prev,
                                    next    |-> IF i = p - 1 THEN n ELSE heap[chain[i]].next,
                                    element |-> heap[chain[i]].element]
        <3> DEFINE linked == [heap EXCEPT ![chain[p - 1]].next = n, ![chain[p]].prev = n]
        <3>1. heap'[chain[i]] = linked[chain[i]]
            BY <1>1, <1>3, <2>5 DEF Allocated
        <3>2. chain[i] = chain[p] <=> i = p
            BY <2>2 DEF IsChain
        <3>3. chain[i] = chain[p - 1] <=> i = p - 1
            BY <2>3 DEF IsChain
        <3>4. p # p - 1
            BY <2>2
        <3> QED
            BY <1>1, <1>3, <1>4, <3>1, <3>2, <3>3, <3>4
    <2>8. head' = IF p = 1 THEN n ELSE head
        BY <2>2, <2>5
    <2>9. heap'[n] = Node(At(chain, p - 1), At(chain, p), e)
        BY <2>2, <2>4, <2>6
    <2> HIDE DEF p
    <2>10. LinkedAt(chain, p, n, e)
        BY <2>6, <2>7, <2>8, <2>9, Zenon DEF LinkedAt
    <2> QED
        BY <2>10 DEF p
<1>7. CASE head # NULL /\ index > 0 /\ ~(index < dpl_size)
    <2>1. LinkLast(n, e, ref)
        BY <1>1, <1>7
    <2>2. p = Size + 1 /\ Size \in 1..Size /\ ref = chain[Size]
        BY <1>1, <1>2, <1>7, ReferenceAtIndex DEF NewPlace, PlaceOf
    <2>3. At(chain, p - 1) = chain[Size] /\ At(chain, p) = NULL
        BY <1>1, <2>2 DEF At
    <2>4. heap' = Allocated([heap EXCEPT ![chain[Size]].next = n], n, Node(chain[Size], NULL, e))
          /\ head' = head
        BY <2>1, <2>2 DEF LinkLast
    <2>5. /\ nodes' = nodes \cup {n} /\ heap'[n] = Node(chain[Size], NULL, e)
          /\ heap' = [m \in nodes \cup {n} |-> heap'[m]]
        BY <1>3, <2>4 DEF Allocated, nodes
    <2>6. ASSUME NEW i \in 1..Size
          PROVE  heap'[chain[i]] = [prev    |-> IF i = p THEN n ELSE heap[chain[i]].prev,
                                    next    |-> IF i = p - 1 THEN n ELSE heap[chain[i]].next,
                                    element |-> heap[chain[i]].element]
        <3>1. heap'[chain[i]] = [heap EXCEPT ![chain[Size]].next = n][chain[i]]
            BY <1>1, <1>3, <2>4 DEF Allocated
        <3>2. chain[i] = chain[Size] <=> i = p - 1
            BY <1>1, <2>2 DEF IsChain
        <3>3. i # p
            BY <1>1, <2>2
        <3> QED
            BY <1>1, <1>3, <1>4, <3>1, <3>2, <3>3
    <2>7. p # 1
        BY <1>1, <2>2
    <2> QED
        BY <2>3, <2>4, <2>5, <2>6, <2>7 DEF LinkedAt
<1> QED
    BY <1>5, <1>6, <1>7

(* The chain with the new node in it is the chain of the new state.        *)
LEMMA InsertedChain ==
    ASSUME TypeOK, NEW chain, IsChain(chain),
           NEW p \in 1..(Size + 1), NEW n \in Nodes \ nodes, NEW e \in Objs,
           LinkedAt(chain, p, n, e),
           Size' = Size + 1,
           \A i \in 1..(Size + 1) :
              contents'[i] = IF i < p THEN contents[i] ELSE IF i = p THEN e ELSE contents[i - 1]
    PROVE  \E longer \in [1..Size' -> Nodes] : IsChain(longer)'
<1>0. PICK size : size = Size
    OBVIOUS
<1> DEFINE longer == [i \in 1..(size + 1) |->
                         IF i < p THEN chain[i] ELSE IF i = p THEN n ELSE chain[i - 1]]
<1>1. /\ size \in Nat /\ size = Size /\ Size' = size + 1
      /\ \A i \in 1..size : chain[i] \in nodes /\ chain[i] \in Nodes
    BY <1>0, ChainFacts DEF IsChain
<1>2. \A i \in 1..(size + 1) : \/ i < p /\ i \in 1..size /\ longer[i] = chain[i]
                               \/ i = p /\ longer[i] = n
                               \/ i > p /\ i - 1 \in 1..size /\ longer[i] = chain[i - 1]
    BY <1>1
<1>3. longer \in [1..(size + 1) -> Nodes]
    BY <1>1
<1>4. \A i \in 1..size : \E j \in 1..(size + 1) : longer[j] = chain[i]
    <2> TAKE i \in 1..size
    <2>1. CASE i < p
        BY <1>1, <2>1
    <2>2. CASE i >= p
        <3>1. i + 1 \in 1..(size + 1) /\ i + 1 > p /\ i + 1 - 1 = i
            BY <1>1, <2>2
        <3>2. longer[i + 1] = chain[i]
            BY <3>1
        <3> QED
            BY <3>1, <3>2
    <2> QED
        BY <1>1, <2>1, <2>2
<1>5. nodes' = {longer[i] : i \in 1..(size + 1)}
    <2>1. longer[p] = n /\ p \in 1..(size + 1)
        BY <1>1
    <2>2. \A i \in 1..(size + 1) : longer[i] \in nodes'
        BY <1>1, <1>2 DEF LinkedAt
    <2>3. \A m \in nodes' : \E i \in 1..(size + 1) : longer[i] = m
        <3>1. nodes = {chain[i] : i \in 1..size} /\ nodes' = nodes \cup {n}
            BY <1>1 DEF LinkedAt, IsChain
        <3> HIDE DEF longer
        <3> QED
            BY <1>4, <2>1, <3>1
    <2> HIDE DEF longer
    <2> QED
        BY <2>2, <2>3
<1>6. \A i, j \in 1..(size + 1) : longer[i] = longer[j] => i = j
    BY <1>1, <1>2 DEF IsChain
<1>7. head' = longer[1]
    BY <1>1, <1>2 DEF LinkedAt, IsChain, At
<1>8. heap'[n] = Node(At(chain, p - 1), At(chain, p), e)
    BY DEF LinkedAt
<1>9. ASSUME NEW i \in 1..size
      PROVE  /\ heap'[chain[i]].prev = IF i = p THEN n ELSE At(chain, i - 1)
             /\ heap'[chain[i]].next = IF i = p - 1 THEN n ELSE At(chain, i + 1)
             /\ heap'[chain[i]].element = heap[chain[i]].element
      <2>1. heap'[chain[i]] = [prev    |-> IF i = p THEN n ELSE heap[chain[i]].prev,
                            next    |-> IF i = p - 1 THEN n ELSE heap[chain[i]].next,
                            element |-> heap[chain[i]].element]
        BY <1>1 DEF LinkedAt
    <2>2. heap[chain[i]].next = At(chain, i + 1) /\ heap[chain[i]].prev = At(chain, i - 1)
        BY <1>1 DEF IsChain
    <2> QED
        BY <2>1, <2>2
<1> DEFINE around(i) == IF i \in 1..(size + 1) THEN longer[i] ELSE NULL
<1>12. ASSUME NEW i \in 1..(size + 1)
       PROVE  /\ heap'[longer[i]].next = around(i + 1)
              /\ heap'[longer[i]].prev = around(i - 1)
              /\ heap'[longer[i]].element = contents'[i]
    <2>1. CASE i < p
        <3>1. i \in 1..size /\ longer[i] = chain[i]
            BY <1>1, <2>1
        <3>2. heap'[chain[i]].next = around(i + 1)
            BY <1>1, <1>9, <2>1, <3>1 DEF At
        <3>3. heap'[chain[i]].prev = around(i - 1)
            BY <1>1, <1>9, <2>1, <3>1 DEF At
        <3>4. heap'[chain[i]].element = contents'[i]
            BY <1>1, <1>9, <2>1, <3>1 DEF IsChain
        <3> QED
            BY <3>1, <3>2, <3>3, <3>4
    <2>2. CASE i = p
        <3>1. longer[i] = n
            BY <2>2
        <3>2. heap'[n].next = around(i + 1)
            <4>1. heap'[n].next = At(chain, p)
                BY <1>8 DEF Node
            <4>2. CASE p \in 1..size
                BY <1>1, <2>2, <4>1, <4>2 DEF At
            <4>3. CASE p \notin 1..size
                <5>1. i + 1 \notin 1..(size + 1)
                    BY <1>1, <2>2, <4>3
                <5> QED
                    BY <1>1, <4>1, <4>3, <5>1 DEF At
            <4> QED
                BY <4>2, <4>3
        <3>3. heap'[n].prev = around(i - 1)
            BY <1>1, <1>8, <2>2 DEF At, Node
        <3>4. heap'[n].element = contents'[i]
            BY <1>8, <2>2 DEF Node
        <3> QED
            BY <3>1, <3>2, <3>3, <3>4
    <2>3. CASE i > p
        <3>1. i - 1 \in 1..size /\ longer[i] = chain[i - 1]
            BY <1>1, <2>3
        <3>2. heap'[chain[i - 1]].next = around(i + 1)
            BY <1>1, <1>9, <2>3, <3>1 DEF At
        <3>3. heap'[chain[i - 1]].prev = around(i - 1)
            BY <1>1, <1>9, <2>3, <3>1 DEF At
        <3>4. heap'[chain[i - 1]].element = contents'[i]
            BY <1>1, <1>9, <2>3, <3>1 DEF IsChain
        <3> QED
            BY <3>1, <3>2, <3>3, <3>4
    <2> QED
        BY <1>1, <2>1, <2>2, <2>3
<1>13. \A i \in Int : At(longer, i)' = around(i)
    BY <1>1 DEF At
<1>14. IsChain(longer)'
    <2>1. around(1) = longer[1]
        BY <1>1
    <2> HIDE DEF longer, around
    <2> QED
        BY <1>1, <1>3, <1>5, <1>6, <1>7, <1>12, <1>13, <2>1 DEF IsChain
<1> QED
    BY <1>1, <1>3, <1>14

LEMMA Insertion ==
    ASSUME IInv, NEW k \in Keys, NEW index \in Int, NEW insert_copy \in BOOLEAN,
           dpl_insert_at_index(k, index, insert_copy)
    PROVE  /\ IInv'
           /\ \A n \in nodes \cap nodes' : heap'[n].element = heap[n].element
<1>1. TypeOK /\ Owned
    BY DEF IInv
<1>2. PICK chain \in [1..Size -> Nodes] : IsChain(chain)
    BY DEF IInv
<1>3. exists /\ exists' = exists /\ mine' = mine /\ spoilt' = spoilt
    BY DEF dpl_insert_at_index
<1>4. PICK n \in Nodes \ nodes, e \in Entering(k, insert_copy) :
         /\ key' = IF insert_copy THEN Allocated(key, e, k) ELSE key
         /\ contents' = WithInserted(e, index)
         /\ LET ref == dpl_get_reference_at_index(index)
            IN  CASE head = NULL \/ index <= 0 -> LinkFirst(n, e)
                  [] head # NULL /\ index > 0 /\ index < dpl_size -> LinkBefore(n, e, ref)
                  [] OTHER -> LinkLast(n, e, ref)
    BY DEF dpl_insert_at_index
<1>5. /\ index \in Int /\ contents \in Seq(Objs) /\ NULL \notin Nodes
      /\ e \in Objs
    BY <1>1, DplistAssumption DEF DplistAssumption, TypeOK, Entering
<1> DEFINE p == NewPlace(index)
<1>6. LinkedAt(chain, p, n, e)
    BY <1>1, <1>2, <1>4, <1>5, InsertLinksAtPlace
<1>7. /\ p \in 1..(Size + 1)
      /\ contents' \in Seq(Objs) /\ Size' = Size + 1
      /\ \A i \in 1..(Size + 1) :
            contents'[i] = IF i < p THEN contents[i] ELSE IF i = p THEN e ELSE contents[i - 1]
    BY <1>4, <1>5, WithInsertedElements DEF Size
<1> HIDE DEF p
<1>8. \E longer \in [1..Size' -> Nodes] : IsChain(longer)'
    <2>1. PICK place \in 1..(Size + 1) : place = p
        BY <1>7
    <2>2. LinkedAt(chain, place, n, e)
        BY <1>6, <2>1
    <2> QED
        BY <1>1, <1>2, <1>4, <1>5, <1>7, <2>1, <2>2, InsertedChain
<1>9. \A m \in nodes : \E i \in 1..Size : m = chain[i]
    BY <1>2 DEF IsChain
<1>10. \A m \in nodes : heap'[m].element = heap[m].element
    <2> TAKE m \in nodes
    <2>1. PICK i \in 1..Size : m = chain[i]
        BY <1>9
    <2>2. heap'[m] = [prev    |-> IF i = p THEN n ELSE heap[m].prev,
                      next    |-> IF i = p - 1 THEN n ELSE heap[m].next,
                      element |-> heap[m].element]
        BY <1>6, <2>1 DEF LinkedAt
    <2> QED
        BY <2>2
<1>11. heap'[n].element = e /\ nodes' = nodes \cup {n}
    BY <1>6 DEF LinkedAt, Node
(* A copy is a new object; what goes in by reference is known to callers.  *)
<1>12. /\ objs' = objs \cup {e} /\ key' \in [objs' -> Keys]
       /\ e \notin objs \/ e \in mine
    <2>1. CASE insert_copy
        BY <1>1, <1>4, <2>1 DEF Entering, Allocated, objs, TypeOK
    <2>2. CASE ~insert_copy
        BY <1>1, <1>4, <2>2 DEF Entering, objs, TypeOK
    <2> QED
        BY <2>1, <2>2
<1>13. TypeOK'
    <2>1. heap' \in [nodes' -> [prev : Nodes \cup {NULL}, next : Nodes \cup {NULL}, element : Objs]]
        <3> DEFINE Fields == [prev : Nodes \cup {NULL}, next : Nodes \cup {NULL}, element : Objs]
        <3>1. heap'[n] \in Fields
            <4>1. At(chain, p - 1) \in Nodes \cup {NULL} /\ At(chain, p) \in Nodes \cup {NULL}
                BY DEF At
            <4> QED
                BY <1>5, <1>6, <4>1 DEF LinkedAt, Node
        <3>2. ASSUME NEW m \in nodes PROVE heap'[m] \in Fields
            <4>1. heap[m] \in Fields
                BY <1>1 DEF TypeOK
            <4>2. PICK i \in 1..Size : m = chain[i]
                BY <1>9
            <4>3. heap'[m] = [prev    |-> IF i = p THEN n ELSE heap[m].prev,
                              next    |-> IF i = p - 1 THEN n ELSE heap[m].next,
                              element |-> heap[m].element]
                BY <1>6, <4>2 DEF LinkedAt
            <4> QED
                BY <1>4, <4>1, <4>3
        <3>3. heap' = [m \in nodes' |-> heap'[m]]
            BY <1>6 DEF LinkedAt
        <3> HIDE DEF Fields
        <3>4. heap' \in [nodes' -> Fields]
            BY <1>11, <3>1, <3>2, <3>3
        <3> QED
            BY <3>4 DEF Fields
    <2>2. head' \in Nodes \cup {NULL}
        BY <1>1, <1>4, <1>6 DEF TypeOK, LinkedAt
    <2>3. key' \in [objs' -> Keys] /\ objs' \subseteq Objs /\ mine' \in SUBSET objs'
        BY <1>1, <1>3, <1>5, <1>12 DEF TypeOK
    <2> QED
        BY <1>1, <1>3, <1>4, <1>7, <1>11, <2>1, <2>2, <2>3 DEF TypeOK
<1>14. Owned'
    <2>1. ASSUME NEW m \in nodes, heap[m].element = e PROVE e \in mine \cup spoilt
        BY <1>1, <1>12, <2>1 DEF Owned
    <2>2. \A m \in nodes' : \/ m \in nodes /\ heap'[m].element = heap[m].element
                            \/ m = n /\ heap'[m].element = e
        <3> TAKE m \in nodes'
        <3>1. m \in nodes \/ m = n
            BY <1>11, Zenon
        <3> QED
            BY <1>10, <1>11, <3>1, Zenon
    <2>3. \A o \in objs' : o \in mine' \cup spoilt' \/ \E m \in nodes' : heap'[m].element = o
        BY <1>1, <1>3, <1>10, <1>11, <1>12 DEF Owned
    <2>4. \A m \in nodes' : heap'[m].element \in objs' \cup spoilt'
        BY <1>1, <1>3, <1>12, <2>2 DEF Owned
    <2>5. \A l, m \in nodes' : heap'[l].element = heap'[m].element =>
             l = m \/ heap'[l].element \in mine' \cup spoilt'
        BY <1>1, <1>3, <2>1, <2>2 DEF Owned
    <2> QED
        BY <2>3, <2>4, <2>5 DEF Owned
<1>15. IInv'
    BY <1>3, <1>8, <1>13, <1>14 DEF IInv
<1> QED
    BY <1>10, <1>15
-----------------------------------------------------------------------------
(* Removal.                                                                *)

LEMMA RemoveAtElements ==
    ASSUME NEW S, NEW s \in Seq(S), NEW p \in 1..Len(s)
    PROVE  /\ RemoveAt(s, p) \in Seq(S)
           /\ Len(RemoveAt(s, p)) = Len(s) - 1
           /\ \A i \in 1..(Len(s) - 1) :
                 RemoveAt(s, p)[i] = IF i < p THEN s[i] ELSE s[i + 1]
<1> DEFINE front == SubSeq(s, 1, p - 1)
           back  == SubSeq(s, p + 1, Len(s))
<1>1. /\ front \in Seq(S) /\ Len(front) = p - 1
      /\ \A i \in 1..(p - 1) : front[i] = s[i]
    OBVIOUS
<1>2. /\ back \in Seq(S) /\ Len(back) = Len(s) - p
      /\ \A i \in 1..(Len(s) - p) : back[i] = s[p + i]
    OBVIOUS
<1>3. RemoveAt(s, p) = front \o back
    BY DEF RemoveAt
<1> HIDE DEF front, back
<1>4. /\ front \o back \in Seq(S) /\ Len(front \o back) = Len(front) + Len(back)
      /\ \A i \in 1..(Len(front) + Len(back)) :
            (front \o back)[i] = IF i <= Len(front) THEN front[i] ELSE back[i - Len(front)]
    BY <1>1, <1>2, ConcatElements
<1> DEFINE joined == front \o back
<1>5. /\ RemoveAt(s, p) = joined /\ joined \in Seq(S) /\ Len(joined) = Len(s) - 1
      /\ \A i \in 1..(Len(s) - 1) :
            joined[i] = IF i <= p - 1 THEN front[i] ELSE back[i - (p - 1)]
    BY <1>1, <1>2, <1>3, <1>4
<1> HIDE DEF joined
<1>6. ASSUME NEW i \in 1..(Len(s) - 1)
      PROVE  joined[i] = IF i < p THEN s[i] ELSE s[i + 1]
    <2>1. CASE i < p
        BY <1>1, <1>5, <2>1
    <2>2. CASE ~(i < p)
        <3>1. i - (p - 1) \in 1..(Len(s) - p) /\ p + (i - (p - 1)) = i + 1
            BY <2>2
        <3>2. joined[i] = back[i - (p - 1)] /\ back[i - (p - 1)] = s[p + (i - (p - 1))]
            BY <1>2, <1>5, <2>2, <3>1
        <3> QED
            BY <2>2, <3>1, <3>2
    <2> QED
        BY <2>1, <2>2
<1> QED
    BY <1>5, <1>6

LEMMA WithRemovedElements ==
    ASSUME NEW index \in Int, contents \in Seq(Objs), Size > 0
    PROVE  /\ WithRemoved(index) \in Seq(Objs)
           /\ Removed(index) = contents[PlaceOf(index)]
           /\ Len(WithRemoved(index)) = Size - 1
           /\ \A i \in 1..(Size - 1) : WithRemoved(index)[i] =
                 IF i < PlaceOf(index) THEN contents[i] ELSE contents[i + 1]
<1>1. Size \in Nat /\ Size = Len(contents) /\ contents # << >>
    BY DEF Size
<1>2. CASE index <= 0
    <2>1. /\ PlaceOf(index) = 1 /\ WithRemoved(index) = Tail(contents)
          /\ Removed(index) = contents[1]
        BY <1>1, <1>2 DEF PlaceOf, WithRemoved, Removed
    <2> QED
        BY <1>1, <2>1
<1>3. CASE index > 0 /\ index < Size
    <2>1. /\ PlaceOf(index) = index + 1
          /\ WithRemoved(index) = RemoveAt(contents, index + 1)
          /\ Removed(index) = contents[index + 1]
        BY <1>1, <1>3 DEF PlaceOf, WithRemoved, Removed
    <2>2. index + 1 \in 1..Len(contents)
        BY <1>1, <1>3
    <2> DEFINE shorter == RemoveAt(contents, index + 1)
    <2>3. /\ shorter \in Seq(Objs) /\ Len(shorter) = Len(contents) - 1
          /\ \A i \in 1..(Len(contents) - 1) : shorter[i] =
                IF i < index + 1 THEN contents[i] ELSE contents[i + 1]
        BY <2>2, RemoveAtElements
    <2> QED
        BY <1>1, <2>1, <2>3
<1>4. CASE index > 0 /\ ~(index < Size)
    <2>1. /\ PlaceOf(index) = Size /\ WithRemoved(index) = Front(contents)
          /\ Removed(index) = contents[Size]
        BY <1>1, <1>4 DEF PlaceOf, WithRemoved, Removed, Last
    <2>2. /\ Front(contents) \in Seq(Objs) /\ Len(Front(contents)) = Len(contents) - 1
          /\ \A i \in 1..(Len(contents) - 1) : Front(contents)[i] = contents[i]
        BY <1>1 DEF Front
    <2> QED
        BY <1>1, <2>1, <2>2
<1> QED
    BY <1>2, <1>3, <1>4

(* The node at place p leaves the chain.                                   *)
LEMMA RemovedChain ==
    ASSUME TypeOK, NEW chain, IsChain(chain), NEW p \in 1..Size,
           heap' = Unlink(chain[p]),
           head' = IF p = 1 THEN heap[head].next ELSE head,
           Size' = Size - 1,
           \A i \in 1..(Size - 1) :
              contents'[i] = IF i < p THEN contents[i] ELSE contents[i + 1]
    PROVE  \E shorter \in [1..Size' -> Nodes] : IsChain(shorter)'
<1>0. PICK size : size = Size
    OBVIOUS
<1> DEFINE shorter == [i \in 1..(size - 1) |-> IF i < p THEN chain[i] ELSE chain[i + 1]]
           around(i) == IF i \in 1..(size - 1) THEN shorter[i] ELSE NULL
           n == chain[p]
<1>1. /\ size \in Nat /\ size = Size /\ Size' = size - 1 /\ p \in 1..size
      /\ NULL \notin Nodes /\ n \in nodes
      /\ \A i \in 1..size : chain[i] \in nodes /\ chain[i] \in Nodes
    BY <1>0, ChainFacts, DplistAssumption DEF IsChain, DplistAssumption
<1>2. \A i \in 1..(size - 1) : \/ i < p /\ i \in 1..size /\ shorter[i] = chain[i]
                               \/ i >= p /\ i + 1 \in 1..size /\ shorter[i] = chain[i + 1]
    BY <1>1
<1>3. shorter \in [1..(size - 1) -> Nodes]
    BY <1>1
<1>4. nodes' = nodes \ {n} /\ \A m \in nodes \ {n} :
         heap'[m] = [heap[m] EXCEPT !.next = IF m = heap[n].prev THEN heap[n].next ELSE @,
                                    !.prev = IF m = heap[n].next THEN heap[n].prev ELSE @]
    BY DEF Unlink, nodes
<1>5. \A i \in 1..size : i # p => \E j \in 1..(size - 1) : shorter[j] = chain[i]
    <2> TAKE i \in 1..size
    <2> HAVE i # p
    <2>1. CASE i < p
        BY <1>1, <2>1
    <2>2. CASE i > p
        <3>1. i - 1 \in 1..(size - 1) /\ ~(i - 1 < p) /\ (i - 1) + 1 = i
            BY <1>1, <2>2
        <3>2. shorter[i - 1] = chain[i]
            BY <3>1
        <3> QED
            BY <3>1, <3>2
    <2> QED
        BY <1>1, <2>1, <2>2
<1>6. \A i, j \in 1..size : chain[i] = chain[j] => i = j
    BY <1>1 DEF IsChain
<1>7. nodes' = {shorter[i] : i \in 1..(size - 1)}
    <2>1. ASSUME NEW i \in 1..(size - 1) PROVE shorter[i] \in nodes'
        <3>1. PICK j \in 1..size : j # p /\ shorter[i] = chain[j]
            BY <1>1, <1>2
        <3>2. chain[j] \in nodes /\ chain[j] # n
            BY <1>1, <1>6, <3>1
        <3> QED
            BY <1>4, <3>1, <3>2
    <2>2. \A m \in nodes' : \E i \in 1..(size - 1) : shorter[i] = m
        <3>1. \A m \in nodes : \E i \in 1..size : m = chain[i]
            BY <1>1 DEF IsChain
        <3> TAKE m \in nodes'
        <3>2. PICK i \in 1..size : m = chain[i]
            BY <1>4, <3>1
        <3>3. i # p
            BY <1>4, <3>2
        <3> HIDE DEF shorter
        <3> QED
            BY <1>5, <3>2, <3>3
    <2> HIDE DEF shorter
    <2> QED
        BY <2>1, <2>2
<1>8. \A i, j \in 1..(size - 1) : shorter[i] = shorter[j] => i = j
    BY <1>1, <1>2, <1>6
<1>9. \A i \in 1..size : /\ heap[chain[i]].next = At(chain, i + 1)
                         /\ heap[chain[i]].prev = At(chain, i - 1)
                         /\ heap[chain[i]].element = contents[i]
    BY <1>1 DEF IsChain
<1>10. head' = around(1)
    <2>1. CASE p = 1
        BY <1>1, <1>9, <2>1 DEF IsChain, At
    <2>2. CASE p # 1
        BY <1>1, <2>2 DEF IsChain, At
    <2> QED
        BY <2>1, <2>2
(* The links of what is left, by the places in the old chain.              *)
<1>11. ASSUME NEW i \in 1..size, i # p
       PROVE  /\ heap'[chain[i]].next = IF i = p - 1 THEN At(chain, p + 1) ELSE At(chain, i + 1)
              /\ heap'[chain[i]].prev = IF i = p + 1 THEN At(chain, p - 1) ELSE At(chain, i - 1)
              /\ heap'[chain[i]].element = heap[chain[i]].element
    <2>1. chain[i] \in nodes \ {n}
        BY <1>1, <1>6, <1>11
    <2>2. heap[n].prev = At(chain, p - 1) /\ heap[n].next = At(chain, p + 1)
        BY <1>1, <1>9
    <2>3. chain[i] = At(chain, p - 1) <=> i = p - 1
        BY <1>1, <1>6 DEF At
    <2>4. chain[i] = At(chain, p + 1) <=> i = p + 1
        <3>1. CASE p + 1 \in 1..size
            BY <1>1, <1>6, <3>1 DEF At
        <3>2. CASE p + 1 \notin 1..size
            <4>1. At(chain, p + 1) = NULL /\ i # p + 1
                BY <1>1, <3>2 DEF At
            <4> QED
                BY <1>1, <4>1
        <3> QED
            BY <3>1, <3>2
    <2>5. heap[chain[i]] \in [prev : Nodes \cup {NULL}, next : Nodes \cup {NULL}, element : Objs]
        BY <2>1 DEF TypeOK
    <2>6. heap'[chain[i]] = [heap[chain[i]] EXCEPT
                                !.next = IF i = p - 1 THEN At(chain, p + 1) ELSE @,
                                !.prev = IF i = p + 1 THEN At(chain, p - 1) ELSE @]
        <3>1. heap'[chain[i]] = [heap[chain[i]] EXCEPT
                  !.next = IF chain[i] = heap[n].prev THEN heap[n].next ELSE @,
                  !.prev = IF chain[i] = heap[n].next THEN heap[n].prev ELSE @]
            BY <1>4, <2>1
        <3> HIDE DEF n
        <3> QED
            BY <2>2, <2>3, <2>4, <3>1
    <2>7. heap[chain[i]].next = At(chain, i + 1) /\ heap[chain[i]].prev = At(chain, i - 1)
        BY <1>9
    <2> QED
        BY <2>5, <2>6, <2>7
<1>12. ASSUME NEW i \in 1..(size - 1)
       PROVE  /\ heap'[shorter[i]].next = around(i + 1)
              /\ heap'[shorter[i]].prev = around(i - 1)
              /\ heap'[shorter[i]].element = contents'[i]
    <2>1. CASE i < p
        <3>1. i \in 1..size /\ i # p /\ shorter[i] = chain[i]
            BY <1>1, <2>1
        <3>2. heap'[chain[i]].next = around(i + 1)
            BY <1>1, <1>11, <2>1, <3>1 DEF At
        <3>3. heap'[chain[i]].prev = around(i - 1)
            BY <1>1, <1>11, <2>1, <3>1 DEF At
        <3>4. heap'[chain[i]].element = contents'[i]
            BY <1>1, <1>6, <1>9, <1>11, <2>1, <3>1
        <3> QED
            BY <3>1, <3>2, <3>3, <3>4
    <2>2. CASE i >= p
        <3>1. i + 1 \in 1..size /\ i + 1 # p /\ shorter[i] = chain[i + 1]
            BY <1>1, <2>2
        <3>2. heap'[chain[i + 1]].next = around(i + 1)
            BY <1>1, <1>11, <2>2, <3>1 DEF At
        <3>3. heap'[chain[i + 1]].prev = around(i - 1)
            BY <1>1, <1>11, <2>2, <3>1 DEF At
        <3>4. heap'[chain[i + 1]].element = contents'[i]
            BY <1>1, <1>6, <1>9, <1>11, <2>2, <3>1
        <3> QED
            BY <3>1, <3>2, <3>3, <3>4
    <2> QED
        BY <1>1, <2>1, <2>2
<1>13. \A i \in Int : At(shorter, i)' = around(i)
    BY <1>1 DEF At
<1>14. IsChain(shorter)'
    <2> HIDE DEF shorter, around
    <2> QED
        BY <1>1, <1>3, <1>7, <1>8, <1>10, <1>12, <1>13 DEF IsChain
<1> QED
    BY <1>1, <1>3, <1>14

(* The elements of a sequence are those at its places.                      *)
LEMMA SeqRange ==
    ASSUME NEW S, NEW s \in Seq(S)
    PROVE  /\ Range(s) = {s[i] : i \in 1..Len(s)}
           /\ \A o \in Range(s) : o \in S
<1>1. DOMAIN s = 1..Len(s)
    OBVIOUS
<1>2. \A i \in 1..Len(s) : s[i] \in S
    OBVIOUS
<1>3. Range(s) = {s[i] : i \in 1..Len(s)}
    BY <1>1 DEF Range
<1> QED
    BY <1>2, <1>3

(* The elements of the chain are those of contents.                        *)
LEMMA RangeOfChain ==
    ASSUME TypeOK, NEW chain, IsChain(chain)
    PROVE  /\ \A m \in nodes : heap[m].element \in Range(contents)
           /\ Range(contents) \subseteq Objs
<1>1. contents \in Seq(Objs) /\ Size = Len(contents)
    BY DEF TypeOK, Size
<1>2. Range(contents) = {contents[i] : i \in 1..Size} /\ \A o \in Range(contents) : o \in Objs
    BY <1>1, SeqRange
<1>3. ASSUME NEW m \in nodes PROVE heap[m].element \in {contents[i] : i \in 1..Size}
    <2>1. PICK i \in 1..Size : m = chain[i]
        BY Zenon DEF IsChain
    <2>2. heap[m].element = contents[i]
        BY <2>1, Zenon DEF IsChain
    <2> QED
        BY <2>2, Zenon
<1> QED
    BY <1>2, <1>3, Zenon

LEMMA Removal ==
    ASSUME IInv, NEW index \in Int, NEW free_element \in BOOLEAN,
           dpl_remove_at_index(index, free_element),
           dpl_size = 1 => index <= 0
    PROVE  /\ IInv'
           /\ \A n \in nodes \cap nodes' : heap'[n].element = heap[n].element
<1>1. TypeOK /\ Owned
    BY DEF IInv
<1>2. PICK chain \in [1..Size -> Nodes] : IsChain(chain)
    BY DEF IInv
<1>3. /\ index \in Int /\ contents \in Seq(Objs) /\ NULL \notin Nodes
      /\ Size \in Nat /\ dpl_size = Size
      /\ \A i \in 1..Size : chain[i] \in nodes
    BY <1>1, <1>2, ChainFacts, DplistAssumption DEF DplistAssumption, TypeOK
<1>4. /\ head # NULL /\ exists /\ exists' = exists
      /\ heap' = Unlink(dpl_get_reference_at_index(index))
      /\ head' = IF index <= 0 THEN heap[head].next ELSE head
      /\ Drop({ElementOf(dpl_get_reference_at_index(index))}, free_element)
      /\ contents' = WithRemoved(index)
      /\ spoilt' = spoilt \cup IF free_element THEN {Removed(index)} \cap Range(contents')
                                ELSE {Removed(index)} \ mine
    BY DEF dpl_remove_at_index
<1>5. Size > 0
    BY <1>2, <1>3, <1>4 DEF IsChain, At
<1>6. PlaceOf(index) \in 1..Size /\ dpl_get_reference_at_index(index) = chain[PlaceOf(index)]
    BY <1>1, <1>2, <1>3, <1>4, ReferenceAtIndex
<1>7. PICK p \in 1..Size : p = PlaceOf(index)
    BY <1>6
<1> DEFINE n == chain[p]
           e == heap[n].element
<1>8. heap' = Unlink(n) /\ Drop({e}, free_element)
    BY <1>4, <1>6, <1>7 DEF ElementOf
<1>9. head' = IF p = 1 THEN heap[head].next ELSE head
    BY <1>3, <1>4, <1>7 DEF PlaceOf
<1>10. /\ contents' \in Seq(Objs) /\ Size' = Size - 1
       /\ Removed(index) = contents[p]
       /\ \A i \in 1..(Size - 1) : contents'[i] = IF i < p THEN contents[i] ELSE contents[i + 1]
    BY <1>3, <1>4, <1>5, <1>7, WithRemovedElements DEF Size
<1>11. /\ n \in nodes /\ e = Removed(index) /\ e \in Objs
       /\ \A m \in nodes : heap[m].element \in Objs
    BY <1>1, <1>2, <1>3, <1>10 DEF IsChain, TypeOK
(* What became of the element: freed with its node or kept.                *)
<1>12. /\ key' \in [objs' -> Keys] /\ mine' \subseteq objs'
       /\ \/ /\ objs' = objs \ {e} /\ mine' = mine \ {e}
             /\ spoilt' = spoilt \cup ({e} \cap Range(contents'))
          \/ objs' = objs /\ mine' = mine /\ spoilt' = spoilt \cup ({e} \ mine)
    <2>1. key = [o \in objs |-> key[o]] /\ key \in [objs -> Keys] /\ mine \subseteq objs
        BY <1>1 DEF TypeOK
    <2>2. CASE free_element
        <3>1. /\ key' = [o \in objs \ {e} |-> key[o]] /\ mine' = mine \ {e}
              /\ spoilt' = spoilt \cup ({e} \cap Range(contents'))
            BY <1>4, <1>8, <1>11, <2>2 DEF Drop, Restrict
        <3> HIDE DEF e
        <3> QED
            BY <2>1, <3>1 DEF objs
    <2>3. CASE ~free_element
        BY <1>4, <1>8, <1>11, <2>1, <2>3 DEF Drop, objs
    <2> QED
        BY <2>2, <2>3
<1>13. PICK shorter \in [1..Size' -> Nodes] : IsChain(shorter)'
    BY <1>1, <1>2, <1>8, <1>9, <1>10, RemovedChain
<1>14. /\ \A m \in nodes' : heap'[m].element \in Range(contents')
       /\ \A o \in Range(contents') : \E m \in nodes' : heap'[m].element = o
    <2>1. /\ Size' = Len(contents') /\ nodes' = {shorter[i] : i \in 1..Size'}
          /\ \A i \in 1..Size' : heap'[shorter[i]].element = contents'[i]
        BY <1>13 DEF IsChain, Size
    <2>2. Range(contents') = {contents'[i] : i \in 1..Size'}
        BY <1>10, <2>1, SeqRange
    <2> QED
        BY <2>1, <2>2
<1>15. nodes' = nodes \ {n}
    BY <1>8 DEF Unlink, nodes
<1> DEFINE Fields == [prev : Nodes \cup {NULL}, next : Nodes \cup {NULL}, element : Objs]
<1>16. \A m \in nodes : heap[m] \in Fields
    BY <1>1 DEF TypeOK
<1>17. \A m \in nodes \ {n} : heap'[m] \in Fields /\ heap'[m].element = heap[m].element
    <2> TAKE m \in nodes \ {n}
    <2>1. heap'[m] = [heap[m] EXCEPT !.next = IF m = heap[n].prev THEN heap[n].next ELSE @,
                                     !.prev = IF m = heap[n].next THEN heap[n].prev ELSE @]
        BY <1>8 DEF Unlink
    <2> QED
        BY <1>11, <1>16, <2>1
<1>18. TypeOK'
    <2>1. heap' \in [nodes' -> Fields]
        <3>1. heap' = [m \in nodes' |-> heap'[m]]
            BY <1>8, <1>15 DEF Unlink
        <3> HIDE DEF Fields
        <3> QED
            BY <1>15, <1>17, <3>1
    <2>2. head' \in Nodes \cup {NULL}
        <3>1. head \in nodes
            BY <1>2, <1>3, <1>5 DEF IsChain, At
        <3> QED
            BY <1>1, <1>9, <1>16, <3>1 DEF TypeOK
    <2>3. objs' \subseteq Objs /\ spoilt' \subseteq Objs
        BY <1>1, <1>11, <1>12 DEF TypeOK
    <2>4. nodes' \subseteq Nodes /\ exists' \in BOOLEAN
        BY <1>1, <1>4, <1>15 DEF TypeOK
    <2> QED
        BY <1>10, <1>12, <2>1, <2>2, <2>3, <2>4 DEF TypeOK
<1>19. Owned'
    <2> HIDE DEF e, n
    <2>1. \A o \in objs' : o \in mine' \cup spoilt' \/ \E m \in nodes' : heap'[m].element = o
        <3> TAKE o \in objs'
        <3>1. CASE o = e
            BY <1>12, <3>1
        <3>2. CASE o # e
            <4>1. o \in mine \cup spoilt \/ \E m \in nodes : heap[m].element = o
                BY <1>1, <1>12 DEF Owned
            <4>2. ASSUME NEW m \in nodes, heap[m].element = o
                  PROVE  m \in nodes' /\ heap'[m].element = o
                BY <1>15, <1>17, <3>2, <4>2 DEF e
            <4> QED
                BY <1>12, <3>2, <4>1, <4>2
        <3> QED
            BY <3>1, <3>2
    <2>2. \A m \in nodes' : heap'[m].element \in objs' \cup spoilt'
        <3> TAKE m \in nodes'
        <3>1. heap'[m].element \in objs \cup spoilt
            BY <1>1, <1>15, <1>17 DEF Owned
        <3> QED
            BY <1>12, <1>14, <3>1
    <2>3. \A l, m \in nodes' : heap'[l].element = heap'[m].element =>
             l = m \/ heap'[l].element \in mine' \cup spoilt'
        <3> SUFFICES ASSUME NEW l \in nodes', NEW m \in nodes', l # m,
                            heap'[l].element = heap'[m].element
                     PROVE  heap'[l].element \in mine' \cup spoilt'
            OBVIOUS
        <3>1. heap'[l].element \in mine \cup spoilt
            BY <1>1, <1>15, <1>17 DEF Owned
        <3> QED
            BY <1>12, <1>14, <3>1
    <2> QED
        BY <2>1, <2>2, <2>3 DEF Owned
<1>20. IInv'
    BY <1>4, <1>13, <1>18, <1>19 DEF IInv
<1> QED
    BY <1>15, <1>17, <1>20

(* The trap: head goes on pointing to the only node, which was freed.      *)
Dangling == ~Defined /\ contents = << >>

LEMMA RemovalOfOnly ==
    ASSUME IInv, NEW index \in Int, NEW free_element \in BOOLEAN,
           dpl_remove_at_index(index, free_element),
           dpl_size = 1, index > 0
    PROVE  Dangling'
<1>1. PICK chain \in [1..Size -> Nodes] : IsChain(chain)
    BY DEF IInv
<1>2. /\ TypeOK /\ contents \in Seq(Objs) /\ NULL \notin Nodes
      /\ Size = 1 /\ dpl_size = 1
    BY <1>1, ChainFacts, DplistAssumption DEF DplistAssumption, IInv, TypeOK
<1>3. chain[1] \in Nodes /\ nodes = {chain[1]} /\ head = chain[1]
    BY <1>1, <1>2 DEF IsChain, At
<1>4. /\ head' = head /\ contents' = WithRemoved(index)
      /\ heap' = Unlink(dpl_get_reference_at_index(index))
    BY DEF dpl_remove_at_index
<1>5. dpl_get_reference_at_index(index) = chain[1]
    BY <1>1, <1>2, <1>3, ReferenceAtIndex
<1>6. nodes' = {}
    BY <1>3, <1>4, <1>5 DEF Unlink, nodes
<1>7. contents' = << >>
    <2>1. WithRemoved(index) \in Seq(Objs) /\ Len(WithRemoved(index)) = 0
        BY <1>2, WithRemovedElements
    <2> QED
        BY <1>4, <2>1
<1> QED
    BY <1>2, <1>3, <1>4, <1>6, <1>7 DEF Dangling, Defined
-----------------------------------------------------------------------------
(* The other calls, and the theorems.                                      *)

LEMMA Freeing ==
    ASSUME IInv, NEW free_element \in BOOLEAN, dpl_free(free_element)
    PROVE  /\ IInv'
           /\ nodes \cap nodes' = {}
<1>1. TypeOK /\ Owned
    BY DEF IInv
<1>2. PICK chain \in [1..Size -> Nodes] : IsChain(chain)
    BY DEF IInv
<1>3. Listed = nodes
    BY <1>1, <1>2, ChainFacts
<1>4. nodes' = {} /\ heap' = [m \in nodes' |-> heap'[m]]
    BY <1>3 DEF dpl_free, Restrict, nodes
<1> DEFINE elements == {heap[n].element : n \in nodes}
<1>5. /\ exists' = FALSE /\ head' = NULL /\ contents' = << >>
      /\ Drop(elements, free_element)
      /\ spoilt' = spoilt \cup IF free_element THEN {} ELSE Range(contents) \ mine
    BY <1>3 DEF dpl_free
<1>6. /\ \A o \in objs : o \in mine \cup spoilt \cup elements
      /\ elements \subseteq Range(contents) /\ Range(contents) \subseteq Objs
    <2>1. /\ \A m \in nodes : heap[m].element \in Range(contents)
          /\ Range(contents) \subseteq Objs
        BY <1>1, <1>2, RangeOfChain
    <2> QED
        BY <1>1, <2>1 DEF Owned
<1> HIDE DEF elements
<1>7. /\ key' \in [objs' -> Keys] /\ objs' \subseteq objs /\ mine' \in SUBSET objs'
      /\ spoilt' \subseteq Objs
      /\ \A o \in objs' : o \in mine' \cup spoilt'
    <2>1. /\ key = [o \in objs |-> key[o]] /\ key \in [objs -> Keys] /\ mine \subseteq objs
          /\ spoilt \subseteq Objs
        BY <1>1 DEF TypeOK
    <2>2. CASE free_element
        <3>1. key' = [o \in objs \ elements |-> key[o]]
            BY <1>5, <2>2 DEF Drop, Restrict
        <3> QED
            BY <1>5, <1>6, <2>1, <2>2, <3>1 DEF Drop, objs
    <2>3. CASE ~free_element
        BY <1>5, <1>6, <2>1, <2>3 DEF Drop, objs
    <2> QED
        BY <2>2, <2>3
<1>8. TypeOK'
    <2>1. heap' \in [nodes' -> [prev : Nodes \cup {NULL}, next : Nodes \cup {NULL},
                               element : Objs]]
        BY <1>4
    <2>2. contents' \in Seq(Objs)
        BY <1>5
    <2>3. objs' \subseteq Objs
        BY <1>1, <1>7 DEF TypeOK
    <2> QED
        BY <1>4, <1>5, <1>7, <2>1, <2>2, <2>3 DEF TypeOK
<1>9. Owned'
    BY <1>4, <1>7 DEF Owned
<1>10. Size' = 0
    BY <1>5 DEF Size
<1>11. \E empty \in [1..Size' -> Nodes] : IsChain(empty)'
    <2> DEFINE empty == [i \in 1..0 |-> NULL]
    <2>1. empty \in [1..Size' -> Nodes]
        BY <1>10
    <2>2. IsChain(empty)'
        BY <1>4, <1>5, <1>10 DEF IsChain, At
    <2> QED
        BY <2>1, <2>2
<1> QED
    BY <1>4, <1>5, <1>8, <1>9, <1>11 DEF IInv

(* A call that leaves the nodes and their order alone.                     *)
LEMMA ChainStays ==
    ASSUME IInv, UNCHANGED <<head, heap, contents>>
    PROVE  \E chain \in [1..Size' -> Nodes] : IsChain(chain)'
<1>1. PICK chain \in [1..Size -> Nodes] : IsChain(chain)
    BY DEF IInv
<1>2. /\ Size' = Size /\ nodes' = nodes
      /\ head' = head /\ heap' = heap /\ contents' = contents
    BY DEF Size, nodes
<1>3. \A i \in Int : At(chain, i)' = At(chain, i)
    BY <1>2 DEF At
<1>4. Size \in Nat
    BY DEF IInv, TypeOK, Size
<1>5. \A i \in 1..Size : /\ heap'[chain[i]].next = At(chain, i + 1)'
                         /\ heap'[chain[i]].prev = At(chain, i - 1)'
                         /\ heap'[chain[i]].element = contents'[i]
    BY <1>1, <1>2, <1>3, <1>4 DEF IsChain
<1>6. head' = At(chain, 1)' /\ nodes' = {chain[i] : i \in 1..Size}
    BY <1>1, <1>2, <1>3 DEF IsChain
<1>7. IsChain(chain)'
    BY <1>1, <1>2, <1>5, <1>6 DEF IsChain
<1> QED
    BY <1>1, <1>2, <1>7

(* The calls that look at no node or only look at it.                      *)
Others ==
    \/ dpl_create
    \/ \E k \in Keys : CallerMakes(k)
    \/ \E index \in Indexes : CallerGets(index)
    \/ \E e \in mine : CallerFrees(e)
    \/ UNCHANGED vars

LEMMA OthersKeep ==
    ASSUME IInv, Others
    PROVE  /\ IInv'
           /\ nodes' = nodes /\ heap' = heap
<1>1. TypeOK /\ Owned
    BY DEF IInv
<1>2. /\ UNCHANGED <<head, heap, contents>> /\ nodes' = nodes
      /\ exists' = exists \/ exists' = TRUE
    BY DEF Others, dpl_create, CallerMakes, CallerGets, CallerFrees, vars, nodes
<1>3. \A m \in nodes : heap[m].element \in Range(contents)
    <2>1. PICK chain \in [1..Size -> Nodes] : IsChain(chain)
        BY DEF IInv
    <2> QED
        BY <1>1, <2>1, RangeOfChain
<1>4. key \in [objs -> Keys] /\ objs \subseteq Objs /\ mine \subseteq objs /\ spoilt \subseteq Objs
    BY <1>1 DEF TypeOK
<1> DEFINE Kept == /\ key' \in [objs' -> Keys] /\ objs' \subseteq Objs
                   /\ mine' \subseteq objs' /\ spoilt' \subseteq Objs
                   /\ Owned'
<1>5. ASSUME dpl_create \/ UNCHANGED vars PROVE Kept
    <2>1. key' = key /\ mine' = mine /\ spoilt' = spoilt /\ objs' = objs
        BY <1>5 DEF dpl_create, vars, objs
    <2>2. Owned'
        BY <1>1, <1>2, <2>1 DEF Owned
    <2> QED
        BY <1>4, <2>1, <2>2
<1>6. ASSUME NEW k \in Keys, CallerMakes(k) PROVE Kept
    <2>1. PICK e \in Objs \ objs : key' = Allocated(key, e, k) /\ mine' = mine \cup {e}
        BY <1>6 DEF CallerMakes
    <2>2. spoilt' = spoilt /\ objs' = objs \cup {e} /\ key' \in [objs' -> Keys]
        BY <1>4, <1>6, <2>1 DEF CallerMakes, Allocated, objs
    <2> QED
        BY <1>1, <1>2, <1>4, <2>1, <2>2 DEF Owned
<1>7. ASSUME NEW index \in Indexes, CallerGets(index) PROVE Kept
    <2>1. PICK o \in objs : mine' = mine \cup {o}
        BY <1>7 DEF CallerGets
    <2>2. spoilt' = spoilt /\ key' = key /\ objs' = objs
        BY <1>7 DEF CallerGets, objs
    <2> QED
        BY <1>1, <1>2, <1>4, <2>1, <2>2 DEF Owned
<1>8. ASSUME NEW e \in mine, CallerFrees(e) PROVE Kept
    <2>1. /\ mine' = mine \ {e} /\ spoilt' = spoilt \cup ({e} \cap Range(contents))
          /\ key' = [o \in objs \ {e} |-> key[o]]
        BY <1>8 DEF CallerFrees, Restrict
    <2>2. objs' = objs \ {e} /\ key' \in [objs' -> Keys]
        BY <1>4, <2>1 DEF objs
    <2>3. Owned'
        <3>1. \A o \in objs' : o \in mine' \cup spoilt' \/ \E m \in nodes' : heap'[m].element = o
            BY <1>1, <1>2, <2>1, <2>2 DEF Owned
        <3>2. \A m \in nodes' : heap'[m].element \in objs' \cup spoilt'
            BY <1>1, <1>2, <1>3, <2>1, <2>2 DEF Owned
        <3>3. \A m, n \in nodes' : heap'[m].element = heap'[n].element =>
                 m = n \/ heap'[m].element \in mine' \cup spoilt'
            BY <1>1, <1>2, <1>3, <2>1 DEF Owned
        <3> QED
            BY <3>1, <3>2, <3>3 DEF Owned
    <2> QED
        BY <1>4, <2>1, <2>2, <2>3
<1>9. Kept
    BY <1>5, <1>6, <1>7, <1>8 DEF Others
<1>10. TypeOK'
    <2>1. exists' \in BOOLEAN
        BY <1>1, <1>2 DEF TypeOK
    <2> QED
        BY <1>1, <1>2, <1>9, <2>1 DEF TypeOK
<1>11. \E chain \in [1..Size' -> Nodes] : IsChain(chain)'
    BY <1>2, ChainStays
<1>12. ~exists' => contents' = << >>
    BY <1>1, <1>2 DEF IInv, TypeOK
<1> QED
    BY <1>2, <1>9, <1>10, <1>11, <1>12 DEF IInv

LEMMA InitInv == Init => IInv
<1> SUFFICES ASSUME Init PROVE IInv
    OBVIOUS
<1>1. /\ exists = FALSE /\ head = NULL /\ nodes = {} /\ objs = {}
      /\ heap = << >> /\ key = << >> /\ mine = {} /\ spoilt = {} /\ contents = << >>
    BY DEF Init, nodes, objs
<1>2. Size = 0
    BY <1>1 DEF Size
<1>3. TypeOK
    <2>1. ASSUME NEW S PROVE << >> \in [{} -> S]
        OBVIOUS
    <2>2. /\ heap \in [nodes -> [prev : Nodes \cup {NULL}, next : Nodes \cup {NULL},
                                element : Objs]]
          /\ key \in [objs -> Keys]
        BY <1>1, <2>1
    <2>3. contents \in Seq(Objs)
        BY <1>1
    <2> QED
        BY <1>1, <2>2, <2>3 DEF TypeOK
<1>4. Owned
    BY <1>1 DEF Owned
<1>5. \E empty \in [1..Size -> Nodes] : IsChain(empty)
    <2> DEFINE empty == [i \in 1..0 |-> NULL]
    <2>1. empty \in [1..Size -> Nodes]
        BY <1>2
    <2>2. IsChain(empty)
        BY <1>1, <1>2 DEF IsChain, At
    <2> QED
        BY <2>1, <2>2
<1> QED
    BY <1>1, <1>3, <1>4, <1>5 DEF IInv

(* The call that leaves head dangling.                                     *)
Trap == \E index \in Indexes, free_element \in BOOLEAN :
            /\ dpl_size = 1 /\ index > 0
            /\ dpl_remove_at_index(index, free_element)

LEMMA HeadDefined == IInv => Defined
    BY DEF IInv, IsChain, At, Defined

(* One step keeps the invariant, and the element of a node that stays,     *)
(* unless it is that call.                                                 *)
LEMMA NextInv ==
    ASSUME IInv, [Next]_vars, ~Trap
    PROVE  /\ IInv'
           /\ \A n \in nodes \cap nodes' : heap'[n].element = heap[n].element
<1>1. CASE Others
    BY <1>1, OthersKeep
<1>2. ASSUME NEW k \in Keys, NEW index \in Indexes, NEW insert_copy \in BOOLEAN,
             dpl_insert_at_index(k, index, insert_copy)
      PROVE  /\ IInv'
             /\ \A n \in nodes \cap nodes' : heap'[n].element = heap[n].element
    BY <1>2, DplistAssumption, Insertion DEF DplistAssumption
<1>3. ASSUME NEW index \in Indexes, NEW free_element \in BOOLEAN,
             dpl_remove_at_index(index, free_element)
      PROVE  /\ IInv'
             /\ \A n \in nodes \cap nodes' : heap'[n].element = heap[n].element
    <2>1. dpl_size = 1 => index <= 0
        BY <1>3, DplistAssumption DEF DplistAssumption, Trap
    <2> QED
        BY <1>3, <2>1, DplistAssumption, Removal DEF DplistAssumption
<1>4. ASSUME NEW free_element \in BOOLEAN, dpl_free(free_element)
      PROVE  /\ IInv'
             /\ \A n \in nodes \cap nodes' : heap'[n].element = heap[n].element
    BY <1>4, Freeing
<1> QED
    BY <1>1, <1>2, <1>3, <1>4 DEF Next, Others

(* Careful callers keep out of the trap.                                   *)
LEMMA CarefulKeep == CarefulCallers => ~Trap
<1>1. ASSUME CarefulCallers, NEW index \in Indexes, NEW free_element \in BOOLEAN,
             dpl_remove_at_index(index, free_element)
      PROVE  ~(dpl_size = 1 /\ index > 0)
    <2>1. dpl_size = 1 => index <= 0
        BY <1>1 DEF dpl_remove_at_index
    <2> QED
        BY <2>1, DplistAssumption DEF DplistAssumption
<1> QED
    BY <1>1 DEF Trap

THEOREM Invariant == CarefulCallers => (Safety => []IInv)
<1> SUFFICES ASSUME CarefulCallers PROVE Safety => []IInv
    OBVIOUS
<1>1. IInv /\ [Next]_vars => IInv'
    BY CarefulKeep, NextInv
<1> QED
    BY <1>1, InitInv, PTL DEF Safety

(* Every variable keeps its type: head never points to freed memory.       *)
THEOREM TypeCorrect == CarefulCallers => (Safety => []TypeOK)
<1>1. IInv => TypeOK
    BY DEF IInv
<1> QED
    BY <1>1, Invariant, PTL

(* Forwards and backwards the list is what dplist.h makes of the calls.    *)
THEOREM ContentsCorrect == CarefulCallers => (Safety => []BothWaysContents)
    BY IInvImplies, Invariant, PTL

(* The allocated nodes are those of the list, and with any mixture of      *)
(* copies, references and frees the only elements that are lost, or freed  *)
(* while they are listed, are those that callers spoilt.                   *)
THEOREM MemoryCorrect == CarefulCallers => (Safety => []NothingLeaks)
    BY IInvImplies, Invariant, PTL

(* Every query answers for every index and key by the rules of dplist.h.   *)
THEOREM QueriesCorrect == CarefulCallers => (Safety => []QueriesAgree)
    BY IInvImplies, Invariant, PTL

(* A reference names the same element until its own node is removed.       *)
THEOREM ReferencesCorrect == CarefulCallers => (Safety => ReferencesStay)
<1> SUFFICES ASSUME CarefulCallers PROVE Safety => ReferencesStay
    OBVIOUS
<1> DEFINE Named == \A n \in nodes : dpl_get_element_at_reference(n) = heap[n].element
           Kept  == \A n \in nodes \cap nodes' : heap'[n].element = heap[n].element
           Stays == \A n \in nodes \cap nodes' :
                       dpl_get_element_at_reference(n)' = dpl_get_element_at_reference(n)
<1>1. IInv => Named
    BY ElementAtReference DEF IInv
<1>2. IInv /\ [Next]_vars => Kept
    BY CarefulKeep, NextInv
<1>3. Named /\ Named' /\ Kept => [Stays]_vars
    OBVIOUS
<1>4. Safety => [][Stays]_vars
    <2> HIDE DEF Named, Kept, Stays
    <2> QED
        BY <1>1, <1>2, <1>3, Invariant, PTL DEF Safety
<1> QED
    BY <1>4 DEF ReferencesStay

(* Callers may use any index anywhere: all of this holds until the only    *)
(* node is removed by an index above 0; only then head is left dangling,   *)
(* and the list should be empty.                                           *)
THEOREM AnyCallerCorrect ==
    Safety => /\ [](IF Defined THEN BothWaysContents /\ NothingLeaks /\ QueriesAgree
                    ELSE contents = << >>)
              /\ [][~Defined' => Trap]_vars
<1> DEFINE Good == IF Defined THEN BothWaysContents /\ NothingLeaks /\ QueriesAgree
                   ELSE contents = << >>
           Caught == ~Defined' => Trap
<1>1. Init => IInv \/ Dangling
    BY InitInv
<1>2. (IInv \/ Dangling) /\ [Next]_vars => (IInv \/ Dangling)' /\ [IInv' \/ Trap]_vars
    <2>1. ASSUME Dangling, [Next]_vars PROVE Dangling' /\ UNCHANGED vars
        BY <2>1 DEF Dangling, Defined, Next, vars, nodes
    <2>2. ASSUME IInv, Trap PROVE Dangling'
        BY <2>2, DplistAssumption, RemovalOfOnly DEF DplistAssumption, Trap
    <2> QED
        BY <2>1, <2>2, NextInv
<1>3. IInv => Defined
    BY HeadDefined
<1>4. IInv \/ Dangling => Good
    BY IInvImplies, HeadDefined DEF Dangling
<1>5. (IInv' => Defined') /\ [IInv' \/ Trap]_vars => [Caught]_vars
    OBVIOUS
<1>6. Safety => []Good /\ [][Caught]_vars
    <2> HIDE DEF Good, Caught
    <2> QED
        BY <1>1, <1>2, <1>3, <1>4, <1>5, PTL DEF Safety
<1> QED
    BY <1>6
==============================================================================
