------------------------------ MODULE ListTests ------------------------------
(***************************************************************************)
(* The unit tests of ListScripts, called on the list of Dplist; the copy   *)
(* in lab3m1/milestone1 is the one of the gateway, but for a block that an *)
(* insertion allocates and never uses.  And dpl_cleanup_rand of            *)
(* randomtest.c, which removes elements at random indexes until none is    *)
(* left; here it removes the last of them by an index of 0 or less, as     *)
(* Dplist's careful callers do, for by an index of 1 it ends in freed      *)
(* memory: see LastNodeIsRemoved.                                          *)
(***************************************************************************)
EXTENDS Integers, ListScripts

CONSTANTS Nodes, Objs, Keys, NULL, Indexes                    \* see Dplist

VARIABLES exists, head, heap, key, mine, spoilt, contents     \* see Dplist

vars == <<exists, head, heap, key, mine, spoilt, contents>>

List == INSTANCE Dplist WITH CarefulCallers <- TRUE

VARIABLES script,    \* rigid: the calls of one test function
          done,      \* how many of them were made
          cleanup,   \* dpl_cleanup_rand: off, on, or over
          size       \* its variable

testVars == <<vars, script, done, cleanup, size>>

TestInit ==
    /\ List!Init
    /\ script \in Scripts \cup {randomtest}
    /\ done = 0 /\ size = 0
    /\ cleanup = "off"

(* Which of the free addresses malloc returns makes no difference.         *)
LowestFirst ==
    /\ \A n \in List!nodes' \ List!nodes : \A m \in Nodes \ List!nodes : n <= m
    /\ \A e \in List!objs' \ List!objs : \A f \in Objs \ List!objs : e <= f

KeyOf(e) == IF e = NULL THEN 0 ELSE key[e]

-----------------------------------------------------------------------------
(* milestone1/dplist.c, with what it does for the list NULL.               *)

dpl_create == List!dpl_create

dpl_free(free_element) ==
    IF exists THEN List!dpl_free(free_element) ELSE UNCHANGED vars

dpl_insert_at_index(k, index, insert_copy) ==
    IF exists
    THEN List!dpl_insert_at_index(k, index, insert_copy) /\ LowestFirst
    ELSE UNCHANGED vars

dpl_remove_at_index(index, free_element) ==
    IF head = NULL THEN UNCHANGED vars ELSE List!dpl_remove_at_index(index, free_element)

dpl_size == IF exists THEN List!dpl_size ELSE -1

dpl_get_element_at_index(index) == KeyOf(List!dpl_get_element_at_index(index))

dpl_get_index_of_element(k) == IF head = NULL THEN -1 ELSE List!dpl_get_index_of_element(k)

dpl_get_reference_at_index(index) == List!dpl_get_reference_at_index(index)

dpl_get_element_at_reference(ref) ==
    IF ref = NULL THEN 0 ELSE KeyOf(List!dpl_get_element_at_reference(ref))

-----------------------------------------------------------------------------
(* The test functions.                                                     *)

Answer(call) ==
    CASE call.op = "size"    -> dpl_size
      [] call.op = "at"      -> dpl_get_element_at_index(call.index)
      [] call.op = "ref"     -> dpl_get_element_at_reference(dpl_get_reference_at_index(call.index))
      [] call.op = "indexOf" -> dpl_get_index_of_element(call.key)
      [] call.op = "isList"  -> exists
      [] call.op = "foreign" -> dpl_get_element_at_reference(NULL)

Call(call) ==
    CASE call.op = "create" -> dpl_create
      [] call.op = "insert" -> dpl_insert_at_index(call.key, call.index, call.copy)
      [] call.op = "remove" -> dpl_remove_at_index(call.index, call.free)
      [] call.op = "free"   -> dpl_free(call.free)
      [] call.op = "make"   -> List!CallerMakes(call.key) /\ LowestFirst
      [] call.op = "release" -> \E e \in mine : key[e] = call.key /\ List!CallerFrees(e)
      [] OTHER -> UNCHANGED vars

RunTest ==
    /\ done < Len(script)
    /\ done' = done + 1
    /\ Call(script[done + 1])
    /\ UNCHANGED <<script, cleanup, size>>

StartCleanup ==
    /\ script = randomtest /\ done = Len(script)
    /\ cleanup = "off"
    /\ cleanup' = "on"
    /\ UNCHANGED <<vars, script, done, size>>

(* One round of the loop, which asks for the size before it removes.       *)
dpl_cleanup_rand ==
    /\ cleanup = "on"
    /\ size' = dpl_size
    /\ \E index \in -1..dpl_size : dpl_remove_at_index(index, TRUE)
    /\ cleanup' = IF size' > 0 THEN "on" ELSE "over"
    /\ UNCHANGED <<script, done>>

(* The dpl_free behind it.                                                 *)
FreeEmpty ==
    /\ cleanup = "over" /\ exists
    /\ dpl_free(FALSE)
    /\ UNCHANGED <<script, done, cleanup, size>>

TestStep == RunTest \/ StartCleanup \/ dpl_cleanup_rand \/ FreeEmpty

TestSpec == TestInit /\ [][TestStep]_testVars /\ WF_testVars(TestStep)
-----------------------------------------------------------------------------
TestFinished ==
    /\ done = Len(script)
    /\ script = randomtest => ~exists

(* Every assert of the tests holds when it is reached, the list is right   *)
(* after each call, and a function leaves no node behind, nor does the     *)
(* random removal.                                                         *)
TestsHold ==
    /\ done < Len(script) /\ "expect" \in DOMAIN script[done + 1] =>
          Answer(script[done + 1]) = script[done + 1].expect
    /\ List!TypeOK /\ List!BothWaysContents /\ List!NothingLeaks
    /\ TestFinished => List!nodes = {}
=============================================================================
