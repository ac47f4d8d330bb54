---------------------------- MODULE ListScripts ----------------------------
(***************************************************************************)
(* The unit tests of the list, lab3m1/milestone1/dplist_test.c and         *)
(* ourtest.c, as the calls that each test function makes and the           *)
(* answers it asserts.  An element is its id; 0 is the element NULL.  The  *)
(* lists of one function do not meet: they come one after the other.       *)
(* Asserts that compare names compare ids here, one name has one id.  What *)
(* a test only copies into a list is not modelled, what it inserts itself  *)
(* is made before and, where the code frees it, released after.            *)
(***************************************************************************)
EXTENDS Integers, Sequences

Create          == [op |-> "create"]
Insert(k, i)    == [op |-> "insert", key |-> k, index |-> i, copy |-> TRUE]
InsertRef(k, i) == [op |-> "insert", key |-> k, index |-> i, copy |-> FALSE]
Delete(i, f)    == [op |-> "remove", index |-> i, free |-> f]
Free(f)         == [op |-> "free", free |-> f]
Make(k)         == [op |-> "make", key |-> k]
Release(k)      == [op |-> "release", key |-> k]

(* Asserts: the size; the element at an index, and that behind the         *)
(* reference at an index; the index of an element; list == NULL or not;    *)
(* and that a reference not of the list, or NULL, leads to nothing.        *)
Size(n)       == [op |-> "size", expect |-> n]
At(i, k)      == [op |-> "at", index |-> i, expect |-> k]
RefAt(i, k)   == [op |-> "ref", index |-> i, expect |-> k]
IndexOf(k, n) == [op |-> "indexOf", key |-> k, expect |-> n]
IsList(b)     == [op |-> "isList", expect |-> b]
ForeignRef    == [op |-> "foreign", expect |-> 0]

FreeNull == <<Free(FALSE), IsList(FALSE), Free(TRUE), IsList(FALSE)>>
Fresh(calls, f) == <<Create>> \o calls \o <<Free(f), IsList(FALSE)>>

Jasper == 1
Axelle == 2
Filip == 3
Jens == 4
Three  == <<Insert(Jasper, 0), Insert(Axelle, 1), Insert(Filip, 2)>>
Four   == Three \o <<Insert(Jens, 3)>>

yourtest1 ==
    FreeNull \o Fresh(<<>>, FALSE) \o Fresh(<<>>, TRUE)
    \o Fresh(<<Make(1), InsertRef(1, 0)>>, FALSE) \o Fresh(<<Make(2), InsertRef(2, 0)>>, TRUE)
    \o Fresh(<<Make(3), Make(4), InsertRef(3, 0), InsertRef(4, 1)>>, FALSE)
    \o Fresh(<<Make(5), Make(6), InsertRef(5, 0), InsertRef(6, 1)>>, TRUE)

test02_create ==
    LET one == <<Create, IsList(TRUE), Free(TRUE)>> IN one \o one \o one

test03_insert_at_index ==
    <<Create, Make(1), InsertRef(1, 0), At(0, 1), Free(TRUE)>>
    \o <<Create, Make(2), InsertRef(2, 0), At(0, 2), Make(3), InsertRef(3, 1), At(1, 3), Free(TRUE)>>
    \o <<Create, Make(4), InsertRef(4, 0), At(0, 4), Make(5), InsertRef(5, 1), At(1, 5)>>
    \o <<Make(6), InsertRef(6, 1), At(1, 6), Free(TRUE)>>

test04_remove_at_index ==
    <<Create, Delete(0, TRUE), Size(0), Delete(0, FALSE), Size(0)>> \o Four
    \o <<Delete(0, TRUE), Size(3), IndexOf(Jasper, -1),
         Delete(1, FALSE), Size(2), IndexOf(Filip, -1), Free(TRUE)>>

test05_size ==
    <<Create, Size(0), Insert(1, 0), Size(1), Insert(2, 1), Insert(3, 2), Size(3),
      Delete(0, TRUE), Delete(0, TRUE), Delete(0, TRUE), Size(0), Free(TRUE)>>

test06_get_reference_at_index ==
    <<Create>> \o Four
    \o <<RefAt(0, Jasper), RefAt(2, Filip), RefAt(-1, Jasper), RefAt(5, Jens), Free(TRUE),
         Create, RefAt(0, 0), Free(TRUE)>>

test07_get_element_at_index ==
    <<Create>> \o Three
    \o <<At(0, Jasper), At(1, Axelle), At(-1, Jasper), At(5, Filip), Free(TRUE),
         Create, At(0, 0), Free(TRUE)>>

(* The list NULL has no element either.                                    *)
test08_get_index_of_element ==
    <<IndexOf(Jasper, -1), Create>> \o Three
    \o <<IndexOf(Axelle, 1), IndexOf(10, -1), Free(TRUE),
         Create, IndexOf(Jasper, -1), Free(TRUE)>>

test09_get_element_at_reference ==
    <<Create>> \o Three
    \o <<RefAt(0, Jasper), RefAt(1, Axelle), RefAt(2, Filip), ForeignRef, Free(TRUE),
         Create, RefAt(0, 0), Free(TRUE)>>

test1 ==
    FreeNull \o Fresh(<<>>, FALSE) \o Fresh(<<>>, TRUE)
    \o <<Make(5)>> \o Fresh(<<InsertRef(5, 0)>>, FALSE) \o Fresh(<<Insert(5, 0)>>, TRUE)
    \o <<Make(6)>> \o Fresh(<<InsertRef(6, 0), InsertRef(5, 99)>>, FALSE)
    \o Fresh(<<Insert(5, 0), Insert(6, 99)>>, TRUE) \o <<Release(5), Release(6)>>

test2 ==
    <<Make(10), InsertRef(10, -1), IsList(FALSE), Insert(10, 99), IsList(FALSE), Release(10)>>

test3 ==
    <<Make(11), Make(12), Make(13)>>
    \o <<Create, InsertRef(11, -1), InsertRef(13, 99), InsertRef(12, 1), Size(3),
         RefAt(-1, 11), RefAt(99, 13), Delete(-2, FALSE), Size(2), Delete(98, FALSE), Size(1),
         Free(FALSE), IsList(FALSE)>>
    \o Fresh(<<Insert(13, 99), Insert(11, -1), Insert(12, 1), Size(3),
               Delete(-2, TRUE), Size(2), Delete(98, TRUE), Size(1)>>, TRUE)
    \o <<Release(11), Release(12), Release(13)>>

(* randomtest.c up to dpl_cleanup_rand.                                    *)
randomtest ==
    <<Create, Insert(1, 0), Insert(3, 1), Insert(7, 5), Insert(5, 2)>>

(* lab3m1/ex1/program.c up to the assert that it does not survive.  The    *)
(* elements 'a', 'b' are 97, 98; and they are passed as indexes as well.   *)
(* That list keeps the characters in its nodes.                            *)
test01_create_ex1 == <<Create, IsList(TRUE), Size(0), Free(TRUE)>>

test02_insert_at_index_ex1 ==
    <<Create, Insert(97, 0), Size(1), Insert(27, -1), Size(2), Insert(98, 4), Size(3), Free(TRUE)>>

test03_remove_at_index_ex1 ==
    <<Create, Delete(97, TRUE), Size(0), Insert(97, 0), Delete(97, TRUE), Size(0)>>

ex1program == test01_create_ex1 \o test02_insert_at_index_ex1 \o test03_remove_at_index_ex1

Scripts ==
    {yourtest1, test02_create, test03_insert_at_index, test04_remove_at_index, test05_size,
     test06_get_reference_at_index, test07_get_element_at_index, test08_get_index_of_element,
     test09_get_element_at_reference, test1, test2, test3}
=============================================================================
