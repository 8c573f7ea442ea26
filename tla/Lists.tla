------------------------------- MODULE Lists --------------------------------
(***************************************************************************)
(* What os_list.c promises: a family of sequences, each item in at most    *)
(* one of them.  This is the form in which the other modules use lists.    *)
(***************************************************************************)
EXTENDS Naturals, Sequences, SequencesExt

CONSTANTS Anchor, Item

VARIABLE lists

Init == lists = [h \in Anchor |-> <<>>]

Free(e) == \A h \in Anchor : ~Contains(lists[h], e)

Insert(h, i, e) ==
    /\ Free(e)
    /\ lists' = [lists EXCEPT ![h] = InsertAt(@, i, e)]

TakeOut(e) == lists' = [h \in Anchor |-> RemoveFirst(lists[h], e)]

Next == \E e \in Item :
            \/ TakeOut(e)
            \/ \E h \in Anchor : \E i \in 1..Len(lists[h]) + 1 : Insert(h, i, e)

Spec == Init /\ [][Next]_lists
=============================================================================
