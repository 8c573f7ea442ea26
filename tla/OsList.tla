------------------------------- MODULE OsList -------------------------------
(***************************************************************************)
(* The doubly linked rings of os_list.c.  A list is a head and the nodes   *)
(* linked behind it; a node in no list is linked to itself.  Anchor holds  *)
(* the heads, Item the nodes embedded in tasks and timers.                 *)
(***************************************************************************)
EXTENDS Naturals, Sequences, FiniteSets

CONSTANTS Anchor, Item

ASSUME ListAssumption == Anchor \cap Item = {}

Node == Anchor \cup Item

VARIABLES next, prev
vars == <<next, prev>>

(* os_list_init on every head and node *)
Init == next = [l \in Node |-> l] /\ prev = [l \in Node |-> l]

Single(n) == next[n] = n

InsertAfterLate(l, n) ==                                      \* mutant
    /\ n # l /\ Single(n)
    /\ next' = [next EXCEPT ![n] = next[l], ![l] = n]
    /\ prev' = [prev EXCEPT ![n] = l]

(* os_list_insert_after(l, n): the stores in the order of the code.        *)
InsertAfter(l, n) ==
    /\ n # l /\ Single(n)
    /\ prev' = [prev EXCEPT ![next[l]] = n, ![n] = l]
    /\ next' = [next EXCEPT ![n] = next[l], ![l] = n]

InsertBefore(l, n) ==
    /\ n # l /\ Single(n)
    /\ next' = [next EXCEPT ![prev[l]] = n, ![n] = l]
    /\ prev' = [prev EXCEPT ![n] = prev[l], ![l] = n]

RemoveKeepsLinks(n) ==                                        \* mutant
    /\ next' = [next EXCEPT ![prev[n]] = next[n]]
    /\ prev' = [prev EXCEPT ![next[n]] = prev[n]]

(* os_list_remove: the neighbours first, then the node; on a node that is  *)
(* linked to itself it changes nothing.                                    *)
Remove(n) ==
    /\ next' = [next EXCEPT ![prev[n]] = next[n], ![n] = n]
    /\ prev' = [prev EXCEPT ![next[n]] = prev[n], ![n] = n]

(* The callers insert next to a head or to an item that is in a list.      *)
Next == \E n \in Item :
            \/ Remove(n)
            \/ \E l \in Node : /\ l \in Anchor \/ ~Single(l)
                               /\ InsertAfter(l, n) \/ InsertBefore(l, n)

Spec == Init /\ [][Next]_vars

-----------------------------------------------------------------------------
(* Properties *)

TypeOK == next \in [Node -> Node] /\ prev \in [Node -> Node]

(* The two directions agree at every node: a removal that finds the        *)
(* neighbours of n from n never breaks another list.                       *)
Linked == \A l \in Node : prev[next[l]] = l /\ next[prev[l]] = l

ListInv == TypeOK /\ Linked

(* Following next from a head: the node after i steps.                     *)
Walk(h) == LET at[i \in 0..Cardinality(Node)] ==
                   IF i = 0 THEN h ELSE next[at[i - 1]]
           IN  at

(* The items of the list of h, from its front; a walk that does not come   *)
(* back to h has no such value.                                            *)
Items(h) ==
    LET at == Walk(h)
        len == CHOOSE i \in 0..Cardinality(Item) :
                  /\ at[i + 1] = h
                  /\ \A j \in 1..i : at[j] # h
    IN  [i \in 1..len |-> at[i]]

(* The rings implement sequences.                                          *)
Sequence == INSTANCE Lists WITH
    lists <- [h \in Anchor |-> Items(h)]
ImplementsLists == Sequence!Spec
=============================================================================
