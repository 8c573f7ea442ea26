---------------------------- MODULE OsListProofs ----------------------------
(* Proofs about the rings of OsList, for all sets of heads and items. *)
EXTENDS OsList, SequenceTheorems, FiniteSetTheorems, WellFoundedInduction, TLAPS

(* A fresh node put behind l keeps the rings linked in both directions.    *)
LEMMA InsertAfterKeepsInv ==
    ASSUME ListInv, NEW l \in Node, NEW e \in Node, InsertAfter(l, e)
    PROVE  ListInv'
<1>1. prev[e] = e  BY DEF ListInv, TypeOK, Linked, InsertAfter, Single
<1>2. TypeOK'  BY DEF ListInv, TypeOK, InsertAfter
<1>3. Linked'  BY <1>1 DEF ListInv, TypeOK, Linked, InsertAfter, Single
<1> QED  BY <1>2, <1>3 DEF ListInv

(* So does one put before l.                                               *)
LEMMA InsertBeforeKeepsInv ==
    ASSUME ListInv, NEW l \in Node, NEW e \in Node, InsertBefore(l, e)
    PROVE  ListInv'
<1>1. prev[e] = e  BY DEF ListInv, TypeOK, Linked, InsertBefore, Single
<1>2. TypeOK'  BY DEF ListInv, TypeOK, InsertBefore
<1>3. Linked'  BY <1>1 DEF ListInv, TypeOK, Linked, InsertBefore, Single
<1> QED  BY <1>2, <1>3 DEF ListInv

(* A node that is taken out is linked to itself afterwards.                *)
LEMMA RemoveKeepsInv ==
    ASSUME ListInv, NEW e \in Node, Remove(e)
    PROVE  ListInv' /\ Single(e)'
<1>1. TypeOK'  BY DEF ListInv, TypeOK, Remove
<1>2. Linked'  BY DEF ListInv, TypeOK, Linked, Remove
<1>3. Single(e)'  BY DEF ListInv, TypeOK, Remove, Single
<1> QED  BY <1>1, <1>2, <1>3 DEF ListInv

(* Whatever os_list_insert_after, os_list_insert_before and os_list_remove *)
(* are called on, next and prev stay inverse to each other at every node.  *)
THEOREM ListSafety == Spec => []ListInv
<1>1. Init => ListInv  BY DEF Init, ListInv, TypeOK, Linked
<1>2. ListInv /\ [Next]_vars => ListInv'
  <2> SUFFICES ASSUME ListInv, [Next]_vars PROVE ListInv'
    OBVIOUS
  <2>1. ASSUME NEW e \in Item, Remove(e) PROVE ListInv'
    BY <2>1, RemoveKeepsInv DEF Node
  <2>2. ASSUME NEW e \in Item, NEW l \in Node, InsertAfter(l, e) PROVE ListInv'
    BY <2>2, InsertAfterKeepsInv DEF Node
  <2>3. ASSUME NEW e \in Item, NEW l \in Node, InsertBefore(l, e) PROVE ListInv'
    BY <2>3, InsertBeforeKeepsInv DEF Node
  <2>4. CASE UNCHANGED vars
    BY <2>4 DEF vars, ListInv, TypeOK, Linked
  <2> QED  BY <2>1, <2>2, <2>3, <2>4 DEF Next
<1> QED  BY <1>1, <1>2, PTL DEF Spec

(* next and prev agree: the safety invariant of the runs.                  *)
THEOREM ListLinked == Spec => []Linked
<1>1. ListInv => Linked  BY DEF ListInv
<1> QED  BY <1>1, ListSafety, PTL
-----------------------------------------------------------------------------
(* Sequences                                                               *)

(* An entry put before the i-th one.                                       *)
LEMMA InsertEntry ==
    ASSUME NEW S, NEW s \in Seq(S), NEW e \in S, NEW i \in 1..Len(s) + 1
    PROVE  /\ Sequence!InsertAt(s, i, e) \in Seq(S)
           /\ Len(Sequence!InsertAt(s, i, e)) = Len(s) + 1
           /\ \A j \in 1..Len(s) + 1 :
                 Sequence!InsertAt(s, i, e)[j] =
                     IF j < i THEN s[j] ELSE IF j = i THEN e ELSE s[j - 1]
<1> DEFINE f == SubSeq(s, 1, i - 1)
           m == f \o <<e>>
           b == SubSeq(s, i, Len(s))
           r == Sequence!InsertAt(s, i, e)
<1>1. Len(s) \in Nat /\ DOMAIN s = 1..Len(s)
  OBVIOUS
<1>2. /\ f \in Seq(S) /\ Len(f) = i - 1
      /\ \A j \in 1..i - 1 : f[j] = s[j]
  <2>1. \A j \in 1..i - 1 : s[j] \in S  BY <1>1
  <2>2. 1 \in Int /\ i - 1 \in Int  BY <1>1
  <2>3. /\ f \in Seq(S)
        /\ Len(f) = IF 1 <= i - 1 THEN i - 1 - 1 + 1 ELSE 0
        /\ \A j \in 1..i - 1 - 1 + 1 : f[j] = s[1 + j - 1]
    BY <2>1, <2>2, SubSeqProperties
  <2> HIDE DEF f
  <2> QED  BY <1>1, <2>3
<1>3. /\ m \in Seq(S) /\ Len(m) = i
      /\ \A j \in 1..i : m[j] = IF j < i THEN s[j] ELSE e
  <2> HIDE DEF f
  <2>1. <<e>> \in Seq(S) /\ Len(<<e>>) = 1 /\ <<e>>[1] = e  OBVIOUS
  <2>2. /\ m \in Seq(S) /\ Len(m) = Len(f) + 1
        /\ \A j \in 1..Len(f) + 1 :
              m[j] = IF j <= Len(f) THEN f[j] ELSE <<e>>[j - Len(f)]
    BY <1>2, <2>1, ConcatProperties
  <2> HIDE DEF m
  <2>3. Len(f) + 1 = i  BY <1>1, <1>2
  <2>4. ASSUME NEW j \in 1..i PROVE m[j] = IF j < i THEN s[j] ELSE e
    <3>1. CASE j < i  BY <3>1, <1>1, <1>2, <2>2, <2>3
    <3>2. CASE j = i
      <4>1. j \in 1..Len(f) + 1 /\ ~(j <= Len(f)) /\ j - Len(f) = 1
        BY <3>2, <1>1, <1>2, <2>3
      <4>2. m[j] = <<e>>[j - Len(f)]  BY <2>2, <4>1
      <4> QED  BY <3>2, <4>1, <4>2, <2>1
    <3> QED  BY <1>1, <3>1, <3>2
  <2> QED  BY <2>2, <2>3, <2>4
<1>4. /\ b \in Seq(S) /\ Len(b) = Len(s) + 1 - i
      /\ \A j \in 1..Len(s) + 1 - i : b[j] = s[i + j - 1]
  <2>1. \A j \in i..Len(s) : s[j] \in S  BY <1>1
  <2>2. i \in Int /\ Len(s) \in Int  BY <1>1
  <2>3. /\ b \in Seq(S)
        /\ Len(b) = IF i <= Len(s) THEN Len(s) - i + 1 ELSE 0
        /\ \A j \in 1..Len(s) - i + 1 : b[j] = s[i + j - 1]
    BY <2>1, <2>2, SubSeqProperties
  <2> HIDE DEF b
  <2>4. Len(s) - i + 1 = Len(s) + 1 - i  BY <1>1
  <2>5. Len(b) = Len(s) + 1 - i
    <3>1. CASE i <= Len(s)  BY <3>1, <2>3, <2>4
    <3>2. CASE ~(i <= Len(s))
      <4>1. Len(b) = 0  BY <3>2, <2>3
      <4>2. Len(s) + 1 - i = 0  BY <3>2, <1>1
      <4> QED  BY <4>1, <4>2
    <3> QED  BY <3>1, <3>2
  <2> QED  BY <2>3, <2>4, <2>5
<1>5. r = m \o b
  BY DEF Sequence!InsertAt
<1> HIDE DEF f, m, b, r
<1>6. /\ r \in Seq(S) /\ Len(r) = Len(m) + Len(b)
      /\ \A j \in 1..Len(m) + Len(b) :
            r[j] = IF j <= Len(m) THEN m[j] ELSE b[j - Len(m)]
  BY <1>3, <1>4, <1>5, ConcatProperties
<1>7. Len(m) + Len(b) = Len(s) + 1  BY <1>1, <1>3, <1>4
<1>8. ASSUME NEW j \in 1..Len(s) + 1
      PROVE  r[j] = IF j < i THEN s[j] ELSE IF j = i THEN e ELSE s[j - 1]
  <2>1. CASE j <= i  BY <2>1, <1>1, <1>3, <1>6, <1>7
  <2>2. CASE j > i
    <3>1. r[j] = b[j - i]  BY <2>2, <1>1, <1>3, <1>6, <1>7
    <3>2. j - i \in 1..Len(s) + 1 - i /\ i + (j - i) - 1 = j - 1
      BY <2>2, <1>1
    <3>3. b[j - i] = s[i + (j - i) - 1]  BY <1>4, <3>2
    <3> QED  BY <2>2, <1>1, <3>1, <3>2, <3>3
  <2> QED  BY <1>1, <2>1, <2>2
<1> QED  BY <1>6, <1>7, <1>8 DEF r

(* The i-th entry taken away.                                              *)
LEMMA RemoveEntry ==
    ASSUME NEW S, NEW s \in Seq(S), NEW i \in 1..Len(s)
    PROVE  /\ Sequence!RemoveAt(s, i) \in Seq(S)
           /\ Len(Sequence!RemoveAt(s, i)) = Len(s) - 1
           /\ \A j \in 1..Len(s) - 1 :
                 Sequence!RemoveAt(s, i)[j] = IF j < i THEN s[j] ELSE s[j + 1]
<1> DEFINE f == SubSeq(s, 1, i - 1)
           b == SubSeq(s, i + 1, Len(s))
           r == Sequence!RemoveAt(s, i)
<1>1. Len(s) \in Nat /\ DOMAIN s = 1..Len(s)
  OBVIOUS
<1>2. /\ f \in Seq(S) /\ Len(f) = i - 1
      /\ \A j \in 1..i - 1 : f[j] = s[j]
  <2>1. \A j \in 1..i - 1 : s[j] \in S  BY <1>1
  <2>2. 1 \in Int /\ i - 1 \in Int  BY <1>1
  <2>3. /\ f \in Seq(S)
        /\ Len(f) = IF 1 <= i - 1 THEN i - 1 - 1 + 1 ELSE 0
        /\ \A j \in 1..i - 1 - 1 + 1 : f[j] = s[1 + j - 1]
    BY <2>1, <2>2, SubSeqProperties
  <2> HIDE DEF f
  <2> QED  BY <1>1, <2>3
<1>3. /\ b \in Seq(S) /\ Len(b) = Len(s) - i
      /\ \A j \in 1..Len(s) - i : b[j] = s[i + j]
  <2>1. \A j \in i + 1..Len(s) : s[j] \in S  BY <1>1
  <2>2. i + 1 \in Int /\ Len(s) \in Int  BY <1>1
  <2>3. /\ b \in Seq(S)
        /\ Len(b) = IF i + 1 <= Len(s) THEN Len(s) - (i + 1) + 1 ELSE 0
        /\ \A j \in 1..Len(s) - (i + 1) + 1 : b[j] = s[i + 1 + j - 1]
    BY <2>1, <2>2, SubSeqProperties
  <2> HIDE DEF b
  <2>4. Len(s) - (i + 1) + 1 = Len(s) - i  BY <1>1
  <2>5. ASSUME NEW j \in 1..Len(s) - i PROVE b[j] = s[i + j]
    <3>1. i + 1 + j - 1 = i + j  BY <1>1
    <3> QED  BY <2>3, <2>4, <3>1
  <2>6. Len(b) = Len(s) - i
    <3>1. CASE i < Len(s)
      <4>1. i + 1 <= Len(s)  BY <3>1, <1>1
      <4> QED  BY <4>1, <2>3, <2>4
    <3>2. CASE i = Len(s)
      <4>1. ~(i + 1 <= Len(s)) /\ Len(s) - i = 0  BY <3>2, <1>1
      <4> QED  BY <4>1, <2>3
    <3>3. i \in Nat /\ Len(s) \in Nat /\ i <= Len(s)  BY <1>1
    <3>4. i < Len(s) \/ i = Len(s)  BY <3>3
    <3> QED  BY <3>1, <3>2, <3>4
  <2> QED  BY <2>3, <2>5, <2>6
<1>4. r = f \o b
  BY DEF Sequence!RemoveAt
<1> HIDE DEF f, b, r
<1>5. /\ r \in Seq(S) /\ Len(r) = Len(f) + Len(b)
      /\ \A j \in 1..Len(f) + Len(b) :
            r[j] = IF j <= Len(f) THEN f[j] ELSE b[j - Len(f)]
  BY <1>2, <1>3, <1>4, ConcatProperties
<1>6. Len(f) + Len(b) = Len(s) - 1  BY <1>1, <1>2, <1>3
<1>7. ASSUME NEW j \in 1..Len(s) - 1
      PROVE  r[j] = IF j < i THEN s[j] ELSE s[j + 1]
  <2>1. CASE j < i  BY <2>1, <1>1, <1>2, <1>5, <1>6
  <2>2. CASE j >= i
    <3>1. r[j] = b[j - (i - 1)]  BY <2>2, <1>1, <1>2, <1>5, <1>6
    <3>2. j - (i - 1) \in 1..Len(s) - i /\ i + (j - (i - 1)) = j + 1
      BY <2>2, <1>1
    <3>3. b[j - (i - 1)] = s[i + (j - (i - 1))]  BY <1>3, <3>2
    <3> QED  BY <2>2, <1>1, <3>1, <3>2, <3>3
  <2> QED  BY <1>1, <2>1, <2>2
<1> QED  BY <1>5, <1>6, <1>7 DEF r

(* RemoveFirst takes the only entry that is e, and nothing if there is     *)
(* none.                                                                   *)
LEMMA RemoveFirstIs ==
    ASSUME NEW S, NEW s \in Seq(S), NEW i \in 1..Len(s),
           \A j \in 1..Len(s) : s[j] = s[i] => j = i
    PROVE  Sequence!RemoveFirst(s, s[i]) = Sequence!RemoveAt(s, i)
<1> DEFINE I == {j \in 1..Len(s) : s[j] = s[i]}
<1>1. I = {i}
  OBVIOUS
<1>2. Sequence!RemoveFirst(s, s[i])
        = Sequence!RemoveAt(s, IF I # {} THEN Sequence!Min(I) ELSE 0)
  BY DEF Sequence!RemoveFirst, Sequence!SelectInSeq
<1>3. Sequence!Min({i}) = i
  BY DEF Sequence!Min
<1> HIDE DEF I
<1>4. I # {}  BY <1>1
<1> QED  BY <1>1, <1>2, <1>3, <1>4

LEMMA RemoveFirstNone ==
    ASSUME NEW S, NEW s \in Seq(S), NEW e, \A j \in 1..Len(s) : s[j] # e
    PROVE  Sequence!RemoveFirst(s, e) = s
BY DEF Sequence!RemoveFirst

-----------------------------------------------------------------------------
(* Rings and sequences                                                     *)

(* The i-th node of the ring of h whose items are s; h is before the first *)
(* item and after the last one.                                            *)
At(h, s, i) == IF i \in 1..Len(s) THEN s[i] ELSE h

(* The rings of nx have the items of L, each in its place, and an item     *)
(* that is in none is linked to itself.                                    *)
Rings(nx, L) ==
    /\ nx \in [Node -> Node]
    /\ L \in [Anchor -> Seq(Item)]
    /\ \A h \in Anchor : \A i \in 0..Len(L[h]) :
          nx[At(h, L[h], i)] = At(h, L[h], i + 1)
    /\ \A g, h \in Anchor : \A i \in 1..Len(L[g]) : \A j \in 1..Len(L[h]) :
          L[g][i] = L[h][j] => g = h /\ i = j
    /\ \A e \in Item :
          nx[e] # e => \E h \in Anchor : \E i \in 1..Len(L[h]) : L[h][i] = e

(* What L contains, and where it is in the rings.                          *)
LEMMA RingTypes ==
    ASSUME NEW nx, NEW L, Rings(nx, L), NEW h \in Anchor
    PROVE  /\ L[h] \in Seq(Item) /\ Len(L[h]) \in Nat
           /\ \A i \in 1..Len(L[h]) : L[h][i] \in Item /\ L[h][i] # h
           /\ \A i \in 0..Len(L[h]) + 1 : At(h, L[h], i) \in Node
           /\ \A i \in 1..Len(L[h]) : At(h, L[h], i) = L[h][i]
           /\ At(h, L[h], 0) = h /\ At(h, L[h], Len(L[h]) + 1) = h
<1>1. L[h] \in Seq(Item)  BY DEF Rings
<1>2. \A i \in 1..Len(L[h]) : L[h][i] \in Item /\ L[h][i] # h
  BY <1>1, ListAssumption
<1> QED  BY <1>1, <1>2 DEF At, Node

(* An item is in one place of one list only.                               *)
LEMMA OnePlace ==
    ASSUME NEW nx, NEW L, Rings(nx, L), NEW g \in Anchor, NEW h \in Anchor,
           NEW i \in 1..Len(L[g]), NEW j \in 1..Len(L[h]), L[g][i] = L[h][j]
    PROVE  g = h /\ i = j
BY DEF Rings

(* A place in the rings is the place of one node only.                     *)
LEMMA AtInjective ==
    ASSUME NEW nx, NEW L, Rings(nx, L), NEW g \in Anchor, NEW h \in Anchor,
           NEW i \in 0..Len(L[g]), NEW j \in 0..Len(L[h]),
           At(g, L[g], i) = At(h, L[h], j)
    PROVE  g = h /\ i = j
<1>1. /\ Len(L[g]) \in Nat /\ Len(L[h]) \in Nat
      /\ \A m \in 1..Len(L[g]) : L[g][m] \in Item
      /\ \A m \in 1..Len(L[h]) : L[h][m] \in Item
  BY RingTypes
<1>2. CASE i = 0 /\ j = 0
  BY <1>1, <1>2, RingTypes
<1>3. CASE i = 0 /\ j # 0
  BY <1>1, <1>3, ListAssumption DEF At
<1>4. CASE i # 0 /\ j = 0
  BY <1>1, <1>4, ListAssumption DEF At
<1>5. CASE i # 0 /\ j # 0
  <2>1. i \in 1..Len(L[g]) /\ j \in 1..Len(L[h])  BY <1>1, <1>5
  <2>2. L[g][i] = L[h][j]  BY <2>1 DEF At
  <2> QED  BY <2>1, <2>2 DEF Rings
<1> QED  BY <1>2, <1>3, <1>4, <1>5

(* An item that is linked to itself is in no list.                         *)
LEMMA SingleIsFree ==
    ASSUME NEW nx, NEW L, Rings(nx, L), NEW e \in Item, nx[e] = e,
           NEW h \in Anchor, NEW i \in 1..Len(L[h])
    PROVE  L[h][i] # e
<1> SUFFICES ASSUME L[h][i] = e PROVE FALSE
  OBVIOUS
<1>1. Len(L[h]) \in Nat /\ i \in 0..Len(L[h]) /\ At(h, L[h], i) = e
  BY RingTypes
<1>2. At(h, L[h], i + 1) = e
  BY <1>1 DEF Rings
<1>3. CASE i = Len(L[h])
  BY <1>2, <1>3, RingTypes
<1>4. CASE i # Len(L[h])
  <2>1. i + 1 \in 0..Len(L[h])  BY <1>1, <1>4
  <2>2. i + 1 = i  BY <1>1, <1>2, <2>1, AtInjective
  <2> QED  BY <1>1, <2>2
<1> QED  BY <1>3, <1>4

(* An item put behind the i-th node of a ring is the next item of it.      *)
LEMMA InsertRing ==
    ASSUME NEW nx, NEW L, Rings(nx, L), NEW h \in Anchor,
           NEW i \in 0..Len(L[h]), NEW p, p = At(h, L[h], i),
           NEW e \in Item, nx[e] = e
    PROVE  Rings([nx EXCEPT ![e] = nx[p], ![p] = e],
                 [L EXCEPT ![h] = Sequence!InsertAt(@, i + 1, e)])
<1> DEFINE s == L[h]
           n == Len(s)
           t == Sequence!InsertAt(s, i + 1, e)
           my == [nx EXCEPT ![e] = nx[p], ![p] = e]
           M == [L EXCEPT ![h] = t]
<1>1. /\ nx \in [Node -> Node] /\ L \in [Anchor -> Seq(Item)]
      /\ s \in Seq(Item) /\ n \in Nat /\ i \in Nat /\ i <= n
  BY RingTypes DEF Rings
<1>2. i + 1 \in 1..n + 1  BY <1>1
<1>3. /\ t \in Seq(Item) /\ Len(t) = n + 1
      /\ \A j \in 1..n + 1 : t[j] = IF j < i + 1 THEN s[j]
                                    ELSE IF j = i + 1 THEN e ELSE s[j - 1]
  <2>1. s \in Seq(Item) /\ e \in Item /\ i + 1 \in 1..Len(s) + 1
    BY <1>1, <1>2
  <2>2. PICK i1 \in 1..Len(s) + 1 : i1 = i + 1
    BY <2>1
  <2>3. PICK q \in Seq(Item) : q = s
    BY <2>1
  <2>4. i1 \in 1..Len(q) + 1
    BY <2>2, <2>3
  <2>5. /\ Sequence!InsertAt(q, i1, e) \in Seq(Item)
        /\ Len(Sequence!InsertAt(q, i1, e)) = Len(q) + 1
        /\ \A j \in 1..Len(q) + 1 : Sequence!InsertAt(q, i1, e)[j] =
                                   IF j < i1 THEN q[j]
                                   ELSE IF j = i1 THEN e ELSE q[j - 1]
    BY <2>1, <2>4, InsertEntry
  <2> QED  BY <2>2, <2>3, <2>5
<1> HIDE DEF t
<1>4. /\ M \in [Anchor -> Seq(Item)] /\ M[h] = t
      /\ \A g \in Anchor : g # h => M[g] = L[g]
  BY <1>1, <1>3
<1>5. p \in Node /\ e \in Node /\ nx[p] \in Node
  BY <1>1, RingTypes DEF Node
<1>6. p # e
  <2>1. CASE i = 0
    BY <2>1, RingTypes, ListAssumption
  <2>2. CASE i # 0
    <3>1. i \in 1..n  BY <1>1, <2>2
    <3> QED  BY <3>1, SingleIsFree, RingTypes
  <2> QED  BY <2>1, <2>2
<1>7. /\ my \in [Node -> Node] /\ my[e] = nx[p] /\ my[p] = e
      /\ \A x \in Node : x # e /\ x # p => my[x] = nx[x]
  BY <1>1, <1>5, <1>6
<1>8. \A g \in Anchor : \A j \in 0..Len(L[g]) : At(g, L[g], j) # e
  <2> SUFFICES ASSUME NEW g \in Anchor, NEW j \in 0..Len(L[g])
               PROVE  At(g, L[g], j) # e
    OBVIOUS
  <2>1. CASE j = 0
    BY <2>1, RingTypes, ListAssumption
  <2>2. CASE j # 0
    <3>1. Len(L[g]) \in Nat  BY RingTypes
    <3>2. j \in 1..Len(L[g])  BY <2>2, <3>1
    <3> QED  BY <3>2, SingleIsFree, RingTypes
  <2> QED  BY <2>1, <2>2
<1>9. nx[p] = At(h, s, i + 1)
  BY DEF Rings
<1> HIDE DEF my, M
<1>10. ASSUME NEW g \in Anchor, g # h, NEW j \in 0..Len(M[g])
       PROVE  my[At(g, M[g], j)] = At(g, M[g], j + 1)
  <2>1. M[g] = L[g] /\ j \in 0..Len(L[g])  BY <1>4, <1>10
  <2>2. At(g, L[g], j) \in Node
    <3>1. Len(L[g]) \in Nat  BY RingTypes
    <3>2. j \in 0..Len(L[g]) + 1  BY <2>1, <3>1
    <3> QED  BY <3>2, RingTypes
  <2>3. At(g, L[g], j) # e  BY <1>8, <2>1
  <2>4. At(g, L[g], j) # p  BY <1>10, <2>1, AtInjective
  <2>5. nx[At(g, L[g], j)] = At(g, L[g], j + 1)  BY <2>1 DEF Rings
  <2> QED  BY <1>7, <2>1, <2>2, <2>3, <2>4, <2>5
<1>11. ASSUME NEW j \in 0..Len(M[h])
       PROVE  my[At(h, M[h], j)] = At(h, M[h], j + 1)
  <2>1. M[h] = t /\ j \in 0..n + 1  BY <1>3, <1>4
  <2>2. /\ \A m \in 0..i : At(h, t, m) = At(h, s, m)
        /\ At(h, t, i + 1) = e
        /\ \A m \in i + 2..n + 2 : At(h, t, m) = At(h, s, m - 1)
    <3>1. ASSUME NEW m \in 0..i PROVE At(h, t, m) = At(h, s, m)
      BY <1>1, <1>3 DEF At
    <3>2. At(h, t, i + 1) = e
      BY <1>1, <1>2, <1>3 DEF At
    <3>3. ASSUME NEW m \in i + 2..n + 2 PROVE At(h, t, m) = At(h, s, m - 1)
      <4>1. m \in Nat /\ m - 1 \in Nat /\ m > i + 1  BY <1>1
      <4>2. CASE m = n + 2
        BY <1>1, <1>3, <4>1, <4>2 DEF At
      <4>3. CASE m # n + 2
        <5>1. m \in 1..n + 1 /\ m - 1 \in 1..n  BY <1>1, <4>1, <4>3
        <5>2. t[m] = s[m - 1]  BY <1>1, <1>3, <4>1, <5>1
        <5> QED  BY <1>3, <5>1, <5>2 DEF At
      <4> QED  BY <4>2, <4>3
    <3> QED  BY <3>1, <3>2, <3>3
  <2>3. CASE j < i
    <3>1. j \in 0..i /\ j + 1 \in 0..i /\ j \in 0..n /\ j \in 0..n + 1
      BY <1>1, <2>1, <2>3
    <3>2. At(h, s, j) \in Node  BY <3>1, RingTypes
    <3>3. At(h, s, j) # e  BY <1>8, <3>1
    <3>4. At(h, s, j) # p
      <4>1. At(h, s, j) = At(h, s, i) => j = i  BY <3>1, AtInjective
      <4> QED  BY <1>1, <2>3, <3>1, <4>1
    <3>5. nx[At(h, s, j)] = At(h, s, j + 1)  BY <3>1 DEF Rings
    <3> QED  BY <1>7, <2>1, <2>2, <3>1, <3>2, <3>3, <3>4, <3>5
  <2>4. CASE j = i
    <3>1. At(h, t, i) = p  BY <1>1, <2>2
    <3> QED  BY <1>7, <2>1, <2>2, <2>4, <3>1
  <2>5. CASE j = i + 1
    <3>1. i + 2 \in i + 2..n + 2 /\ i + 2 - 1 = i + 1 /\ j + 1 = i + 2
      BY <1>1, <2>5
    <3>2. At(h, t, j + 1) = At(h, s, i + 1)  BY <2>2, <3>1
    <3> QED  BY <1>7, <1>9, <2>1, <2>2, <2>5, <3>2
  <2>6. CASE j > i + 1
    <3>1. /\ j \in i + 2..n + 2 /\ j + 1 \in i + 2..n + 2 /\ j + 1 - 1 = j
          /\ j - 1 \in 0..n /\ j - 1 \in 0..n + 1 /\ j - 1 + 1 = j
      BY <1>1, <2>1, <2>6
    <3>2. At(h, s, j - 1) \in Node  BY <3>1, RingTypes
    <3>3. At(h, s, j - 1) # e  BY <1>8, <3>1
    <3>4. At(h, s, j - 1) # p
      <4>1. At(h, s, j - 1) = At(h, s, i) => j - 1 = i  BY <3>1, AtInjective
      <4> QED  BY <1>1, <2>1, <2>6, <4>1
    <3>5. nx[At(h, s, j - 1)] = At(h, s, j)
      <4>1. nx[At(h, s, j - 1)] = At(h, s, j - 1 + 1)  BY <3>1 DEF Rings
      <4> QED  BY <3>1, <4>1
    <3>6. At(h, t, j) = At(h, s, j - 1) /\ At(h, t, j + 1) = At(h, s, j)
      <4>1. At(h, t, j + 1) = At(h, s, j + 1 - 1)  BY <2>2, <3>1
      <4> QED  BY <2>2, <3>1, <4>1
    <3> QED  BY <1>7, <2>1, <3>2, <3>3, <3>4, <3>5, <3>6
  <2> QED  BY <1>1, <2>1, <2>3, <2>4, <2>5, <2>6
<1> DEFINE from(j) == IF j < i + 1 THEN j ELSE j - 1
<1>12. /\ \A j \in (1..n + 1) \ {i + 1} : from(j) \in 1..n /\ t[j] = s[from(j)]
       /\ \A j, m \in (1..n + 1) \ {i + 1} : from(j) = from(m) => j = m
       /\ \A m \in 1..n : \E j \in (1..n + 1) \ {i + 1} : from(j) = m
  <2>1. ASSUME NEW j \in (1..n + 1) \ {i + 1}
        PROVE  from(j) \in 1..n /\ t[j] = s[from(j)]
    BY <1>1, <1>3
  <2>2. \A j, m \in (1..n + 1) \ {i + 1} : from(j) = from(m) => j = m
    BY <1>1
  <2>3. ASSUME NEW m \in 1..n
        PROVE  \E j \in (1..n + 1) \ {i + 1} : from(j) = m
    <3>1. CASE m < i + 1  BY <3>1, <1>1
    <3>2. CASE m >= i + 1
      <4>1. m + 1 \in (1..n + 1) \ {i + 1} /\ from(m + 1) = m  BY <3>2, <1>1
      <4> QED  BY <4>1
    <3> QED  BY <1>1, <3>1, <3>2
  <2> QED  BY <2>1, <2>2, <2>3
<1>13. t[i + 1] = e  BY <1>1, <1>2, <1>3
<1> HIDE DEF from
<1>14. ASSUME NEW f \in Anchor, NEW g \in Anchor, NEW j \in 1..Len(M[f]),
              NEW m \in 1..Len(M[g]), M[f][j] = M[g][m]
       PROVE  f = g /\ j = m
  <2>1. \A a \in Anchor : \A c \in 1..Len(L[a]) : L[a][c] # e
    BY SingleIsFree
  <2>2. CASE f # h /\ g # h
    <3>1. M[f] = L[f] /\ M[g] = L[g]  BY <1>4, <2>2
    <3>2. j \in 1..Len(L[f]) /\ m \in 1..Len(L[g]) /\ L[f][j] = L[g][m]
      BY <1>14, <3>1
    <3> QED  BY <3>2, OnePlace
  <2>3. CASE f = h /\ g # h
    <3>1. j \in 1..n + 1 /\ t[j] = L[g][m] /\ m \in 1..Len(L[g])
      BY <1>3, <1>4, <1>14, <2>3
    <3>2. j # i + 1  BY <1>13, <2>1, <3>1
    <3>3. L[h][from(j)] = L[g][m] /\ from(j) \in 1..Len(L[h])
      BY <1>12, <3>1, <3>2
    <3> QED  BY <2>3, <3>1, <3>3, OnePlace
  <2>4. CASE f # h /\ g = h
    <3>1. m \in 1..n + 1 /\ t[m] = L[f][j] /\ j \in 1..Len(L[f])
      BY <1>3, <1>4, <1>14, <2>4
    <3>2. m # i + 1  BY <1>13, <2>1, <3>1
    <3>3. L[h][from(m)] = L[f][j] /\ from(m) \in 1..Len(L[h])
      BY <1>12, <3>1, <3>2
    <3> QED  BY <2>4, <3>1, <3>3, OnePlace
  <2>5. CASE f = h /\ g = h
    <3>1. j \in 1..n + 1 /\ m \in 1..n + 1 /\ t[j] = t[m]
      BY <1>3, <1>4, <1>14, <2>5
    <3>2. CASE j = i + 1 \/ m = i + 1
      <4>1. \A c \in (1..n + 1) \ {i + 1} : t[c] # e
        BY <1>12, <2>1
      <4> QED  BY <1>13, <2>5, <3>1, <3>2, <4>1
    <3>3. CASE j # i + 1 /\ m # i + 1
      <4>1. /\ L[h][from(j)] = L[h][from(m)]
            /\ from(j) \in 1..Len(L[h]) /\ from(m) \in 1..Len(L[h])
        BY <1>12, <3>1, <3>3
      <4>2. from(j) = from(m)  BY <4>1, OnePlace
      <4> QED  BY <1>12, <2>5, <3>1, <3>3, <4>2
    <3> QED  BY <3>2, <3>3
  <2> QED  BY <2>2, <2>3, <2>4, <2>5
<1>15. ASSUME NEW x \in Item, my[x] # x
       PROVE  \E g \in Anchor : \E j \in 1..Len(M[g]) : M[g][j] = x
  <2>1. CASE x = e
    BY <1>2, <1>3, <1>4, <1>13, <2>1
  <2>2. CASE x # e
    <3>1. \E g \in Anchor : \E j \in 1..Len(L[g]) : L[g][j] = x
      <4>1. CASE x = p
        <5>1. i # 0  BY <4>1, RingTypes, ListAssumption
        <5>2. i \in 1..n /\ L[h][i] = x
          BY <1>1, <4>1, <5>1, RingTypes
        <5> QED  BY <5>2
      <4>2. CASE x # p
        <5>1. nx[x] # x  BY <1>7, <1>15, <2>2, <4>2 DEF Node
        <5> QED  BY <5>1 DEF Rings
      <4> QED  BY <4>1, <4>2
    <3>2. PICK g \in Anchor : \E j \in 1..Len(L[g]) : L[g][j] = x
      BY <3>1
    <3>3. CASE g = h
      <4>1. PICK m \in 1..n : s[m] = x  BY <3>2, <3>3
      <4>2. PICK j \in (1..n + 1) \ {i + 1} : from(j) = m  BY <1>12
      <4>3. t[j] = x /\ j \in 1..Len(t)  BY <1>3, <1>12, <4>1, <4>2
      <4> QED  BY <1>4, <4>3
    <3>4. CASE g # h
      BY <1>4, <3>2, <3>4
    <3> QED  BY <3>3, <3>4
  <2> QED  BY <2>1, <2>2
<1>16. \A g \in Anchor : \A j \in 0..Len(M[g]) :
          my[At(g, M[g], j)] = At(g, M[g], j + 1)
  BY <1>10, <1>11
<1>17. Rings(my, M)
  BY <1>4, <1>7, <1>14, <1>15, <1>16 DEF Rings
<1> QED  BY <1>17 DEF my, M, t

(* The i-th item taken out of a ring.                                      *)
LEMMA RemoveRing ==
    ASSUME NEW nx, NEW L, Rings(nx, L), NEW h \in Anchor,
           NEW i \in 1..Len(L[h]), NEW p, p = At(h, L[h], i - 1),
           NEW e, e = L[h][i]
    PROVE  Rings([nx EXCEPT ![p] = nx[e], ![e] = e],
                 [L EXCEPT ![h] = Sequence!RemoveAt(@, i)])
<1> DEFINE s == L[h]
           n == Len(s)
           t == Sequence!RemoveAt(s, i)
           my == [nx EXCEPT ![p] = nx[e], ![e] = e]
           M == [L EXCEPT ![h] = t]
<1>1. /\ nx \in [Node -> Node] /\ L \in [Anchor -> Seq(Item)]
      /\ s \in Seq(Item) /\ n \in Nat /\ i \in Nat /\ 1 <= i /\ i <= n
      /\ i \in 0..n /\ i - 1 \in 0..n /\ n - 1 \in Nat
  BY RingTypes DEF Rings
<1>2. /\ t \in Seq(Item) /\ Len(t) = n - 1
      /\ \A j \in 1..n - 1 : t[j] = IF j < i THEN s[j] ELSE s[j + 1]
  <2>1. PICK q \in Seq(Item) : q = s
    BY <1>1
  <2>2. i \in 1..Len(q)
    BY <2>1
  <2>3. /\ Sequence!RemoveAt(q, i) \in Seq(Item)
        /\ Len(Sequence!RemoveAt(q, i)) = Len(q) - 1
        /\ \A j \in 1..Len(q) - 1 : Sequence!RemoveAt(q, i)[j] =
                                       IF j < i THEN q[j] ELSE q[j + 1]
    BY <2>2, RemoveEntry
  <2> QED  BY <2>1, <2>3
<1> HIDE DEF t
<1>3. /\ M \in [Anchor -> Seq(Item)] /\ M[h] = t
      /\ \A g \in Anchor : g # h => M[g] = L[g]
  BY <1>1, <1>2
<1>4. At(h, s, i) = e /\ e \in Item
  BY <1>1, RingTypes
<1>5. nx[e] = At(h, s, i + 1)
  BY <1>1, <1>4 DEF Rings
<1>6. /\ p \in Node /\ e \in Node /\ nx[e] \in Node
  <2>1. i - 1 \in 0..n + 1  BY <1>1
  <2>2. p \in Node  BY <2>1, RingTypes
  <2> QED  BY <1>1, <1>4, <2>2 DEF Node
<1>7. p # e
  <2>1. p = e => i - 1 = i  BY <1>1, <1>4, AtInjective
  <2> QED  BY <1>1, <2>1
<1>8. /\ my \in [Node -> Node] /\ my[p] = nx[e] /\ my[e] = e
      /\ \A x \in Node : x # e /\ x # p => my[x] = nx[x]
  BY <1>1, <1>6, <1>7
<1> HIDE DEF my, M
<1>9. ASSUME NEW g \in Anchor, NEW j \in 0..Len(L[g]), g # h \/ j \notin {i - 1, i}
      PROVE  my[At(g, L[g], j)] = At(g, L[g], j + 1)
  <2>1. At(g, L[g], j) \in Node
    <3>1. Len(L[g]) \in Nat  BY RingTypes
    <3>2. j \in 0..Len(L[g]) + 1  BY <3>1
    <3> QED  BY <3>2, RingTypes
  <2>2. At(g, L[g], j) # e
    <3>1. At(g, L[g], j) = At(h, L[h], i) => g = h /\ j = i
      BY <1>1, AtInjective
    <3> QED  BY <1>4, <1>9, <3>1
  <2>3. At(g, L[g], j) # p
    <3>1. At(g, L[g], j) = At(h, L[h], i - 1) => g = h /\ j = i - 1
      BY <1>1, AtInjective
    <3> QED  BY <1>9, <3>1
  <2>4. nx[At(g, L[g], j)] = At(g, L[g], j + 1)  BY DEF Rings
  <2> QED  BY <1>8, <2>1, <2>2, <2>3, <2>4
<1>10. ASSUME NEW g \in Anchor, g # h, NEW j \in 0..Len(M[g])
       PROVE  my[At(g, M[g], j)] = At(g, M[g], j + 1)
  BY <1>3, <1>9, <1>10
<1>11. ASSUME NEW j \in 0..Len(M[h])
       PROVE  my[At(h, M[h], j)] = At(h, M[h], j + 1)
  <2>1. M[h] = t /\ j \in 0..n - 1  BY <1>2, <1>3
  <2>2. /\ \A m \in 0..i - 1 : At(h, t, m) = At(h, s, m)
        /\ \A m \in i..n : At(h, t, m) = At(h, s, m + 1)
    <3>1. ASSUME NEW m \in 0..i - 1 PROVE At(h, t, m) = At(h, s, m)
      <4>1. m \in 1..n - 1 <=> m # 0  BY <1>1
      <4>2. m \in 1..n <=> m # 0  BY <1>1
      <4>3. m # 0 => t[m] = s[m]  BY <1>1, <1>2, <4>1
      <4> QED  BY <1>2, <4>1, <4>2, <4>3 DEF At
    <3>2. ASSUME NEW m \in i..n PROVE At(h, t, m) = At(h, s, m + 1)
      <4>1. CASE m = n
        <5>1. m \notin 1..Len(t) /\ m + 1 \notin 1..Len(s)  BY <1>1, <1>2, <4>1
        <5> QED  BY <5>1 DEF At
      <4>2. CASE m # n
        <5>1. m \in 1..n - 1 /\ m + 1 \in 1..n /\ ~(m < i)  BY <1>1, <4>2
        <5>2. t[m] = s[m + 1]  BY <1>2, <5>1
        <5> QED  BY <1>2, <5>1, <5>2 DEF At
      <4> QED  BY <4>1, <4>2
    <3> QED  BY <3>1, <3>2
  <2>3. CASE j < i - 1
    <3>1. /\ j \in 0..i - 1 /\ j + 1 \in 0..i - 1 /\ j \in 0..n
          /\ j \notin {i - 1, i}
      BY <1>1, <2>1, <2>3
    <3>2. my[At(h, s, j)] = At(h, s, j + 1)  BY <1>9, <3>1
    <3> QED  BY <2>1, <2>2, <3>1, <3>2
  <2>4. CASE j = i - 1
    <3>1. i - 1 \in 0..i - 1 /\ i \in i..n /\ j + 1 = i  BY <1>1, <2>4
    <3>2. At(h, t, j) = p  BY <2>2, <2>4, <3>1
    <3>3. At(h, t, j + 1) = At(h, s, i + 1)  BY <2>2, <3>1
    <3> QED  BY <1>5, <1>8, <2>1, <3>2, <3>3
  <2>5. CASE j >= i
    <3>1. /\ j \in i..n /\ j + 1 \in i..n /\ j + 1 \in 0..n
          /\ j + 1 \notin {i - 1, i}
      BY <1>1, <2>1, <2>5
    <3>2. my[At(h, s, j + 1)] = At(h, s, j + 1 + 1)  BY <1>9, <3>1
    <3> QED  BY <2>1, <2>2, <3>1, <3>2
  <2> QED  BY <1>1, <2>1, <2>3, <2>4, <2>5
<1> DEFINE from(j) == IF j < i THEN j ELSE j + 1
<1>12. /\ \A j \in 1..n - 1 : from(j) \in 1..n /\ t[j] = s[from(j)]
       /\ \A j, m \in 1..n - 1 : from(j) = from(m) => j = m
       /\ \A m \in (1..n) \ {i} : \E j \in 1..n - 1 : from(j) = m
  <2>1. ASSUME NEW j \in 1..n - 1
        PROVE  from(j) \in 1..n /\ t[j] = s[from(j)]
    BY <1>1, <1>2
  <2>2. \A j, m \in 1..n - 1 : from(j) = from(m) => j = m
    BY <1>1
  <2>3. ASSUME NEW m \in (1..n) \ {i}
        PROVE  \E j \in 1..n - 1 : from(j) = m
    <3>1. CASE m < i
      <4>1. m \in 1..n - 1 /\ from(m) = m  BY <3>1, <1>1
      <4> QED  BY <4>1
    <3>2. CASE m > i
      <4>1. m - 1 \in 1..n - 1 /\ from(m - 1) = m  BY <3>2, <1>1
      <4> QED  BY <4>1
    <3> QED  BY <1>1, <3>1, <3>2
  <2> QED  BY <2>1, <2>2, <2>3
<1> HIDE DEF from
<1>13. ASSUME NEW f \in Anchor, NEW g \in Anchor, NEW j \in 1..Len(M[f]),
              NEW m \in 1..Len(M[g]), M[f][j] = M[g][m]
       PROVE  f = g /\ j = m
  <2>1. CASE f # h /\ g # h
    <3>1. M[f] = L[f] /\ M[g] = L[g]  BY <1>3, <2>1
    <3>2. j \in 1..Len(L[f]) /\ m \in 1..Len(L[g]) /\ L[f][j] = L[g][m]
      BY <1>13, <3>1
    <3> QED  BY <3>2, OnePlace
  <2>2. CASE f = h /\ g # h
    <3>1. j \in 1..n - 1 /\ t[j] = L[g][m] /\ m \in 1..Len(L[g])
      BY <1>2, <1>3, <1>13, <2>2
    <3>2. L[h][from(j)] = L[g][m] /\ from(j) \in 1..Len(L[h])
      BY <1>12, <3>1
    <3> QED  BY <2>2, <3>1, <3>2, OnePlace
  <2>3. CASE f # h /\ g = h
    <3>1. m \in 1..n - 1 /\ t[m] = L[f][j] /\ j \in 1..Len(L[f])
      BY <1>2, <1>3, <1>13, <2>3
    <3>2. L[h][from(m)] = L[f][j] /\ from(m) \in 1..Len(L[h])
      BY <1>12, <3>1
    <3> QED  BY <2>3, <3>1, <3>2, OnePlace
  <2>4. CASE f = h /\ g = h
    <3>1. j \in 1..n - 1 /\ m \in 1..n - 1 /\ t[j] = t[m]
      BY <1>2, <1>3, <1>13, <2>4
    <3>2. /\ L[h][from(j)] = L[h][from(m)]
          /\ from(j) \in 1..Len(L[h]) /\ from(m) \in 1..Len(L[h])
      BY <1>12, <3>1
    <3>3. from(j) = from(m)  BY <3>2, OnePlace
    <3> QED  BY <1>12, <2>4, <3>1, <3>3
  <2> QED  BY <2>1, <2>2, <2>3, <2>4
<1>14. ASSUME NEW x \in Item, my[x] # x
       PROVE  \E g \in Anchor : \E j \in 1..Len(M[g]) : M[g][j] = x
  <2>1. x # e  BY <1>8, <1>14
  <2>2. \E g \in Anchor : \E j \in 1..Len(L[g]) : L[g][j] = x
    <3>1. CASE x = p
      <4>1. i - 1 # 0  BY <3>1, RingTypes, ListAssumption
      <4>2. i - 1 \in 1..n  BY <1>1, <4>1
      <4>3. L[h][i - 1] = x  BY <3>1, <4>2, RingTypes
      <4> QED  BY <4>2, <4>3
    <3>2. CASE x # p
      <4>1. nx[x] # x  BY <1>8, <1>14, <2>1, <3>2 DEF Node
      <4> QED  BY <4>1 DEF Rings
    <3> QED  BY <3>1, <3>2
  <2>3. PICK g \in Anchor : \E j \in 1..Len(L[g]) : L[g][j] = x
    BY <2>2
  <2>4. CASE g = h
    <3>1. PICK m \in 1..n : s[m] = x  BY <2>3, <2>4
    <3>2. m # i  BY <2>1, <3>1
    <3>3. PICK j \in 1..n - 1 : from(j) = m  BY <1>12, <3>2
    <3>4. t[j] = x /\ j \in 1..Len(t)  BY <1>2, <1>12, <3>1, <3>3
    <3> QED  BY <1>3, <3>4
  <2>5. CASE g # h
    BY <1>3, <2>3, <2>5
  <2> QED  BY <2>4, <2>5
<1>15. \A g \in Anchor : \A j \in 0..Len(M[g]) :
          my[At(g, M[g], j)] = At(g, M[g], j + 1)
  BY <1>10, <1>11
<1>16. Rings(my, M)
  BY <1>3, <1>8, <1>13, <1>14, <1>15 DEF Rings
<1> QED  BY <1>16 DEF my, M, t

-----------------------------------------------------------------------------
(* What a walk along a ring finds                                          *)

LEMMA LeastNatural ==
    ASSUME NEW T, T \subseteq Nat, T # {}
    PROVE  \E x \in T : \A y \in T : x <= y
<1> DEFINE R == {ss \in Nat \X Nat : ss[1] < ss[2]}
<1>1. IsWellFoundedOn(R, Nat)
  BY NatLessThanWellFounded DEF OpToRel
<1>2. PICK x \in T : \A y \in T : ~ (<<y, x>> \in R)
  BY <1>1, WFMin, Zenon
<1>3. \A y \in T : ~ (y < x)
  BY <1>2
<1> QED  BY <1>2, <1>3

(* f[i] is the node after i steps from h, for i up to m.                   *)
Walks(f, nx, h, m) ==
    f = [i \in 0..m |-> IF i = 0 THEN h ELSE nx[f[i - 1]]]

(* There is a walk of every length.                                        *)
LEMMA WalkExists ==
    ASSUME NEW nx, NEW h, NEW m \in Nat
    PROVE  \E f : Walks(f, nx, h, m)
<1> DEFINE T == {l \in Nat : ~ \E f : Walks(f, nx, h, l)}
<1>1. SUFFICES ASSUME T # {} PROVE FALSE
  OBVIOUS
<1>2. PICK l \in T : \A j \in T : l <= j
  <2>1. T \subseteq Nat  OBVIOUS
  <2> HIDE DEF T
  <2> QED  BY <1>1, <2>1, LeastNatural
<1>3. CASE l = 0
  <2> DEFINE f == [i \in 0..0 |-> h]
  <2>1. Walks(f, nx, h, 0)
    <3>1. \A i \in 0..0 : (IF i = 0 THEN h ELSE nx[f[i - 1]]) = h  OBVIOUS
    <3> QED  BY <3>1 DEF Walks
  <2> HIDE DEF f
  <2>2. l \notin T  BY <1>3, <2>1
  <2> QED  BY <2>2
<1>4. CASE l # 0
  <2>1. l - 1 \in Nat /\ ~(l <= l - 1) /\ l \in Nat  BY <1>4
  <2>2. PICK g : Walks(g, nx, h, l - 1)
    <3>1. l - 1 \notin T  BY <1>2, <2>1
    <3> QED  BY <2>1, <3>1
  <2>3. \A i \in 0..l - 1 : g[i] = IF i = 0 THEN h ELSE nx[g[i - 1]]
    BY <2>2 DEF Walks
  <2> DEFINE f == [i \in 0..l |-> IF i = l THEN nx[g[l - 1]] ELSE g[i]]
  <2>4. ASSUME NEW i \in 0..l
        PROVE  f[i] = IF i = 0 THEN h ELSE nx[f[i - 1]]
    <3>1. CASE i = l
      <4>1. f[i - 1] = g[l - 1]  BY <2>1, <3>1
      <4> QED  BY <1>4, <3>1, <4>1
    <3>2. CASE i # l
      <4>1. i \in 0..l - 1  BY <2>1, <3>2
      <4>2. f[i] = g[i]  BY <3>2
      <4>3. i # 0 => f[i - 1] = g[i - 1]
        <5>1. i # 0 => i - 1 \in 0..l /\ i - 1 # l  BY <2>1, <3>2
        <5> QED  BY <5>1
      <4> QED  BY <2>3, <4>1, <4>2, <4>3
    <3> QED  BY <3>1, <3>2
  <2>5. f = [i \in 0..l |-> f[i]]  OBVIOUS
  <2> HIDE DEF f
  <2>6. Walks(f, nx, h, l)  BY <2>4, <2>5 DEF Walks
  <2>7. l \notin T  BY <2>6
  <2> QED  BY <2>7
<1> QED  BY <1>3, <1>4

(* Items, for any rings. *)
WalkOf(nx, h) == CHOOSE f : Walks(f, nx, h, Cardinality(Node))
LengthOf(at, h) == CHOOSE i \in 0..Cardinality(Item) :
                      /\ at[i + 1] = h
                      /\ \A j \in 1..i : at[j] # h
ItemsOf(nx, h) == [i \in 1..LengthOf(WalkOf(nx, h), h) |-> WalkOf(nx, h)[i]]

LEMMA ItemsIs ==
    ASSUME NEW h \in Anchor
    PROVE  Items(h) = ItemsOf(next, h) /\ Items(h)' = ItemsOf(next', h)
<1>1. Walk(h) = WalkOf(next, h)  BY DEF Walk, WalkOf, Walks
<1>2. Walk(h)' = WalkOf(next', h)  BY DEF Walk, WalkOf, Walks
<1>3. Items(h) = ItemsOf(next, h)  BY <1>1 DEF Items, ItemsOf, LengthOf
<1>4. Items(h)' = ItemsOf(next', h)  BY <1>2 DEF Items, ItemsOf, LengthOf
<1> QED  BY <1>3, <1>4

(* No list is longer than there are items.                                 *)
LEMMA RingFits ==
    ASSUME NEW nx, NEW L, Rings(nx, L), NEW h \in Anchor, IsFiniteSet(Node)
    PROVE  /\ Cardinality(Item) \in Nat /\ Cardinality(Node) \in Nat
           /\ Len(L[h]) <= Cardinality(Item)
           /\ Cardinality(Item) + 1 <= Cardinality(Node)
<1> DEFINE s == L[h]
           n == Len(s)
           S == {s[i] : i \in 1..n}
<1>1. /\ s \in Seq(Item) /\ n \in Nat /\ s \in [1..n -> Item]
      /\ \A i, j \in 1..n : s[i] = s[j] => i = j
  <2>1. s \in Seq(Item) /\ n \in Nat  BY RingTypes
  <2>2. \A i, j \in 1..n : s[i] = s[j] => i = j  BY DEF Rings
  <2> QED  BY <2>1, <2>2
<1>2. Item \subseteq Node  BY DEF Node
<1>3. IsFiniteSet(Item)  BY <1>2, FS_Subset
<1>4. Cardinality(Item) \in Nat /\ Cardinality(Node) \in Nat
  BY <1>3, FS_CardinalityType
<1>5. Cardinality(S) = n
  <2>1. s \in Bijection(1..n, S)
    BY <1>1 DEF Bijection, Injection, Surjection, IsInjective
  <2>2. ExistsBijection(1..n, S)  BY <2>1 DEF ExistsBijection
  <2> HIDE DEF n, S
  <2> QED  BY <1>1, <2>2, FS_CountingElements
<1>6. n <= Cardinality(Item)
  <2>1. S \subseteq Item  BY <1>1
  <2> HIDE DEF S
  <2>2. Cardinality(S) <= Cardinality(Item)  BY <1>3, <2>1, FS_Subset
  <2> QED  BY <1>5, <2>2
<1>7. Cardinality(Item) + 1 <= Cardinality(Node)
  <2>1. h \notin Item  BY ListAssumption
  <2>2. Cardinality(Item \cup {h}) = Cardinality(Item) + 1
    BY <1>3, <2>1, FS_AddElement
  <2>3. Item \cup {h} \subseteq Node  BY DEF Node
  <2>4. Cardinality(Item \cup {h}) <= Cardinality(Node)  BY <2>3, FS_Subset
  <2> QED  BY <2>2, <2>4
<1> QED  BY <1>4, <1>6, <1>7

(* The walk from a head is along its items and back.                       *)
LEMMA WalkIs ==
    ASSUME NEW nx, NEW L, Rings(nx, L), NEW h \in Anchor, IsFiniteSet(Node),
           NEW i \in 0..Len(L[h]) + 1
    PROVE  WalkOf(nx, h)[i] = At(h, L[h], i)
<1> DEFINE at == WalkOf(nx, h)
           n == Len(L[h])
           N == Cardinality(Node)
           T == {j \in 0..n + 1 : at[j] # At(h, L[h], j)}
<1>1. n \in Nat /\ N \in Nat /\ n + 1 <= N
  BY RingFits, RingTypes
<1>2. \E f : Walks(f, nx, h, N)
  <2> HIDE DEF N
  <2> QED  BY <1>1, WalkExists
<1>3. Walks(at, nx, h, N)
  BY <1>2 DEF WalkOf
<1> HIDE DEF at, N
<1>4. \A j \in 0..N : at[j] = IF j = 0 THEN h ELSE nx[at[j - 1]]
  BY <1>3 DEF Walks
<1>5. SUFFICES ASSUME T # {} PROVE FALSE
  BY DEF at
<1>6. PICK j \in T : \A l \in T : j <= l
  <2>1. T \subseteq Nat  BY <1>1
  <2> HIDE DEF T
  <2> QED  BY <1>5, <2>1, LeastNatural
<1>7. j \in 0..n + 1 /\ j \in Nat /\ j \in 0..N
  BY <1>1
<1>8. CASE j = 0
  BY <1>4, <1>6, <1>7, <1>8, RingTypes
<1>9. CASE j # 0
  <2>1. j - 1 \in 0..n + 1 /\ j - 1 \in 0..n /\ ~(j <= j - 1) /\ j - 1 + 1 = j
    BY <1>1, <1>7, <1>9
  <2>2. at[j - 1] = At(h, L[h], j - 1)
    BY <1>6, <2>1
  <2>3. nx[At(h, L[h], j - 1)] = At(h, L[h], j)
    <3>1. nx[At(h, L[h], j - 1)] = At(h, L[h], j - 1 + 1)  BY <2>1 DEF Rings
    <3> QED  BY <2>1, <3>1
  <2>4. at[j] = At(h, L[h], j)
    BY <1>4, <1>7, <1>9, <2>2, <2>3
  <2> QED  BY <1>6, <2>4
<1> QED  BY <1>8, <1>9

(* Items are the sequence of the ring.                                     *)
LEMMA ItemsAre ==
    ASSUME NEW nx, NEW L, Rings(nx, L), NEW h \in Anchor, IsFiniteSet(Node)
    PROVE  ItemsOf(nx, h) = L[h]
<1> DEFINE at == WalkOf(nx, h)
           s == L[h]
           n == Len(s)
           Back(i) == at[i + 1] = h /\ \A j \in 1..i : at[j] # h
<1>1. n \in Nat /\ s \in Seq(Item) /\ n \in 0..Cardinality(Item)
  BY RingTypes, RingFits
<1>2. \A i \in 0..n + 1 : at[i] = At(h, s, i)
  BY WalkIs
<1>3. \A i \in 1..n : at[i] = s[i] /\ s[i] # h
  BY <1>1, <1>2, RingTypes
<1>4. at[n + 1] = h
  BY <1>1, <1>2, RingTypes
<1> HIDE DEF at
<1>5. Back(n)
  BY <1>3, <1>4
<1>6. ASSUME NEW i \in 0..Cardinality(Item), Back(i) PROVE i = n
  <2>1. i \in Nat /\ n \in Nat  BY <1>1
  <2>2. ~(i < n)
    <3>1. i < n => i + 1 \in 1..n  BY <2>1
    <3> QED  BY <1>3, <1>6, <3>1
  <2>3. ~(n < i)
    <3>1. n < i => n + 1 \in 1..i  BY <2>1
    <3> QED  BY <1>4, <1>6, <3>1
  <2> QED  BY <2>1, <2>2, <2>3
<1>7. LengthOf(at, h) = n
  BY <1>1, <1>5, <1>6 DEF LengthOf
<1>8. ItemsOf(nx, h) = [i \in 1..n |-> at[i]]
  BY <1>7 DEF ItemsOf, at
<1>9. s = [i \in 1..n |-> s[i]]
  BY <1>1
<1> QED  BY <1>3, <1>8, <1>9

-----------------------------------------------------------------------------
(* The rings implement the sequences                                       *)

Listed == [h \in Anchor |-> Items(h)]
RingInv == ListInv /\ Rings(next, Listed)

(* Whatever the rings have in their places is what they list.              *)
LEMMA ListedIs ==
    ASSUME IsFiniteSet(Node), NEW L
    PROVE  /\ Rings(next, L) => Listed = L
           /\ Rings(next', L) => Listed' = L
<1>1. ASSUME Rings(next, L) PROVE Listed = L
  <2>1. \A h \in Anchor : Items(h) = L[h]  BY <1>1, ItemsIs, ItemsAre
  <2>2. L = [h \in Anchor |-> L[h]]  BY <1>1 DEF Rings
  <2> QED  BY <2>1, <2>2 DEF Listed
<1>2. ASSUME Rings(next', L) PROVE Listed' = L
  <2>1. ASSUME NEW h \in Anchor PROVE Items(h)' = L[h]
    BY <1>2, ItemsIs, ItemsAre
  <2>2. L = [h \in Anchor |-> L[h]]  BY <1>2 DEF Rings
  <2>3. Listed' = [h \in Anchor |-> Items(h)']  BY DEF Listed
  <2> QED  BY <2>1, <2>2, <2>3
<1> QED  BY <1>1, <1>2

(* Next to which node an insertion is made, in terms of the lists.         *)
LEMMA PlaceOf ==
    ASSUME RingInv, NEW l \in Node, l \in Anchor \/ ~Single(l)
    PROVE  \E h \in Anchor : \E i \in 0..Len(Listed[h]) : At(h, Listed[h], i) = l
<1>1. CASE l \in Anchor
  <2>1. Len(Listed[l]) \in Nat /\ At(l, Listed[l], 0) = l
    BY <1>1, RingTypes DEF RingInv
  <2> QED  BY <1>1, <2>1
<1>2. CASE l \notin Anchor
  <2>1. l \in Item /\ next[l] # l  BY <1>2 DEF Node, Single
  <2>2. PICK h \in Anchor : \E i \in 1..Len(Listed[h]) : Listed[h][i] = l
    BY <2>1 DEF RingInv, Rings
  <2>3. PICK i \in 1..Len(Listed[h]) : Listed[h][i] = l
    BY <2>2
  <2>4. At(h, Listed[h], i) = l /\ i \in 0..Len(Listed[h])
    BY <2>3, RingTypes DEF RingInv
  <2> QED  BY <2>4
<1> QED  BY <1>1, <1>2

(* Before each place there is another one.                                 *)
LEMMA PlaceBefore ==
    ASSUME RingInv, NEW h \in Anchor, NEW i \in 0..Len(Listed[h]),
           NEW l, l = At(h, Listed[h], i)
    PROVE  \E j \in 0..Len(Listed[h]) :
              /\ prev[l] = At(h, Listed[h], j)
              /\ i # 0 => j = i - 1
<1> DEFINE n == Len(Listed[h])
<1>1. Rings(next, Listed) /\ n \in Nat
  BY RingTypes DEF RingInv
<1>2. ASSUME NEW j \in 0..n
      PROVE  prev[At(h, Listed[h], j + 1)] = At(h, Listed[h], j)
  <2>1. next[At(h, Listed[h], j)] = At(h, Listed[h], j + 1)
    BY <1>1 DEF Rings
  <2>2. j \in 0..n + 1  BY <1>1
  <2>3. At(h, Listed[h], j) \in Node  BY <1>1, <2>2, RingTypes
  <2> QED  BY <2>1, <2>3 DEF RingInv, ListInv, Linked
<1>3. CASE i = 0
  <2>1. l = h /\ At(h, Listed[h], n + 1) = h
    BY <1>1, <1>3, RingTypes
  <2>2. n \in 0..n  BY <1>1
  <2>3. prev[l] = At(h, Listed[h], n)  BY <1>2, <2>1, <2>2
  <2> QED  BY <1>3, <2>2, <2>3
<1>4. CASE i # 0
  <2>1. i - 1 \in 0..n /\ i - 1 + 1 = i  BY <1>1, <1>4
  <2>2. prev[At(h, Listed[h], i - 1 + 1)] = At(h, Listed[h], i - 1)
    BY <1>2, <2>1
  <2> QED  BY <2>1, <2>2
<1> QED  BY <1>3, <1>4

(* A fresh item put behind a place.                                        *)
LEMMA InsertStep ==
    ASSUME IsFiniteSet(Node), RingInv, ListInv',
           NEW h \in Anchor, NEW i \in 0..Len(Listed[h]),
           NEW p, p = At(h, Listed[h], i), NEW e \in Item, Single(e),
           next' = [next EXCEPT ![e] = next[p], ![p] = e]
    PROVE  RingInv' /\ Sequence!Next
<1> DEFINE M == [Listed EXCEPT ![h] = Sequence!InsertAt(@, i + 1, e)]
<1>1. Rings(next, Listed) /\ next[e] = e
  BY DEF RingInv, Single
<1>2. Rings(next', M)
  BY <1>1, InsertRing
<1> HIDE DEF M
<1>3. Listed' = M
  BY <1>2, ListedIs
<1>4. RingInv'
  BY <1>2, <1>3 DEF RingInv
<1>5. Sequence!Free(e)
  <2>1. \A g \in Anchor : \A j \in 1..Len(Listed[g]) : Listed[g][j] # e
    BY <1>1, SingleIsFree
  <2> QED  BY <2>1 DEF Sequence!Free, Sequence!Contains, Listed
<1>6. i + 1 \in 1..Len(Listed[h]) + 1
  BY <1>1, RingTypes
<1>7. Sequence!Insert(h, i + 1, e)
  BY <1>3, <1>5 DEF Sequence!Insert, M, Listed
<1>8. Sequence!Next
  BY <1>6, <1>7 DEF Sequence!Next, Listed
<1> QED  BY <1>4, <1>8

(* os_list_remove takes its node out of the list that has it.              *)
LEMMA RemoveStep ==
    ASSUME IsFiniteSet(Node), RingInv, ListInv', NEW e \in Item, Remove(e)
    PROVE  RingInv' /\ Sequence!Next
<1>1. /\ Rings(next, Listed) /\ ListInv
      /\ next' = [next EXCEPT ![prev[e]] = next[e], ![e] = e]
  BY DEF RingInv, Remove
<1>2. e \in Node  BY DEF Node
<1>3. CASE next[e] = e
  <2>1. prev[e] = e  BY <1>1, <1>2, <1>3 DEF ListInv, Linked
  <2>2. next' = next
    BY <1>1, <1>2, <1>3, <2>1 DEF ListInv, TypeOK
  <2>3. Rings(next', Listed)  BY <1>1, <2>2
  <2>4. PICK L : L = Listed  OBVIOUS
  <2>5. Listed' = L  BY <2>3, <2>4, ListedIs
  <2>6. RingInv'  BY <2>3, <2>4, <2>5 DEF RingInv
  <2>7. \A g \in Anchor : Sequence!RemoveFirst(Listed[g], e) = Listed[g]
    <3> SUFFICES ASSUME NEW g \in Anchor
                 PROVE  Sequence!RemoveFirst(Listed[g], e) = Listed[g]
      OBVIOUS
    <3>1. PICK q \in Seq(Item) : q = Listed[g]  BY <1>1, RingTypes
    <3>2. \A j \in 1..Len(q) : q[j] # e  BY <1>1, <1>3, <3>1, SingleIsFree
    <3> QED  BY <3>1, <3>2, RemoveFirstNone
  <2>8. Sequence!TakeOut(e)
    BY <2>4, <2>5, <2>7 DEF Sequence!TakeOut, Listed
  <2> QED  BY <2>6, <2>8 DEF Sequence!Next
<1>4. CASE next[e] # e
  <2>1. PICK h \in Anchor : \E i \in 1..Len(Listed[h]) : Listed[h][i] = e
    BY <1>1, <1>4 DEF Rings
  <2>2. PICK i \in 1..Len(Listed[h]) : Listed[h][i] = e
    BY <2>1
  <2>3. /\ i \in 0..Len(Listed[h]) /\ i # 0 /\ At(h, Listed[h], i) = e
    BY <1>1, <2>2, RingTypes
  <2>4. prev[e] = At(h, Listed[h], i - 1)
    BY <2>3, PlaceBefore
  <2> DEFINE M == [Listed EXCEPT ![h] = Sequence!RemoveAt(@, i)]
  <2>5. Rings(next', M)
    BY <1>1, <2>2, <2>4, RemoveRing
  <2> HIDE DEF M
  <2>6. Listed' = M
    BY <2>5, ListedIs
  <2>7. RingInv'
    BY <2>5, <2>6 DEF RingInv
  <2>8. ASSUME NEW g \in Anchor
        PROVE  Sequence!RemoveFirst(Listed[g], e) = M[g]
    <3>1. PICK q \in Seq(Item) : q = Listed[g]  BY <1>1, RingTypes
    <3>2. CASE g = h
      <4>1. i \in 1..Len(q) /\ q[i] = e  BY <2>2, <3>1, <3>2
      <4>2. \A j \in 1..Len(q) : q[j] = q[i] => j = i
        BY <1>1, <3>1, <3>2, <4>1 DEF Rings
      <4>3. Sequence!RemoveFirst(q, q[i]) = Sequence!RemoveAt(q, i)
        BY <4>1, <4>2, RemoveFirstIs
      <4>4. M[h] = Sequence!RemoveAt(Listed[h], i)
        BY <1>1 DEF M, Rings
      <4> QED  BY <3>1, <3>2, <4>1, <4>3, <4>4
    <3>3. CASE g # h
      <4>1. \A j \in 1..Len(q) : q[j] # e
        BY <1>1, <2>2, <3>1, <3>3 DEF Rings
      <4>2. M[g] = Listed[g]  BY <1>1, <3>3 DEF M, Rings
      <4> QED  BY <3>1, <4>1, <4>2, RemoveFirstNone
    <3> QED  BY <3>2, <3>3
  <2>9. M = [g \in Anchor |-> M[g]]
    BY <1>1 DEF M, Rings
  <2>10. Sequence!TakeOut(e)
    BY <2>6, <2>8, <2>9 DEF Sequence!TakeOut, Listed
  <2> QED  BY <2>7, <2>10 DEF Sequence!Next
<1> QED  BY <1>3, <1>4

(* os_list_insert_after and os_list_insert_before.                         *)
LEMMA InsertAfterStep ==
    ASSUME IsFiniteSet(Node), RingInv, ListInv', NEW l \in Node,
           NEW e \in Item, l \in Anchor \/ ~Single(l), InsertAfter(l, e)
    PROVE  RingInv' /\ Sequence!Next
<1>1. PICK h \in Anchor : \E i \in 0..Len(Listed[h]) : At(h, Listed[h], i) = l
  BY PlaceOf
<1>2. PICK i \in 0..Len(Listed[h]) : At(h, Listed[h], i) = l
  BY <1>1
<1>3. Single(e) /\ next' = [next EXCEPT ![e] = next[l], ![l] = e]
  BY DEF InsertAfter
<1> QED  BY <1>2, <1>3, InsertStep

LEMMA InsertBeforeStep ==
    ASSUME IsFiniteSet(Node), RingInv, ListInv', NEW l \in Node,
           NEW e \in Item, l \in Anchor \/ ~Single(l), InsertBefore(l, e)
    PROVE  RingInv' /\ Sequence!Next
<1>1. PICK h \in Anchor : \E i \in 0..Len(Listed[h]) : At(h, Listed[h], i) = l
  BY PlaceOf
<1>2. PICK i \in 0..Len(Listed[h]) : At(h, Listed[h], i) = l
  BY <1>1
<1>3. PICK j \in 0..Len(Listed[h]) : prev[l] = At(h, Listed[h], j)
  BY <1>2, PlaceBefore
<1>4. PICK p : p = prev[l]
  OBVIOUS
<1>5. Single(e) /\ next' = [next EXCEPT ![p] = e, ![e] = l] /\ e # l
  BY <1>4 DEF InsertBefore
<1>6. next[p] = l /\ p \in Node /\ e \in Node
  BY <1>4 DEF RingInv, ListInv, TypeOK, Linked, Node
<1>7. p # e
  BY <1>5, <1>6 DEF Single
<1>8. next' = [next EXCEPT ![e] = next[p], ![p] = e]
  <2>1. next \in [Node -> Node]  BY DEF RingInv, ListInv, TypeOK
  <2> QED  BY <1>5, <1>6, <1>7, <2>1
<1>9. p = At(h, Listed[h], j)
  BY <1>3, <1>4
<1>10. Single(e)
  BY <1>5
<1> QED  BY <1>8, <1>9, <1>10, InsertStep

(* At first every ring is a head alone.                                    *)
LEMMA RingInit ==
    ASSUME IsFiniteSet(Node), Init
    PROVE  RingInv /\ Sequence!Init
<1> DEFINE L == [h \in Anchor |-> <<>>]
<1>1. ListInv  BY DEF Init, ListInv, TypeOK, Linked
<1>2. Rings(next, L)
  BY DEF Init, Rings, At, Node
<1> HIDE DEF L
<1>3. Listed = L  BY <1>2, ListedIs
<1>4. RingInv  BY <1>1, <1>2, <1>3 DEF RingInv
<1>5. Sequence!Init  BY <1>3 DEF Sequence!Init, L, Listed
<1> QED  BY <1>4, <1>5

LEMMA RingNext ==
    ASSUME IsFiniteSet(Node), RingInv, [Next]_vars
    PROVE  RingInv' /\ [Sequence!Next]_Listed
<1>1. CASE Next
  <2>0. PICK e \in Item : \/ Remove(e)
                          \/ \E l \in Node : /\ l \in Anchor \/ ~Single(l)
                                             /\ InsertAfter(l, e) \/ InsertBefore(l, e)
    BY <1>1 DEF Next
  <2>1. CASE Remove(e)
    <3>1. ListInv'  BY <2>1, RemoveKeepsInv DEF RingInv, Node
    <3> QED  BY <2>1, <3>1, RemoveStep
  <2>2. ASSUME NEW l \in Node, l \in Anchor \/ ~Single(l), InsertAfter(l, e)
        PROVE  RingInv' /\ Sequence!Next
    <3>1. ListInv'  BY <2>2, InsertAfterKeepsInv DEF RingInv, Node
    <3> QED  BY <2>2, <3>1, InsertAfterStep
  <2>3. ASSUME NEW l \in Node, l \in Anchor \/ ~Single(l), InsertBefore(l, e)
        PROVE  RingInv' /\ Sequence!Next
    <3>1. ListInv'  BY <2>3, InsertBeforeKeepsInv DEF RingInv, Node
    <3> QED  BY <2>3, <3>1, InsertBeforeStep
  <2> QED  BY <2>0, <2>1, <2>2, <2>3
<1>2. CASE UNCHANGED vars
  <2>1. next' = next /\ prev' = prev  BY <1>2 DEF vars
  <2>2. PICK L : L = Listed  OBVIOUS
  <2>3. Rings(next', L)  BY <2>1, <2>2 DEF RingInv
  <2>4. Listed' = L  BY <2>3, ListedIs
  <2>5. ListInv'  BY <2>1 DEF RingInv, ListInv, TypeOK, Linked
  <2> QED  BY <2>2, <2>3, <2>4, <2>5 DEF RingInv
<1> QED  BY <1>1, <1>2

(* The heads and nodes of os_list.c, linked by pointers in two directions, *)
(* are sequences: inserting next to a node is inserting at a place of one  *)
(* list, of an item that is in none, and os_list_remove, which is not told *)
(* the list, takes the item from the one that has it.                      *)
THEOREM RingsImplementLists ==
    ASSUME IsFiniteSet(Node)
    PROVE  Spec => ImplementsLists
<1>1. Init => RingInv /\ Sequence!Init  BY RingInit
<1>2. RingInv /\ [Next]_vars => RingInv' /\ [Sequence!Next]_Listed
  BY RingNext
<1>3. RingInv /\ [Next]_vars
          => [Sequence!Next]_([h \in Anchor |-> Items(h)])
  BY <1>2 DEF Listed
<1> QED  BY <1>1, <1>2, <1>3, PTL DEF Spec, ImplementsLists, Sequence!Spec
=============================================================================
