--------------------------- MODULE OsKernelProofs ---------------------------
(***************************************************************************)
(* Lemmas about the operators of OsKernel, for every set of tasks, levels, *)
(* objects and timers: what they do to lists, that each of them keeps      *)
(* KernelOK when it is called in the right state, and what it does then to *)
(* the tasks that wait.                                                    *)
(***************************************************************************)
EXTENDS KernelInv, Chains, SequenceTheorems, FiniteSetTheorems, WellFoundedInduction,
        TLAPS

-----------------------------------------------------------------------------
(* Lists: sequences without duplicates and the sets of their members *)

IsList(s, S) == s \in Seq(S) /\ IsInjective(s)

(* The empty list.                                                         *)
LEMMA EmptyList ==
    ASSUME NEW S
    PROVE  IsList(<<>>, S) /\ ToSet(<<>>) = {}
BY DEF IsList, IsInjective, ToSet

(* The members of a list are in its set.                                   *)
LEMMA MemberOfList ==
    ASSUME NEW S, NEW s, IsList(s, S)
    PROVE  /\ ToSet(s) \subseteq S
           /\ s = <<>> <=> ToSet(s) = {}
           /\ s # <<>> => s[1] \in ToSet(s)
           /\ Len(s) \in Nat
BY DEF IsList, ToSet

(* Taking the i-th entry out of a list.                                    *)
LEMMA RemoveAtList ==
    ASSUME NEW S, NEW s, IsList(s, S), NEW i \in 1..Len(s)
    PROVE  /\ IsList(RemoveAt(s, i), S)
           /\ ToSet(RemoveAt(s, i)) = ToSet(s) \ {s[i]}
           /\ Len(RemoveAt(s, i)) = Len(s) - 1
           /\ \A j \in 1..Len(s) - 1 :
                 RemoveAt(s, i)[j] = IF j < i THEN s[j] ELSE s[j + 1]
<1> DEFINE f == SubSeq(s, 1, i - 1)
           b == SubSeq(s, i + 1, Len(s))
           r == RemoveAt(s, i)
<1>1. s \in Seq(S) /\ Len(s) \in Nat /\ DOMAIN s = 1..Len(s)
  BY DEF IsList
<1>2. /\ f \in Seq(S) /\ Len(f) = i - 1
      /\ \A j \in 1..i - 1 : f[j] = s[j]
  <2>1. \A j \in 1..i - 1 : s[j] \in S  BY <1>1
  <2>2. 1 \in Int /\ i - 1 \in Int  BY <1>1
  <2>3. /\ f \in Seq(S)
        /\ Len(f) = IF 1 <= i - 1 THEN i - 1 - 1 + 1 ELSE 0
        /\ \A j \in 1..i - 1 - 1 + 1 : f[j] = s[1 + j - 1]
    BY <2>1, <2>2, SubSeqProperties
  <2> HIDE DEF f
  <2> QED  BY <1>1, <2>3
<1>3. /\ b \in Seq(S) /\ Len(b) = Len(s) - i
      /\ \A j \in 1..Len(s) - i : b[j] = s[i + j]
  <2>1. \A j \in i + 1..Len(s) : s[j] \in S  BY <1>1
  <2>2. i + 1 \in Int /\ Len(s) \in Int  BY <1>1
  <2>3. /\ b \in Seq(S)
        /\ Len(b) = IF i + 1 <= Len(s) THEN Len(s) - (i + 1) + 1 ELSE 0
        /\ \A j \in 1..Len(s) - (i + 1) + 1 : b[j] = s[i + 1 + j - 1]
    BY <2>1, <2>2, SubSeqProperties
  <2> HIDE DEF b
  <2>4. Len(s) - (i + 1) + 1 = Len(s) - i  BY <1>1
  <2>5. ASSUME NEW j \in 1..Len(s) - i PROVE b[j] = s[i + j]
    <3>1. i + 1 + j - 1 = i + j  BY <1>1
    <3> QED  BY <2>3, <2>4, <3>1
  <2>6. Len(b) = Len(s) - i
    <3>0. i \in Nat /\ Len(s) \in Nat /\ i <= Len(s)  BY <1>1
    <3>1. CASE i < Len(s)
      <4>1. i + 1 <= Len(s)  BY <3>1, <1>1
      <4> QED  BY <4>1, <2>3, <2>4
    <3>2. CASE i = Len(s)
      <4>1. ~(i + 1 <= Len(s)) /\ Len(s) - i = 0  BY <3>2, <1>1
      <4> QED  BY <4>1, <2>3
    <3>3. i < Len(s) \/ i = Len(s)  BY <3>0
    <3> QED  BY <3>1, <3>2, <3>3
  <2> QED  BY <2>3, <2>5, <2>6
<1>4. r = f \o b
  BY DEF RemoveAt
<1>5. /\ r \in Seq(S) /\ Len(r) = Len(s) - 1
      /\ \A j \in 1..Len(s) - 1 : r[j] = IF j < i THEN s[j] ELSE s[j + 1]
  <2> HIDE DEF f, b, r
  <2>1. /\ r \in Seq(S) /\ Len(r) = Len(f) + Len(b)
        /\ \A j \in 1..Len(f) + Len(b) :
              r[j] = IF j <= Len(f) THEN f[j] ELSE b[j - Len(f)]
    BY <1>2, <1>3, <1>4, ConcatProperties
  <2>2. Len(f) + Len(b) = Len(s) - 1  BY <1>1, <1>2, <1>3
  <2>3. ASSUME NEW j \in 1..Len(s) - 1
        PROVE  r[j] = IF j < i THEN s[j] ELSE s[j + 1]
    <3>1. CASE j < i  BY <3>1, <1>1, <1>2, <2>1, <2>2
    <3>2. CASE j >= i
      <4>1. r[j] = b[j - (i - 1)]  BY <3>2, <1>1, <1>2, <2>1, <2>2
      <4>2. j - (i - 1) \in 1..Len(s) - i /\ i + (j - (i - 1)) = j + 1
        BY <3>2, <1>1
      <4>3. b[j - (i - 1)] = s[i + (j - (i - 1))]  BY <1>3, <4>2
      <4> QED  BY <3>2, <1>1, <4>1, <4>2, <4>3
    <3> QED  BY <1>1, <3>1, <3>2
  <2> QED  BY <2>1, <2>2, <2>3
<1> HIDE DEF f, b, r
<1>6. DOMAIN r = 1..Len(s) - 1
  BY <1>5
<1>7. IsInjective(r)
  <2> DEFINE at(j) == IF j < i THEN j ELSE j + 1
  <2>1. \A j \in 1..Len(s) - 1 : at(j) \in DOMAIN s /\ r[j] = s[at(j)]
    BY <1>1, <1>5
  <2>2. \A j, l \in 1..Len(s) - 1 : at(j) = at(l) => j = l
    BY <1>1
  <2> HIDE DEF at
  <2> QED  BY <1>6, <2>1, <2>2 DEF IsInjective, IsList
<1>8. ToSet(r) = ToSet(s) \ {s[i]}
  <2>1. ToSet(r) \subseteq ToSet(s) \ {s[i]}
    BY <1>1, <1>5, <1>6 DEF ToSet, IsInjective, IsList
  <2>2. ASSUME NEW j \in 1..Len(s), s[j] # s[i] PROVE s[j] \in ToSet(r)
    <3>1. CASE j < i  BY <3>1, <1>1, <1>5, <1>6 DEF ToSet
    <3>2. CASE j > i
      <4>1. r[j - 1] = s[j] /\ j - 1 \in DOMAIN r  BY <3>2, <1>1, <1>5, <1>6
      <4> QED  BY <4>1 DEF ToSet
    <3> QED  BY <2>2, <3>1, <3>2
  <2> QED  BY <1>1, <2>1, <2>2 DEF ToSet
<1> QED  BY <1>5, <1>7, <1>8 DEF IsList, r

(* os_list_remove takes out exactly the node it is called on.              *)
LEMMA UnlinkList ==
    ASSUME NEW S, NEW s, IsList(s, S), NEW e
    PROVE  IsList(Unlink(s, e), S) /\ ToSet(Unlink(s, e)) = ToSet(s) \ {e}
<1>1. CASE \E i \in DOMAIN s : s[i] = e
  <2> DEFINE i == CHOOSE j \in DOMAIN s : s[j] = e
  <2>1. i \in DOMAIN s /\ s[i] = e  BY <1>1
  <2>2. i \in 1..Len(s)  BY <2>1 DEF IsList
  <2>3. Unlink(s, e) = RemoveAt(s, i)  BY <1>1 DEF Unlink
  <2> HIDE DEF i
  <2> QED  BY <2>1, <2>2, <2>3, RemoveAtList
<1>2. CASE ~ \E i \in DOMAIN s : s[i] = e
  BY <1>2 DEF Unlink, ToSet
<1> QED  BY <1>1, <1>2

(* Putting an entry at the end of a list.                                  *)
LEMMA AppendList ==
    ASSUME NEW S, NEW s, IsList(s, S), NEW e \in S, e \notin ToSet(s)
    PROVE  /\ IsList(Append(s, e), S)
           /\ ToSet(Append(s, e)) = ToSet(s) \cup {e}
           /\ Append(s, e) # <<>>
BY AppendProperties DEF IsList, IsInjective, ToSet

(* Putting an entry before the i-th one of a list.                         *)
LEMMA InsertAtList ==
    ASSUME NEW S, NEW s, IsList(s, S), NEW e \in S, e \notin ToSet(s),
           NEW i \in 1..Len(s) + 1
    PROVE  /\ IsList(InsertAt(s, i, e), S)
           /\ ToSet(InsertAt(s, i, e)) = ToSet(s) \cup {e}
           /\ Len(InsertAt(s, i, e)) = Len(s) + 1
           /\ \A j \in 1..Len(s) + 1 :
                 InsertAt(s, i, e)[j] = IF j < i THEN s[j]
                                        ELSE IF j = i THEN e ELSE s[j - 1]
<1> DEFINE f == SubSeq(s, 1, i - 1)
           m == f \o <<e>>
           b == SubSeq(s, i, Len(s))
           r == InsertAt(s, i, e)
<1>1. s \in Seq(S) /\ Len(s) \in Nat /\ DOMAIN s = 1..Len(s)
  BY DEF IsList
<1>2. /\ f \in Seq(S) /\ Len(f) = i - 1
      /\ \A j \in 1..i - 1 : f[j] = s[j]
  <2>1. \A j \in 1..i - 1 : s[j] \in S  BY <1>1
  <2>2. 1 \in Int /\ i - 1 \in Int  BY <1>1
  <2>3. /\ f \in Seq(S)
        /\ Len(f) = IF 1 <= i - 1 THEN i - 1 - 1 + 1 ELSE 0
        /\ \A j \in 1..i - 1 - 1 + 1 : f[j] = s[1 + j - 1]
    BY <2>1, <2>2, SubSeqProperties
  <2> HIDE DEF f
  <2> QED  BY <1>1, <2>3
<1>3. /\ m \in Seq(S) /\ Len(m) = i
      /\ \A j \in 1..i : m[j] = IF j < i THEN s[j] ELSE e
  <2> HIDE DEF f
  <2>1. <<e>> \in Seq(S) /\ Len(<<e>>) = 1 /\ <<e>>[1] = e  OBVIOUS
  <2>2. /\ m \in Seq(S) /\ Len(m) = Len(f) + 1
        /\ \A j \in 1..Len(f) + 1 :
              m[j] = IF j <= Len(f) THEN f[j] ELSE <<e>>[j - Len(f)]
    BY <1>2, <2>1, ConcatProperties
  <2> HIDE DEF m
  <2>3. Len(f) + 1 = i  BY <1>1, <1>2
  <2>4. ASSUME NEW j \in 1..i PROVE m[j] = IF j < i THEN s[j] ELSE e
    <3>1. CASE j < i  BY <3>1, <1>1, <1>2, <2>2, <2>3
    <3>2. CASE j = i
      <4>1. j \in 1..Len(f) + 1 /\ ~(j <= Len(f)) /\ j - Len(f) = 1
        BY <3>2, <1>1, <1>2, <2>3
      <4>2. m[j] = <<e>>[j - Len(f)]  BY <2>2, <4>1
      <4> QED  BY <3>2, <4>1, <4>2, <2>1
    <3> QED  BY <1>1, <3>1, <3>2
  <2> QED  BY <2>2, <2>3, <2>4
<1>4. /\ b \in Seq(S) /\ Len(b) = Len(s) + 1 - i
      /\ \A j \in 1..Len(s) + 1 - i : b[j] = s[i + j - 1]
  <2>1. \A j \in i..Len(s) : s[j] \in S  BY <1>1
  <2>2. i \in Int /\ Len(s) \in Int  BY <1>1
  <2>3. /\ b \in Seq(S)
        /\ Len(b) = IF i <= Len(s) THEN Len(s) - i + 1 ELSE 0
        /\ \A j \in 1..Len(s) - i + 1 : b[j] = s[i + j - 1]
    BY <2>1, <2>2, SubSeqProperties
  <2> HIDE DEF b
  <2>4. Len(s) - i + 1 = Len(s) + 1 - i  BY <1>1
  <2>5. Len(b) = Len(s) + 1 - i
    <3>1. CASE i <= Len(s)  BY <3>1, <2>3, <2>4
    <3>2. CASE ~(i <= Len(s))
      <4>1. Len(b) = 0  BY <3>2, <2>3
      <4>2. Len(s) + 1 - i = 0  BY <3>2, <1>1
      <4> QED  BY <4>1, <4>2
    <3> QED  BY <3>1, <3>2
  <2> QED  BY <2>3, <2>4, <2>5
<1>5. r = m \o b
  BY DEF InsertAt
<1> HIDE DEF f, m, b, r
<1>6. /\ r \in Seq(S) /\ Len(r) = Len(s) + 1
      /\ \A j \in 1..Len(s) + 1 :
            r[j] = IF j < i THEN s[j] ELSE IF j = i THEN e ELSE s[j - 1]
  <2>1. /\ r \in Seq(S) /\ Len(r) = Len(m) + Len(b)
        /\ \A j \in 1..Len(m) + Len(b) :
              r[j] = IF j <= Len(m) THEN m[j] ELSE b[j - Len(m)]
    BY <1>3, <1>4, <1>5, ConcatProperties
  <2>2. Len(m) + Len(b) = Len(s) + 1  BY <1>1, <1>3, <1>4
  <2>3. ASSUME NEW j \in 1..Len(s) + 1
        PROVE  r[j] = IF j < i THEN s[j] ELSE IF j = i THEN e ELSE s[j - 1]
    <3>1. CASE j <= i  BY <3>1, <1>1, <1>3, <2>1, <2>2
    <3>2. CASE j > i
      <4>1. r[j] = b[j - i]  BY <3>2, <1>1, <1>3, <2>1, <2>2
      <4>2. j - i \in 1..Len(s) + 1 - i /\ i + (j - i) - 1 = j - 1
        BY <3>2, <1>1
      <4>3. b[j - i] = s[i + (j - i) - 1]  BY <1>4, <4>2
      <4> QED  BY <3>2, <1>1, <4>1, <4>2, <4>3
    <3> QED  BY <1>1, <3>1, <3>2
  <2> QED  BY <2>1, <2>2, <2>3
<1>7. DOMAIN r = 1..Len(s) + 1
  BY <1>6
<1> DEFINE at(j) == IF j < i THEN j ELSE j - 1
<1>8. \A j \in (1..Len(s) + 1) \ {i} : at(j) \in DOMAIN s /\ r[j] = s[at(j)]
  BY <1>1, <1>6
<1>9. \A j, l \in (1..Len(s) + 1) \ {i} : at(j) = at(l) => j = l
  BY <1>1
<1>10. \A l \in DOMAIN s : \E j \in (1..Len(s) + 1) \ {i} : at(j) = l
  <2> TAKE l \in DOMAIN s
  <2>1. CASE l < i  BY <2>1, <1>1
  <2>2. CASE l >= i
    <3>1. l + 1 \in (1..Len(s) + 1) \ {i} /\ at(l + 1) = l  BY <2>2, <1>1
    <3> QED  BY <3>1
  <2> QED  BY <1>1, <2>1, <2>2
<1>11. r[i] = e /\ i \in DOMAIN r
  BY <1>1, <1>6, <1>7
<1> HIDE DEF at
<1>12. IsInjective(r)
  BY <1>7, <1>8, <1>9, <1>11 DEF IsInjective, IsList, ToSet
<1>13. ToSet(r) = ToSet(s) \cup {e}
  BY <1>7, <1>8, <1>10, <1>11 DEF ToSet
<1> QED  BY <1>6, <1>12, <1>13 DEF IsList, r

(* The first task of a list leaves it, or a task is put before the first.  *)
LEMMA TailList ==
    ASSUME NEW S, NEW s, IsList(s, S), s # <<>>
    PROVE  IsList(Tail(s), S) /\ ToSet(Tail(s)) = ToSet(s) \ {s[1]}
<1>1. s \in Seq(S) /\ Len(s) \in Nat /\ DOMAIN s = 1..Len(s) /\ Len(s) > 0
  BY DEF IsList
<1>2. /\ Tail(s) \in Seq(S) /\ Len(Tail(s)) = Len(s) - 1
      /\ \A j \in 1..Len(s) - 1 : Tail(s)[j] = s[j + 1]
  BY <1>1, HeadTailProperties
<1>3. DOMAIN Tail(s) = 1..Len(s) - 1
  BY <1>1, <1>2
<1>4. \A j \in 1..Len(s) - 1 : j + 1 \in DOMAIN s /\ j + 1 # 1
  BY <1>1
<1>5. \A l \in DOMAIN s \ {1} : \E j \in 1..Len(s) - 1 : j + 1 = l
  <2> TAKE l \in DOMAIN s \ {1}
  <2>1. l - 1 \in 1..Len(s) - 1 /\ (l - 1) + 1 = l  BY <1>1
  <2> QED  BY <2>1
<1>6. IsInjective(Tail(s))
  BY <1>1, <1>2, <1>3, <1>4 DEF IsInjective, IsList
<1>7. ToSet(Tail(s)) = ToSet(s) \ {s[1]}
  <2>1. ASSUME NEW j \in 1..Len(s) - 1 PROVE Tail(s)[j] \in ToSet(s) \ {s[1]}
    <3>1. j + 1 \in DOMAIN s /\ 1 \in DOMAIN s /\ j + 1 # 1  BY <1>1
    <3>2. s[j + 1] # s[1]  BY <3>1 DEF IsInjective, IsList
    <3> QED  BY <1>2, <3>1, <3>2 DEF ToSet
  <2>2. ASSUME NEW l \in DOMAIN s, s[l] # s[1] PROVE s[l] \in ToSet(Tail(s))
    <3>1. PICK j \in 1..Len(s) - 1 : j + 1 = l  BY <2>2, <1>5
    <3> QED  BY <1>2, <1>3, <3>1 DEF ToSet
  <2> QED  BY <1>3, <2>1, <2>2 DEF ToSet
<1> QED  BY <1>2, <1>6, <1>7 DEF IsList

(* Putting an entry at the head of a list.                                 *)
LEMMA ConsList ==
    ASSUME NEW S, NEW s, IsList(s, S), NEW e \in S, e \notin ToSet(s)
    PROVE  IsList(<<e>> \o s, S) /\ ToSet(<<e>> \o s) = ToSet(s) \cup {e}
<1> DEFINE r == <<e>> \o s
<1>1. s \in Seq(S) /\ Len(s) \in Nat /\ DOMAIN s = 1..Len(s)
  BY DEF IsList
<1>2. <<e>> \in Seq(S) /\ Len(<<e>>) = 1 /\ <<e>>[1] = e
  OBVIOUS
<1>3. /\ r \in Seq(S) /\ Len(r) = 1 + Len(s)
      /\ \A j \in 1..1 + Len(s) : r[j] = IF j <= 1 THEN <<e>>[j] ELSE s[j - 1]
  BY <1>1, <1>2, ConcatProperties
<1> HIDE DEF r
<1>4. DOMAIN r = 1..1 + Len(s)
  BY <1>1, <1>3
<1>5. r[1] = e /\ 1 \in DOMAIN r
  BY <1>1, <1>2, <1>3, <1>4
<1>6. \A j \in DOMAIN r \ {1} : j - 1 \in DOMAIN s /\ r[j] = s[j - 1]
  BY <1>1, <1>3, <1>4
<1>7. \A j, l \in DOMAIN r : j - 1 = l - 1 => j = l
  BY <1>1, <1>4
<1>8. \A l \in DOMAIN s : l + 1 \in DOMAIN r \ {1} /\ (l + 1) - 1 = l
  BY <1>1, <1>4
<1>9. IsInjective(r)
  BY <1>5, <1>6, <1>7 DEF IsInjective, IsList, ToSet
<1>10. ToSet(r) = ToSet(s) \cup {e}
  BY <1>5, <1>6, <1>8 DEF ToSet
<1> QED  BY <1>3, <1>9, <1>10 DEF IsList, r

(* The least element of a set of naturals: what __ffs finds, and where the *)
(* loops of os_timer_start and os_list_suspend stop.                       *)
LEMMA LeastNatural ==
    ASSUME NEW T, T \subseteq Nat, T # {}
    PROVE  \E x \in T : \A y \in T : x <= y
<1> DEFINE R == {ss \in Nat \X Nat : ss[1] < ss[2]}
<1>1. IsWellFoundedOn(R, Nat)
  BY NatLessThanWellFounded DEF OpToRel
<1>2. PICK x \in T : \A y \in T : ~ (<<y, x>> \in R)
  BY <1>1, WFMin, Zenon
<1>3. \A y \in T : ~ (y < x)
  BY <1>2
<1> QED  BY <1>2, <1>3

(* The loops of os_timer_start and os_list_suspend stop at a place of the  *)
(* list, the first one whose node has the property they look for.          *)
LEMMA FirstInExists ==
    ASSUME NEW S, NEW s \in Seq(S), NEW A
    PROVE  /\ FirstIn(s, A) \in 1..Len(s) + 1
           /\ \A j \in 1..FirstIn(s, A) - 1 : s[j] \notin A
           /\ FirstIn(s, A) <= Len(s) => s[FirstIn(s, A)] \in A
<1> DEFINE T == {i \in 1..Len(s) : s[i] \in A} \cup {Len(s) + 1}
           P(i) == /\ \A j \in 1..i - 1 : s[j] \notin A
                   /\ i <= Len(s) => s[i] \in A
<1>1. Len(s) \in Nat
  OBVIOUS
<1>2. T \subseteq Nat /\ T # {}
  BY <1>1
<1>3. PICK i \in T : \A j \in T : i <= j
  BY <1>2, LeastNatural
<1>4. i \in 1..Len(s) + 1
  BY <1>1
<1>5. P(i)
  <2>1. ASSUME NEW j \in 1..i - 1 PROVE s[j] \notin A
    <3>1. j \in 1..Len(s) /\ j < i /\ j \in Nat /\ i \in Nat  BY <1>1, <1>4
    <3>2. j \notin T  BY <1>3, <3>1
    <3> QED  BY <1>1, <3>1, <3>2
  <2>2. i <= Len(s) => s[i] \in A
    BY <1>1, <1>4
  <2> QED  BY <2>1, <2>2
<1> HIDE DEF T
<1>6. FirstIn(s, A) \in 1..Len(s) + 1 /\ P(FirstIn(s, A))
  BY <1>4, <1>5 DEF FirstIn
<1> QED  BY <1>6

(* Unlinking what is not in a list changes nothing.                        *)
LEMMA UnlinkAbsent ==
    ASSUME NEW s, NEW e, e \notin ToSet(s)
    PROVE  Unlink(s, e) = s
BY DEF Unlink, ToSet

-----------------------------------------------------------------------------
(* Operators of OsKernel and KernelOK.  Each lemma names the state the     *)
(* operator leaves r, and says what it leaves alone.                       *)

SameLists(k, r) == /\ r.ready = k.ready /\ r.bitmap = k.bitmap
                   /\ r.pend = k.pend /\ r.defunct = k.defunct
SameTasks(k, r) == r.stat = k.stat /\ r.prio = k.prio /\ r.mask = k.mask
SameTimers(k, r) == r.timers = k.timers /\ r.act = k.act
SameControl(k, r) == /\ r.cur = k.cur /\ r.lock = k.lock
                     /\ r.isr = k.isr /\ r.n = k.n

(* os_list_remove of a task's node. *)
LEMMA TlistRemoveFields ==
    ASSUME NEW k, NEW D, KernelOK(k, D), NEW t \in Task,
           NEW r, r = TlistRemove(k, t)
    PROVE  /\ r \in Kernel
           /\ r.ready = [p \in Prio |-> Unlink(k.ready[p], t)]
           /\ r.pend = [o \in Obj |-> Unlink(k.pend[o], t)]
           /\ r.defunct = Unlink(k.defunct, t)
           /\ r.bitmap = k.bitmap
           /\ SameTasks(k, r) /\ SameTimers(k, r) /\ SameControl(k, r)
<1>1. /\ k \in Kernel
      /\ \A p \in Prio : IsList(k.ready[p], Task)
      /\ \A o \in Obj : IsList(k.pend[o], Task)
      /\ IsList(k.defunct, Task)
  BY DEF KernelOK, Kernel, ReadyLists, PendingLists, DefunctList, IsList
<1> DEFINE a == [p \in Prio |-> Unlink(k.ready[p], t)]
           b == [o \in Obj |-> Unlink(k.pend[o], t)]
           c == Unlink(k.defunct, t)
<1>2. /\ a \in [Prio -> Seq(Task)]
      /\ b \in [Obj -> Seq(Task)]
      /\ c \in Seq(Task)
  BY <1>1, UnlinkList DEF IsList
<1>3. r = [k EXCEPT !.ready = a, !.pend = b, !.defunct = c]
  BY <1>1 DEF TlistRemove, Kernel
<1> SUFFICES /\ r \in Kernel
             /\ r.ready = a /\ r.pend = b /\ r.defunct = c
             /\ r.bitmap = k.bitmap
             /\ SameTasks(k, r) /\ SameTimers(k, r) /\ SameControl(k, r)
  OBVIOUS
<1> HIDE DEF a, b, c
<1>4. r \in Kernel
  BY <1>1, <1>2, <1>3 DEF Kernel
<1> QED
  BY <1>1, <1>3, <1>4 DEF Kernel, SameTasks, SameTimers, SameControl

(* os_sched_remove takes a task out of every list and keeps the bitmap,    *)
(* whatever state it is in, if its mask is not that of another level.      *)
LEMMA SchedRemoveFields ==
    ASSUME NEW k, NEW D, KernelOK(k, D), NEW t \in Task,
           NEW r, r = SchedRemove(k, t)
    PROVE  /\ r \in Kernel
           /\ \A p \in Prio : r.ready[p] = Unlink(k.ready[p], t)
           /\ \A o \in Obj : r.pend[o] = Unlink(k.pend[o], t)
           /\ r.defunct = Unlink(k.defunct, t)
           /\ r.ready[k.prio[t]] = <<>> => r.bitmap = k.bitmap \ k.mask[t]
           /\ r.ready[k.prio[t]] # <<>> => r.bitmap = k.bitmap
           /\ SameTasks(k, r) /\ SameTimers(k, r) /\ SameControl(k, r)
<1> DEFINE q == TlistRemove(k, t)
<1>1. /\ q \in Kernel
      /\ q.ready = [p \in Prio |-> Unlink(k.ready[p], t)]
      /\ q.pend = [o \in Obj |-> Unlink(k.pend[o], t)]
      /\ q.defunct = Unlink(k.defunct, t)
      /\ q.bitmap = k.bitmap
      /\ SameTasks(k, q) /\ SameTimers(k, q) /\ SameControl(k, q)
  BY TlistRemoveFields
<1>2. k.prio[t] \in Prio /\ k.mask[t] \in SUBSET Prio
  BY DEF KernelOK, Kernel
<1> DEFINE b == q.bitmap \ k.mask[t]
<1>3. r = IF q.ready[k.prio[t]] = <<>> THEN [q EXCEPT !.bitmap = b] ELSE q
  BY <1>1 DEF SchedRemove, Kernel
<1> HIDE DEF q
<1>4. b \in SUBSET Prio /\ b = k.bitmap \ k.mask[t]
  BY <1>1 DEF Kernel
<1> HIDE DEF b
<1>5. q.ready[k.prio[t]] = Unlink(k.ready[k.prio[t]], t)
  BY <1>1, <1>2
<1>6. CASE q.ready[k.prio[t]] = <<>>
  <2>1. r = [q EXCEPT !.bitmap = b]  BY <1>3, <1>6
  <2>2. r \in Kernel  BY <1>1, <1>4, <2>1 DEF Kernel
  <2>3. /\ r.ready = q.ready /\ r.pend = q.pend /\ r.defunct = q.defunct
        /\ r.bitmap = b
        /\ SameTasks(q, r) /\ SameTimers(q, r) /\ SameControl(q, r)
    BY <1>1, <2>1 DEF Kernel, SameTasks, SameTimers, SameControl
  <2> QED
    BY <1>1, <1>4, <1>5, <1>6, <2>2, <2>3 DEF SameTasks, SameTimers, SameControl
<1>7. CASE q.ready[k.prio[t]] # <<>>
  <2>1. r = q  BY <1>3, <1>7
  <2> QED  BY <1>1, <1>5, <1>7, <2>1
<1> QED  BY <1>6, <1>7

(* os_sched_remove takes a task out of every list, whatever state it is in,*)
(* and keeps the bitmap exact if its mask is not that of another level.    *)
LEMMA Detach ==
    ASSUME NEW k, NEW D, KernelOK(k, D), NEW t \in Task,
           k.mask[t] \subseteq {k.prio[t]},
           NEW r, r = SchedRemove(k, t)
    PROVE  /\ KernelOK(r, D \cup {t})
           /\ ToSet(r.defunct) = ToSet(k.defunct) \ {t}
           /\ t \notin ToSet(k.defunct) => r.defunct = k.defunct
           /\ \A o \in Obj : k.pend[o] = <<>> => r.pend[o] = <<>>
           /\ SameTasks(k, r) /\ SameTimers(k, r) /\ SameControl(k, r)
<1>1. /\ r \in Kernel
      /\ \A p \in Prio : r.ready[p] = Unlink(k.ready[p], t)
      /\ \A o \in Obj : r.pend[o] = Unlink(k.pend[o], t)
      /\ r.defunct = Unlink(k.defunct, t)
      /\ r.ready[k.prio[t]] = <<>> => r.bitmap = k.bitmap \ k.mask[t]
      /\ r.ready[k.prio[t]] # <<>> => r.bitmap = k.bitmap
      /\ SameTasks(k, r) /\ SameTimers(k, r) /\ SameControl(k, r)
  BY SchedRemoveFields
<1>2. k \in Kernel /\ k.prio[t] \in Prio /\ \A u \in Task : k.prio[u] \in Prio
  BY DEF KernelOK, Kernel
<1>3. /\ \A p \in Prio : IsList(k.ready[p], Task)
      /\ \A o \in Obj : IsList(k.pend[o], Task)
      /\ IsList(k.defunct, Task)
  BY DEF KernelOK, Kernel, ReadyLists, PendingLists, DefunctList, IsList
<1>4. /\ \A p \in Prio : /\ IsList(r.ready[p], Task)
                         /\ ToSet(r.ready[p]) = ToSet(k.ready[p]) \ {t}
      /\ \A o \in Obj : /\ IsList(r.pend[o], Task)
                        /\ ToSet(r.pend[o]) = ToSet(k.pend[o]) \ {t}
      /\ IsList(r.defunct, Task)
      /\ ToSet(r.defunct) = ToSet(k.defunct) \ {t}
  BY <1>1, <1>3, UnlinkList
<1>5. ReadyLists(r, D \cup {t})
  <2>1. ReadyLists(k, D) /\ r.stat = k.stat /\ r.prio = k.prio
    BY <1>1 DEF KernelOK, SameTasks
  <2>2. ASSUME NEW p \in Prio
        PROVE  /\ IsInjective(r.ready[p])
               /\ \A u \in ToSet(r.ready[p]) :
                     r.stat[u] = "READY" /\ r.prio[u] = p /\ u \notin D \cup {t}
    BY <1>4, <2>1 DEF ReadyLists, IsList
  <2>3. ASSUME NEW u \in Task \ (D \cup {t}), r.stat[u] = "READY"
        PROVE  u \in ToSet(r.ready[r.prio[u]])
    <3>1. u \in ToSet(k.ready[k.prio[u]])  BY <2>1, <2>3 DEF ReadyLists
    <3> QED  BY <1>2, <1>4, <2>1, <2>3, <3>1
  <2> QED  BY <2>2, <2>3 DEF ReadyLists
<1>6. PendingLists(r, D \cup {t})
  BY <1>1, <1>4 DEF KernelOK, PendingLists, IsList, SameTasks
<1>7. DefunctList(r, D \cup {t})
  BY <1>1, <1>4 DEF KernelOK, DefunctList, IsList, SameTasks
<1>8. Bitmap(r)
  <2>1. \A p \in Prio \ {k.prio[t]} : r.ready[p] = k.ready[p]
    <3> TAKE p \in Prio \ {k.prio[t]}
    <3>1. t \notin ToSet(k.ready[p])  BY <1>2 DEF KernelOK, ReadyLists
    <3> QED  BY <1>1, <3>1, UnlinkAbsent
  <2>2. CASE r.ready[k.prio[t]] = <<>>
    <3>1. r.bitmap = k.bitmap \ k.mask[t]  BY <1>1, <1>2, <2>2
    <3>2. CASE k.stat[t] = "READY"
      <4>1. k.mask[t] = {k.prio[t]}  BY <3>2 DEF KernelOK, Masks
      <4> QED  BY <2>1, <2>2, <3>1, <4>1 DEF KernelOK, Bitmap
    <3>3. CASE k.stat[t] # "READY"
      <4>1. t \notin ToSet(k.ready[k.prio[t]])
        BY <1>2, <3>3 DEF KernelOK, ReadyLists
      <4>2. k.ready[k.prio[t]] = <<>>  BY <1>1, <1>2, <2>2, <4>1, UnlinkAbsent
      <4> QED  BY <2>1, <2>2, <3>1, <4>2 DEF KernelOK, Bitmap
    <3> QED  BY <3>2, <3>3
  <2>3. CASE r.ready[k.prio[t]] # <<>>
    <3>1. r.bitmap = k.bitmap  BY <1>1, <1>2, <2>3
    <3>2. k.ready[k.prio[t]] # <<>>
      <4>1. ToSet(r.ready[k.prio[t]]) # {}
        <5>1. IsList(r.ready[k.prio[t]], Task)  BY <1>2, <1>4
        <5> QED  BY <2>3, <5>1, MemberOfList
      <4> QED  BY <1>2, <1>4, <4>1, EmptyList
    <3> QED  BY <2>1, <2>3, <3>1, <3>2 DEF KernelOK, Bitmap
  <2> QED  BY <2>2, <2>3
<1>9. Masks(r) /\ TimerList(r)
  BY <1>1 DEF KernelOK, Masks, TimerList, SameTasks, SameTimers
<1>10. t \notin ToSet(k.defunct) => r.defunct = k.defunct
  BY <1>1, UnlinkAbsent
<1>11. \A o \in Obj : k.pend[o] = <<>> => r.pend[o] = <<>>
  BY <1>1, EmptyList, UnlinkAbsent
<1> QED
  BY <1>1, <1>4, <1>5, <1>6, <1>7, <1>8, <1>9, <1>10, <1>11 DEF KernelOK

(* The state of a task that is in no list may be set to anything.          *)
SetStat(k, t, s) == [k EXCEPT !.stat[t] = s]

(* Writing the state of a task that is in no ready list.                   *)
LEMMA StatOfDetached ==
    ASSUME NEW k, NEW D, KernelOK(k, D), NEW t \in Task, t \in D, NEW s \in Stat,
           s \in {"READY", "SUSPEND"} => k.mask[t] = {k.prio[t]},
           t \in ToSet(k.timers) => s = "SUSPEND",
           NEW r, r = SetStat(k, t, s)
    PROVE  /\ KernelOK(r, D)
           /\ r.stat = [k.stat EXCEPT ![t] = s]
           /\ r.prio = k.prio /\ r.mask = k.mask
           /\ SameLists(k, r) /\ SameTimers(k, r) /\ SameControl(k, r)
<1>1. k \in Kernel /\ k.stat \in [Task -> Stat]
  BY DEF KernelOK, Kernel
<1>2. r \in Kernel
  BY <1>1 DEF Kernel, SetStat
<1>3. /\ r.stat = [k.stat EXCEPT ![t] = s]
      /\ r.prio = k.prio /\ r.mask = k.mask
      /\ SameLists(k, r) /\ SameTimers(k, r) /\ SameControl(k, r)
  BY <1>1 DEF Kernel, SameLists, SameTimers, SameControl, SetStat
<1>4. /\ r.stat[t] = s
      /\ \A u \in Task \ {t} : r.stat[u] = k.stat[u]
      /\ \A u : u \notin D => u # t
  BY <1>1, <1>3
<1>5. /\ \A p \in Prio : ToSet(k.ready[p]) \subseteq Task
      /\ \A o \in Obj : ToSet(k.pend[o]) \subseteq Task
      /\ ToSet(k.defunct) \subseteq Task
  BY <1>1 DEF Kernel, ToSet
<1>6. ReadyLists(r, D)
  BY <1>3, <1>4, <1>5 DEF KernelOK, ReadyLists, SameLists
<1>7. PendingLists(r, D)
  BY <1>3, <1>4, <1>5 DEF KernelOK, PendingLists, SameLists
<1>8. DefunctList(r, D)
  BY <1>3, <1>4, <1>5 DEF KernelOK, DefunctList, SameLists
<1>9. Bitmap(r)
  BY <1>3 DEF KernelOK, Bitmap, SameLists
<1>10. Masks(r)
  BY <1>3, <1>4 DEF KernelOK, Masks
<1>11. TimerList(r)
  BY <1>3, <1>4 DEF KernelOK, TimerList, SameTimers
<1> QED  BY <1>2, <1>3, <1>6, <1>7, <1>8, <1>9, <1>10, <1>11 DEF KernelOK

(* A task that is not READY may be in no list without being held.          *)
LEMMA Release ==
    ASSUME NEW k, NEW E, KernelOK(k, E), NEW D, D \subseteq E,
           \A t \in Task : t \in E /\ t \notin D => k.stat[t] # "READY"
    PROVE  KernelOK(k, D)
<1>1. ReadyLists(k, D)
  BY DEF KernelOK, ReadyLists
<1>2. PendingLists(k, D) /\ DefunctList(k, D)
  BY DEF KernelOK, PendingLists, DefunctList
<1> QED  BY <1>1, <1>2 DEF KernelOK

(* Removing the node of a SUSPEND task only changes the pending lists.     *)
LEMMA DetachSuspended ==
    ASSUME NEW k, NEW D, KernelOK(k, D), NEW t \in Task, k.stat[t] = "SUSPEND",
           NEW r, r = TlistRemove(k, t)
    PROVE  /\ KernelOK(r, D \cup {t})
           /\ r.ready = k.ready /\ r.bitmap = k.bitmap /\ r.defunct = k.defunct
           /\ \A o \in Obj : k.pend[o] = <<>> => r.pend[o] = <<>>
           /\ SameTasks(k, r) /\ SameTimers(k, r) /\ SameControl(k, r)
<1>1. k \in Kernel /\ r \in Kernel
  BY TlistRemoveFields DEF KernelOK
<1>2. /\ r.ready = [p \in Prio |-> Unlink(k.ready[p], t)]
      /\ r.pend = [o \in Obj |-> Unlink(k.pend[o], t)]
      /\ r.defunct = Unlink(k.defunct, t)
      /\ r.bitmap = k.bitmap
  BY <1>1 DEF TlistRemove, Kernel
<1>3. SameTasks(k, r) /\ SameTimers(k, r) /\ SameControl(k, r)
  BY TlistRemoveFields
<1>4. /\ t \notin ToSet(k.defunct)
      /\ \A p \in Prio : t \notin ToSet(k.ready[p])
  BY DEF KernelOK, ReadyLists, DefunctList
<1>5. r.defunct = k.defunct
  BY <1>2, <1>4, UnlinkAbsent
<1>6. r.ready = k.ready
  <2>1. \A p \in Prio : Unlink(k.ready[p], t) = k.ready[p]
    BY <1>4, UnlinkAbsent
  <2>2. k.ready = [p \in Prio |-> k.ready[p]]
    BY <1>1 DEF Kernel
  <2> QED  BY <1>2, <2>1, <2>2
<1>7. \A o \in Obj : /\ IsInjective(r.pend[o])
                    /\ ToSet(r.pend[o]) = ToSet(k.pend[o]) \ {t}
  <2> TAKE o \in Obj
  <2>1. IsList(k.pend[o], Task)
    BY <1>1 DEF KernelOK, Kernel, PendingLists, IsList
  <2>2. r.pend[o] = Unlink(k.pend[o], t)
    BY <1>2
  <2> QED  BY <2>1, <2>2, UnlinkList DEF IsList
<1>8. \A o \in Obj : k.pend[o] = <<>> => r.pend[o] = <<>>
  BY <1>2, EmptyList, UnlinkAbsent
<1>9. ReadyLists(r, D \cup {t})
  BY <1>3, <1>4, <1>6 DEF KernelOK, ReadyLists, SameTasks
<1>10. PendingLists(r, D \cup {t})
  BY <1>3, <1>7 DEF KernelOK, PendingLists, SameTasks
<1>11. DefunctList(r, D \cup {t})
  BY <1>3, <1>4, <1>5 DEF KernelOK, DefunctList, SameTasks
<1>12. Bitmap(r) /\ Masks(r) /\ TimerList(r)
  BY <1>2, <1>3, <1>6
     DEF KernelOK, Bitmap, Masks, TimerList, SameTasks, SameTimers
<1> QED
  BY <1>1, <1>2, <1>3, <1>5, <1>6, <1>8, <1>9, <1>10, <1>11, <1>12 DEF KernelOK

(* os_sched_insert of a task that is in no list and has no timeout.        *)
LEMMA Attach ==
    ASSUME NEW k, NEW D, KernelOK(k, D), NEW t \in Task, t \in D,
           k.mask[t] = {k.prio[t]}, t \notin ToSet(k.timers),
           NEW r, r = SchedInsert(k, t)
    PROVE  /\ KernelOK(r, D \ {t})
           /\ r.stat = [k.stat EXCEPT ![t] = "READY"]
           /\ r.prio = k.prio /\ r.mask = k.mask
           /\ r.pend = k.pend /\ r.defunct = k.defunct
           /\ SameTimers(k, r) /\ SameControl(k, r)
<1> DEFINE p == k.prio[t]
           s == Append(k.ready[p], t)
           b == k.bitmap \cup k.mask[t]
<1>1. k \in Kernel /\ p \in Prio /\ k.ready \in [Prio -> Seq(Task)]
  BY DEF KernelOK, Kernel
<1>2. IsList(k.ready[p], Task) /\ t \notin ToSet(k.ready[p])
  BY <1>1 DEF KernelOK, ReadyLists, IsList
<1>3. IsList(s, Task) /\ ToSet(s) = ToSet(k.ready[p]) \cup {t} /\ s # <<>>
  BY <1>2, AppendList
<1>4. b = k.bitmap \cup {p} /\ b \in SUBSET Prio
  BY <1>1 DEF Kernel
<1>5. r = [k EXCEPT !.stat[t] = "READY", !.ready[p] = s, !.bitmap = b]
  BY <1>1 DEF SchedInsert, Kernel
<1>6. s \in Seq(Task)
  BY <1>3 DEF IsList
<1> HIDE DEF s, b, p
<1>7. r \in Kernel
  <2> DEFINE f == [k.stat EXCEPT ![t] = "READY"]
             g == [k.ready EXCEPT ![p] = s]
  <2>1. r = [k EXCEPT !.stat = f, !.ready = g, !.bitmap = b]
    BY <1>1, <1>5 DEF Kernel
  <2>2. f \in [Task -> Stat] /\ g \in [Prio -> Seq(Task)]
    BY <1>1, <1>6 DEF Kernel, Stat
  <2> HIDE DEF f, g
  <2> QED  BY <1>1, <1>4, <2>1, <2>2 DEF Kernel
<1>8. /\ r.stat = [k.stat EXCEPT ![t] = "READY"]
      /\ r.ready = [k.ready EXCEPT ![p] = s] /\ r.bitmap = b
      /\ r.prio = k.prio /\ r.mask = k.mask
      /\ r.pend = k.pend /\ r.defunct = k.defunct
      /\ SameTimers(k, r) /\ SameControl(k, r)
  BY <1>1, <1>5 DEF Kernel, SameTimers, SameControl
<1>9. /\ r.stat[t] = "READY" /\ r.ready[p] = s /\ p = r.prio[t]
      /\ \A u \in Task \ {t} : r.stat[u] = k.stat[u]
      /\ \A q \in Prio \ {p} : r.ready[q] = k.ready[q]
      /\ \A u \in Task : r.prio[u] \in Prio
  BY <1>1, <1>8 DEF Kernel, p
<1>10. /\ \A q \in Prio : ToSet(k.ready[q]) \subseteq Task
       /\ \A o \in Obj : ToSet(k.pend[o]) \subseteq Task
       /\ ToSet(k.defunct) \subseteq Task
  BY <1>1 DEF Kernel, ToSet
<1>11. ReadyLists(r, D \ {t})
  <2>1. ReadyLists(k, D) /\ r.prio = k.prio
    BY <1>8 DEF KernelOK
  <2>2. ASSUME NEW q \in Prio
        PROVE  /\ IsInjective(r.ready[q])
               /\ \A u \in ToSet(r.ready[q]) :
                     r.stat[u] = "READY" /\ r.prio[u] = q /\ u \notin D \ {t}
    <3>1. CASE q = p  BY <3>1, <1>3, <1>9, <1>10, <2>1 DEF ReadyLists, IsList
    <3>2. CASE q # p
      <4>1. r.ready[q] = k.ready[q] /\ t \notin ToSet(k.ready[q])
        BY <3>2, <1>9, <2>1 DEF ReadyLists
      <4> QED  BY <4>1, <1>9, <1>10, <2>1 DEF ReadyLists
    <3> QED  BY <3>1, <3>2
  <2>3. ASSUME NEW u \in Task \ (D \ {t}), r.stat[u] = "READY"
        PROVE  u \in ToSet(r.ready[r.prio[u]])
    <3>1. CASE u = t  BY <3>1, <1>3, <1>9
    <3>2. CASE u # t
      <4>1. u \in ToSet(k.ready[k.prio[u]])
        BY <3>2, <1>9, <2>1, <2>3 DEF ReadyLists
      <4> QED  BY <4>1, <1>3, <1>9, <2>1
    <3> QED  BY <3>1, <3>2
  <2> QED  BY <2>2, <2>3 DEF ReadyLists
<1>12. PendingLists(r, D \ {t}) /\ DefunctList(r, D \ {t})
  BY <1>8, <1>9, <1>10 DEF KernelOK, PendingLists, DefunctList
<1>13. Bitmap(r)
  BY <1>1, <1>3, <1>4, <1>8, <1>9 DEF KernelOK, Bitmap
<1>14. Masks(r)
  BY <1>8, <1>9 DEF KernelOK, Masks
<1>15. TimerList(r)
  BY <1>8, <1>9 DEF KernelOK, TimerList, SameTimers
<1> QED  BY <1>7, <1>8, <1>11, <1>12, <1>13, <1>14, <1>15 DEF KernelOK

-----------------------------------------------------------------------------
(* Timers *)

(* A step that touches neither lists nor states keeps what concerns them.  *)
LEMMA ListsKept ==
    ASSUME NEW k, NEW D, KernelOK(k, D), NEW r \in Kernel,
           SameLists(k, r), SameTasks(k, r), TimerList(r)
    PROVE  KernelOK(r, D)
BY DEF KernelOK, SameLists, SameTasks, ReadyLists, PendingLists, DefunctList,
       Bitmap, Masks

(* os_timer_stop of a timer.                                               *)
LEMMA TimerStopOK ==
    ASSUME NEW k, NEW D, KernelOK(k, D), NEW t \in Task,
           NEW r, r = TimerStop(k, t)
    PROVE  /\ KernelOK(r, D)
           /\ ToSet(r.timers) = ToSet(k.timers) \ {t}
           /\ r.act = k.act \ {t}
           /\ t \notin k.act => r.timers = k.timers
           /\ SameLists(k, r) /\ SameTasks(k, r) /\ SameControl(k, r)
<1>1. k \in Kernel /\ IsList(k.timers, Timer)
  BY DEF KernelOK, Kernel, TimerList, IsList
<1> DEFINE s == Unlink(k.timers, t)
           a == k.act \ {t}
<1>2. IsList(s, Timer) /\ ToSet(s) = ToSet(k.timers) \ {t}
  BY <1>1, UnlinkList
<1>3. s \in Seq(Timer) /\ a \in SUBSET Timer
  BY <1>1, <1>2 DEF IsList, Kernel
<1>4. CASE t \in k.act
  <2>1. r = [k EXCEPT !.timers = s, !.act = a]
    BY <1>1, <1>4 DEF TimerStop, Kernel
  <2> HIDE DEF s
  <2>2. r \in Kernel  BY <1>1, <1>3, <2>1 DEF Kernel
  <2>3. /\ r.timers = s /\ r.act = a
        /\ SameLists(k, r) /\ SameTasks(k, r) /\ SameControl(k, r)
    BY <1>1, <2>1 DEF Kernel, SameLists, SameTasks, SameControl
  <2>4. TimerList(r)
    BY <1>2, <2>3 DEF KernelOK, TimerList, IsList, SameTasks
  <2> QED  BY <1>2, <1>4, <2>2, <2>3, <2>4, ListsKept
<1>5. CASE t \notin k.act
  <2>1. r = k  BY <1>5 DEF TimerStop
  <2>2. t \notin ToSet(k.timers)  BY <1>5 DEF KernelOK, TimerList
  <2> QED
    BY <1>5, <2>1, <2>2 DEF SameLists, SameTasks, SameControl
<1> QED  BY <1>4, <1>5

(* os_timer_delete of the timer of a task.                                 *)
LEMMA TimerDeleteOK ==
    ASSUME NEW k, NEW D, KernelOK(k, D), NEW t \in Task,
           NEW r, r = TimerDelete(k, t)
    PROVE  /\ KernelOK(r, D)
           /\ ToSet(r.timers) = ToSet(k.timers) \ {t}
           /\ t \notin ToSet(k.timers) => r.timers = k.timers
           /\ r.act = k.act
           /\ SameLists(k, r) /\ SameTasks(k, r) /\ SameControl(k, r)
<1>1. k \in Kernel /\ IsList(k.timers, Timer)
  BY DEF KernelOK, Kernel, TimerList, IsList
<1> DEFINE s == Unlink(k.timers, t)
<1>2. IsList(s, Timer) /\ ToSet(s) = ToSet(k.timers) \ {t}
  BY <1>1, UnlinkList
<1>3. t \notin ToSet(k.timers) => s = k.timers
  BY UnlinkAbsent
<1>4. r = [k EXCEPT !.timers = s]
  BY <1>1 DEF TimerDelete, Kernel
<1>5. s \in Seq(Timer)
  BY <1>2 DEF IsList
<1> HIDE DEF s
<1>6. r \in Kernel
  BY <1>1, <1>4, <1>5 DEF Kernel
<1>7. /\ r.timers = s /\ r.act = k.act
      /\ SameLists(k, r) /\ SameTasks(k, r) /\ SameControl(k, r)
  BY <1>1, <1>4 DEF Kernel, SameLists, SameTasks, SameControl
<1>8. TimerList(r)
  BY <1>2, <1>7 DEF KernelOK, TimerList, IsList, SameTasks
<1> QED  BY <1>2, <1>3, <1>6, <1>7, <1>8, ListsKept

(* os_timer_start; a task's own timer is started when it is suspended.     *)
LEMMA TimerStartOK ==
    ASSUME NEW k, NEW D, KernelOK(k, D), NEW x \in Timer, NEW d \in Nat,
           x \in Task => k.stat[x] = "SUSPEND",
           NEW r, r = TimerStart(k, x, d)
    PROVE  /\ KernelOK(r, D)
           /\ ToSet(r.timers) = ToSet(k.timers) \cup {x}
           /\ r.act = k.act \cup {x}
           /\ SameLists(k, r) /\ SameTasks(k, r) /\ SameControl(k, r)
<1>1. k \in Kernel /\ IsList(k.timers, Timer)
  BY DEF KernelOK, Kernel, TimerList, IsList
<1> DEFINE u == Unlink(k.timers, x)
           i == FirstIn(u, DueAfter(k, d))
           s == InsertAt(u, i, x)
           a == k.act \cup {x}
<1>2. IsList(u, Timer) /\ ToSet(u) = ToSet(k.timers) \ {x}
  BY <1>1, UnlinkList
<1>3. r = [k EXCEPT !.timers = s, !.left[x] = d, !.act = a]
  BY <1>1 DEF TimerStart, Kernel
<1>4. i \in 1..Len(u) + 1
  BY <1>2, FirstInExists DEF IsList
<1> HIDE DEF u, i
<1>5. IsList(s, Timer) /\ ToSet(s) = ToSet(u) \cup {x}
  BY <1>2, <1>4, InsertAtList
<1>6. s \in Seq(Timer) /\ a \in SUBSET Timer
  BY <1>1, <1>5 DEF IsList, Kernel
<1> HIDE DEF s
<1>7. r \in Kernel
  <2> DEFINE l == [k.left EXCEPT ![x] = d]
  <2>1. r = [k EXCEPT !.timers = s, !.left = l, !.act = a]
    BY <1>1, <1>3 DEF Kernel
  <2>2. l \in [Timer -> Nat \cup {Overdue}]
    BY <1>1 DEF Kernel
  <2> HIDE DEF l, a
  <2> QED  BY <1>1, <1>6, <2>1, <2>2 DEF Kernel
<1>8. /\ r.timers = s /\ r.act = a
      /\ SameLists(k, r) /\ SameTasks(k, r) /\ SameControl(k, r)
  BY <1>1, <1>3 DEF Kernel, SameLists, SameTasks, SameControl
<1>9. TimerList(r)
  BY <1>2, <1>5, <1>8 DEF KernelOK, TimerList, IsList, SameTasks
<1> QED  BY <1>2, <1>5, <1>7, <1>8, <1>9, ListsKept

-----------------------------------------------------------------------------
(* The choice of the next task *)

(* While the idle task is READY, os_sched finds a READY task that nobody   *)
(* holds, and none is more urgent.                                         *)
LEMMA SchedHeadOK ==
    ASSUME NEW k, NEW D, KernelOK(k, D), k.stat[Idle] = "READY", Idle \notin D
    PROVE  /\ SchedHead(k) \in Task /\ SchedHead(k) \notin D
           /\ k.stat[SchedHead(k)] = "READY"
           /\ \A u \in Task : u \notin D /\ k.stat[u] = "READY"
                               => k.prio[SchedHead(k)] <= k.prio[u]
<1> DEFINE h == HighestReady(k)
<1>1. /\ k \in Kernel /\ Idle \in Task /\ Prio \subseteq Nat
      /\ \A t \in Task : k.prio[t] \in Prio
  BY KernelAssumption DEF KernelOK, Kernel
<1>2. \A p \in Prio : IsList(k.ready[p], Task)
  BY <1>1 DEF KernelOK, Kernel, ReadyLists, IsList
<1>3. \A u \in Task : u \notin D /\ k.stat[u] = "READY" => k.prio[u] \in k.bitmap
  <2> SUFFICES ASSUME NEW u \in Task, u \notin D, k.stat[u] = "READY"
               PROVE  k.prio[u] \in k.bitmap
    OBVIOUS
  <2>1. u \in ToSet(k.ready[k.prio[u]])  BY DEF KernelOK, ReadyLists
  <2>2. k.ready[k.prio[u]] # <<>>  BY <2>1, EmptyList
  <2> QED  BY <1>1, <2>2 DEF KernelOK, Bitmap
<1>4. k.bitmap \subseteq Nat /\ k.bitmap # {}
  BY <1>1, <1>3 DEF Kernel
<1>5. \E p \in k.bitmap : \A q \in k.bitmap : p <= q
  BY <1>4, LeastNatural
<1>6. h \in k.bitmap /\ \A q \in k.bitmap : h <= q
  BY <1>5 DEF HighestReady
<1>7. h \in Prio /\ k.ready[h] # <<>>
  BY <1>6 DEF KernelOK, Bitmap
<1>8. SchedHead(k) = k.ready[h][1]
  BY DEF SchedHead
<1> HIDE DEF h
<1>9. SchedHead(k) \in ToSet(k.ready[h]) /\ ToSet(k.ready[h]) \subseteq Task
  <2>1. IsList(k.ready[h], Task)  BY <1>2, <1>7
  <2> QED  BY <1>7, <1>8, <2>1, MemberOfList
<1>10. /\ k.stat[SchedHead(k)] = "READY" /\ k.prio[SchedHead(k)] = h
       /\ SchedHead(k) \notin D
  BY <1>7, <1>9 DEF KernelOK, ReadyLists
<1> QED  BY <1>3, <1>6, <1>9, <1>10

(* os_sched keeps the agreement of lists, bitmap and timers.               *)
LEMMA SchedOK ==
    ASSUME NEW k, NEW D, KernelOK(k, D), k.stat[Idle] = "READY", Idle \notin D,
           NEW r, r = Sched(k)
    PROVE  /\ KernelOK(r, D)
           /\ SameLists(k, r) /\ SameTasks(k, r) /\ SameTimers(k, r)
           /\ r.lock = k.lock /\ r.isr = k.isr /\ r.n = k.n
           /\ k.lock # 0 => r.cur = k.cur
           /\ k.lock = 0 =>
                 /\ r.cur \in Task /\ r.cur \notin D /\ k.stat[r.cur] = "READY"
                 /\ \A u \in Task : u \notin D /\ k.stat[u] = "READY"
                                     => k.prio[r.cur] <= k.prio[u]
<1> DEFINE h == SchedHead(k)
<1>1. k \in Kernel
  BY DEF KernelOK
<1>2. /\ h \in Task /\ h \notin D /\ k.stat[h] = "READY"
      /\ \A u \in Task : u \notin D /\ k.stat[u] = "READY" => k.prio[h] <= k.prio[u]
  BY SchedHeadOK
<1>3. r = IF k.lock = 0 THEN [k EXCEPT !.cur = h] ELSE k
  BY DEF Sched
<1> HIDE DEF h
<1>4. CASE k.lock = 0
  <2>1. r = [k EXCEPT !.cur = h]  BY <1>3, <1>4
  <2>2. r \in Kernel  BY <1>1, <1>2, <2>1 DEF Kernel
  <2>3. /\ SameLists(k, r) /\ SameTasks(k, r) /\ SameTimers(k, r)
        /\ r.lock = k.lock /\ r.isr = k.isr /\ r.n = k.n /\ r.cur = h
    BY <1>1, <2>1 DEF Kernel, SameLists, SameTasks, SameTimers
  <2>4. TimerList(r)
    BY <2>3 DEF KernelOK, TimerList, SameTasks, SameTimers
  <2> QED  BY <1>2, <1>4, <2>2, <2>3, <2>4, ListsKept
<1>5. CASE k.lock # 0
  BY <1>3, <1>5 DEF SameLists, SameTasks, SameTimers
<1> QED  BY <1>4, <1>5

(* The current task goes to the end of its level. *)
LEMMA RotateOK ==
    ASSUME NEW k, NEW D, KernelOK(k, D), k.cur \in Task, k.cur \notin D,
           k.stat[k.cur] = "READY", NEW r, r = Rotate(k)
    PROVE  /\ KernelOK(r, D)
           /\ r.defunct = k.defunct /\ r.pend = k.pend
           /\ SameTasks(k, r) /\ SameTimers(k, r) /\ SameControl(k, r)
<1> DEFINE t == k.cur
           p == k.prio[t]
           u == Unlink(k.ready[p], t)
           s == Append(u, t)
<1>1. k \in Kernel /\ p \in Prio /\ k.ready \in [Prio -> Seq(Task)]
  BY DEF KernelOK, Kernel
<1>2. IsList(k.ready[p], Task) /\ t \in ToSet(k.ready[p])
  BY <1>1 DEF KernelOK, ReadyLists, IsList
<1>3. IsList(u, Task) /\ ToSet(u) = ToSet(k.ready[p]) \ {t}
  BY <1>2, UnlinkList
<1> HIDE DEF u
<1>4. IsList(s, Task) /\ ToSet(s) = ToSet(u) \cup {t} /\ s # <<>>
  BY <1>3, AppendList
<1>5. ToSet(s) = ToSet(k.ready[p]) /\ s \in Seq(Task)
  BY <1>2, <1>3, <1>4 DEF IsList
<1> DEFINE g == [k.ready EXCEPT ![p] = s]
<1>6. r = [k EXCEPT !.ready = g]
  BY <1>1 DEF Rotate, Kernel, u
<1> HIDE DEF s
<1>7. g \in [Prio -> Seq(Task)]
  BY <1>1, <1>5
<1>8. g[p] = s /\ \A q \in Prio \ {p} : g[q] = k.ready[q]
  BY <1>1
<1> HIDE DEF g, p, t
<1>9. r \in Kernel
  BY <1>1, <1>6, <1>7 DEF Kernel
<1>10. /\ r.ready = g /\ r.defunct = k.defunct /\ r.pend = k.pend
       /\ r.bitmap = k.bitmap
       /\ SameTasks(k, r) /\ SameTimers(k, r) /\ SameControl(k, r)
  BY <1>1, <1>6 DEF Kernel, SameTasks, SameTimers, SameControl
<1>11. \A q \in Prio : /\ IsInjective(g[q]) /\ ToSet(g[q]) = ToSet(k.ready[q])
                       /\ g[q] = <<>> <=> k.ready[q] = <<>>
  <2>1. k.ready[p] # <<>>  BY <1>2, EmptyList
  <2> QED  BY <1>4, <1>5, <1>8, <2>1 DEF KernelOK, ReadyLists, IsList
<1>12. ReadyLists(r, D)
  BY <1>1, <1>10, <1>11 DEF KernelOK, Kernel, ReadyLists, SameTasks
<1>13. /\ PendingLists(r, D) /\ DefunctList(r, D)
       /\ Masks(r) /\ TimerList(r)
  BY <1>10 DEF KernelOK, PendingLists, DefunctList, Masks, TimerList, SameTasks,
               SameTimers
<1>14. Bitmap(r)
  BY <1>10, <1>11 DEF KernelOK, Bitmap
<1> QED  BY <1>9, <1>10, <1>12, <1>13, <1>14 DEF KernelOK

(* os_task_yield, called by the clock interrupt too: in the first case the *)
(* task stays, in the second os_sched has chosen.                          *)
LEMMA YieldOK ==
    ASSUME NEW k, NEW D, KernelOK(k, D), k.stat[Idle] = "READY", Idle \notin D,
           k.cur \in Task, k.cur \notin D, NEW r, r = Yield(k)
    PROVE  /\ KernelOK(r, D)
           /\ r.defunct = k.defunct /\ r.pend = k.pend
           /\ SameTasks(k, r) /\ SameTimers(k, r)
           /\ r.lock = k.lock /\ r.isr = k.isr /\ r.n = k.n
           /\ r.cur = k.cur
              \/ /\ k.lock = 0 /\ r.cur \in Task /\ r.cur \notin D
                 /\ k.stat[r.cur] = "READY"
                 /\ \A u \in Task : u \notin D /\ k.stat[u] = "READY"
                                     => k.prio[r.cur] <= k.prio[u]
<1>1. CASE Shares(k)
  <2> DEFINE q == Rotate(k)
  <2>1. k.stat[k.cur] = "READY" /\ r = Sched(q)
    BY <1>1 DEF Shares, Yield
  <2>2. /\ KernelOK(q, D)
        /\ q.defunct = k.defunct /\ q.pend = k.pend
        /\ SameTasks(k, q) /\ SameTimers(k, q) /\ SameControl(k, q)
    BY <2>1, RotateOK
  <2> HIDE DEF q
  <2>3. q.stat[Idle] = "READY"
    BY <2>2 DEF SameTasks
  <2>4. /\ KernelOK(r, D)
        /\ SameLists(q, r) /\ SameTasks(q, r) /\ SameTimers(q, r)
        /\ r.lock = q.lock /\ r.isr = q.isr /\ r.n = q.n
        /\ q.lock # 0 => r.cur = q.cur
        /\ q.lock = 0 =>
              /\ r.cur \in Task /\ r.cur \notin D /\ q.stat[r.cur] = "READY"
              /\ \A u \in Task : u \notin D /\ q.stat[u] = "READY"
                                  => q.prio[r.cur] <= q.prio[u]
    BY <2>1, <2>2, <2>3, SchedOK
  <2> QED
    BY <2>2, <2>4 DEF SameLists, SameTasks, SameTimers, SameControl
<1>2. CASE ~Shares(k)
  BY <1>2 DEF Yield, SameTasks, SameTimers
<1> QED  BY <1>1, <1>2

-----------------------------------------------------------------------------
(* The clock interrupt *)

(* A step that changes none of the lists and states.                       *)
LEMMA AllKept ==
    ASSUME NEW k, NEW D, KernelOK(k, D), NEW r \in Kernel,
           SameLists(k, r), SameTasks(k, r), SameTimers(k, r)
    PROVE  KernelOK(r, D)
<1>1. TimerList(r)
  BY DEF KernelOK, TimerList, SameTasks, SameTimers
<1> QED  BY <1>1, ListsKept

(* A tick brings every linked timer nearer to its end.                     *)
LEMMA ElapseOK ==
    ASSUME NEW k, NEW D, KernelOK(k, D), NEW r, r = Elapse(k)
    PROVE  /\ KernelOK(r, D)
           /\ SameLists(k, r) /\ SameTasks(k, r) /\ SameTimers(k, r)
           /\ SameControl(k, r)
<1> DEFINE l == [x \in Timer |->
                    IF x \notin ToSet(k.timers) THEN 0
                    ELSE IF k.left[x] = Overdue THEN k.left[x] ELSE k.left[x] - 1]
<1>1. k \in Kernel /\ k.left \in [Timer -> Nat \cup {Overdue}]
  BY DEF KernelOK, Kernel
<1>2. l \in [Timer -> Nat \cup {Overdue}]
  BY <1>1 DEF Overdue
<1>3. r = [k EXCEPT !.left = l]
  BY <1>1 DEF Elapse, Kernel
<1> HIDE DEF l
<1>4. r \in Kernel
  BY <1>1, <1>2, <1>3 DEF Kernel
<1>5. /\ SameLists(k, r) /\ SameTasks(k, r) /\ SameTimers(k, r)
      /\ SameControl(k, r)
  BY <1>1, <1>3 DEF Kernel, SameLists, SameTasks, SameTimers, SameControl
<1> QED  BY <1>4, <1>5, AllKept

(* Writing remaining_tick of a task.                                       *)
LEMMA RemOK ==
    ASSUME NEW k, NEW D, KernelOK(k, D), NEW t \in Task, NEW m \in Nat \ {0},
           NEW r, r = [k EXCEPT !.rem[t] = m]
    PROVE  /\ KernelOK(r, D)
           /\ SameLists(k, r) /\ SameTasks(k, r) /\ SameTimers(k, r)
           /\ SameControl(k, r)
<1>1. k \in Kernel
  BY DEF KernelOK
<1> DEFINE f == [k.rem EXCEPT ![t] = m]
<1>2. f \in [Task -> Nat \ {0}]
  BY <1>1 DEF Kernel
<1>3. r = [k EXCEPT !.rem = f]
  BY <1>1 DEF Kernel
<1> HIDE DEF f
<1>4. r \in Kernel
  BY <1>1, <1>2, <1>3 DEF Kernel
<1>5. /\ SameLists(k, r) /\ SameTasks(k, r) /\ SameTimers(k, r)
      /\ SameControl(k, r)
  BY <1>1, <1>3 DEF Kernel, SameLists, SameTasks, SameTimers, SameControl
<1> QED  BY <1>4, <1>5, AllKept

(* A tick of the slice; a slice that is used up sends the task to the end  *)
(* of its list and calls os_sched.                                         *)
LEMMA ChargeOK ==
    ASSUME NEW k, NEW D, KernelOK(k, D), k.stat[Idle] = "READY", Idle \notin D,
           k.cur \in Task, k.cur \notin D, NEW r, r = Charge(k)
    PROVE  /\ KernelOK(r, D)
           /\ r.defunct = k.defunct /\ r.pend = k.pend
           /\ SameTasks(k, r) /\ SameTimers(k, r)
           /\ r.lock = k.lock /\ r.isr = k.isr /\ r.n = k.n
           /\ r.cur = k.cur
              \/ /\ k.lock = 0 /\ r.cur \in Task /\ r.cur \notin D
                 /\ k.stat[r.cur] = "READY"
                 /\ \A u \in Task : u \notin D /\ k.stat[u] = "READY"
                                     => k.prio[r.cur] <= k.prio[u]
<1>1. k \in Kernel /\ k.rem[k.cur] \in Nat \ {0} /\ Slice[k.cur] \in Nat \ {0}
  BY KernelAssumption DEF KernelOK, Kernel
<1>2. CASE k.rem[k.cur] = 1
  <2> DEFINE q == [k EXCEPT !.rem[k.cur] = Slice[k.cur]]
  <2>1. r = Yield(q)
    BY <1>2 DEF Charge
  <2>2. /\ KernelOK(q, D)
        /\ SameLists(k, q) /\ SameTasks(k, q) /\ SameTimers(k, q)
        /\ SameControl(k, q)
    BY <1>1, RemOK
  <2> HIDE DEF q
  <2>3. q.cur = k.cur /\ q.stat = k.stat /\ q.prio = k.prio /\ q.lock = k.lock
    BY <2>2 DEF SameTasks, SameControl
  <2>4. /\ KernelOK(r, D)
        /\ r.defunct = q.defunct /\ r.pend = q.pend
        /\ SameTasks(q, r) /\ SameTimers(q, r)
        /\ r.lock = q.lock /\ r.isr = q.isr /\ r.n = q.n
        /\ r.cur = q.cur
           \/ /\ q.lock = 0 /\ r.cur \in Task /\ r.cur \notin D
              /\ q.stat[r.cur] = "READY"
              /\ \A u \in Task : u \notin D /\ q.stat[u] = "READY"
                                  => q.prio[r.cur] <= q.prio[u]
    BY <2>1, <2>2, <2>3, YieldOK
  <2> QED
    BY <2>2, <2>3, <2>4 DEF SameLists, SameTasks, SameTimers, SameControl
<1>3. CASE k.rem[k.cur] # 1
  <2>1. r = [k EXCEPT !.rem[k.cur] = k.rem[k.cur] - 1]
    BY <1>1, <1>3 DEF Charge, Kernel
  <2>2. k.rem[k.cur] - 1 \in Nat \ {0}
    BY <1>1, <1>3
  <2>3. /\ KernelOK(r, D)
        /\ SameLists(k, r) /\ SameTasks(k, r) /\ SameTimers(k, r)
        /\ SameControl(k, r)
    BY <2>1, <2>2, RemOK
  <2> QED  BY <2>3 DEF SameLists, SameControl
<1> QED  BY <1>2, <1>3

(* os_tick_increase as a whole.                                            *)
LEMMA TickIncreaseOK ==
    ASSUME NEW k, NEW D, KernelOK(k, D), k.stat[Idle] = "READY", Idle \notin D,
           k.cur \in Task, k.cur \notin D, NEW r, r = TickIncrease(k)
    PROVE  /\ KernelOK(r, D)
           /\ r.defunct = k.defunct /\ r.pend = k.pend
           /\ SameTasks(k, r) /\ SameTimers(k, r)
           /\ r.lock = k.lock /\ r.isr = 1
           /\ r.n = ListHead \/ r.n \in ToSet(k.timers)
           /\ r.cur = k.cur
              \/ /\ k.lock = 0 /\ r.cur \in Task /\ r.cur \notin D
                 /\ k.stat[r.cur] = "READY"
                 /\ \A u \in Task : u \notin D /\ k.stat[u] = "READY"
                                     => k.prio[r.cur] <= k.prio[u]
<1> DEFINE e == Elapse(k)
           q == Charge(e)
           m == IF k.timers = <<>> THEN ListHead ELSE k.timers[1]
<1>1. /\ KernelOK(e, D)
      /\ SameLists(k, e) /\ SameTasks(k, e) /\ SameTimers(k, e)
      /\ SameControl(k, e)
  BY ElapseOK
<1>2. r = [q EXCEPT !.isr = 1, !.n = m]
  BY DEF TickIncrease
<1> HIDE DEF e
<1>3. e.cur = k.cur /\ e.stat = k.stat /\ e.prio = k.prio /\ e.lock = k.lock
  BY <1>1 DEF SameTasks, SameControl
<1>4. /\ KernelOK(q, D)
      /\ q.defunct = e.defunct /\ q.pend = e.pend
      /\ SameTasks(e, q) /\ SameTimers(e, q)
      /\ q.lock = e.lock /\ q.isr = e.isr /\ q.n = e.n
      /\ q.cur = e.cur
         \/ /\ e.lock = 0 /\ q.cur \in Task /\ q.cur \notin D
            /\ e.stat[q.cur] = "READY"
            /\ \A u \in Task : u \notin D /\ e.stat[u] = "READY"
                                => e.prio[q.cur] <= e.prio[u]
  BY <1>1, <1>3, ChargeOK
<1> HIDE DEF q
<1>5. m = ListHead \/ m \in ToSet(k.timers)
  <2>1. IsList(k.timers, Timer)  BY DEF KernelOK, Kernel, TimerList, IsList
  <2> QED  BY <2>1, MemberOfList
<1>6. m \in Timer \cup {ListHead}
  <2>1. ToSet(k.timers) \subseteq Timer  BY DEF KernelOK, Kernel, ToSet
  <2> QED  BY <1>5, <2>1
<1> HIDE DEF m
<1>7. r \in Kernel
  <2> DEFINE one == 1
  <2>1. q \in Kernel /\ one \in 0..1 /\ r = [q EXCEPT !.isr = one, !.n = m]
    BY <1>2, <1>4 DEF KernelOK
  <2> HIDE DEF one
  <2> QED  BY <1>6, <2>1 DEF Kernel
<1>8. /\ SameLists(q, r) /\ SameTasks(q, r) /\ SameTimers(q, r)
      /\ r.cur = q.cur /\ r.lock = q.lock /\ r.isr = 1 /\ r.n = m
  BY <1>2, <1>4 DEF KernelOK, Kernel, SameLists, SameTasks, SameTimers
<1>9. KernelOK(r, D)
  BY <1>4, <1>7, <1>8, AllKept
<1> QED
  BY <1>1, <1>3, <1>4, <1>5, <1>8, <1>9
     DEF SameLists, SameTasks, SameTimers, SameControl

-----------------------------------------------------------------------------
(* os_task.c *)

(* The state of a task may be stored before its node is removed or after.  *)
LEMMA StatBeforeRemove ==
    ASSUME NEW k \in Kernel, NEW t \in Task, NEW s \in Stat
    PROVE  SchedRemove([k EXCEPT !.stat[t] = s], t)
             = [SchedRemove(k, t) EXCEPT !.stat[t] = s]
<1> DEFINE a == [k EXCEPT !.stat[t] = s]
           x == [p \in Prio |-> Unlink(k.ready[p], t)]
           y == [o \in Obj |-> Unlink(k.pend[o], t)]
           z == Unlink(k.defunct, t)
           b == k.bitmap \ k.mask[t]
           q == TlistRemove(k, t)
           c == TlistRemove(a, t)
<1>1. q = [k EXCEPT !.ready = x, !.pend = y, !.defunct = z]
  BY DEF TlistRemove, Kernel
<1>2. c = [a EXCEPT !.ready = x, !.pend = y, !.defunct = z]
  <2>1. a.ready = k.ready /\ a.pend = k.pend /\ a.defunct = k.defunct
    BY DEF Kernel
  <2> HIDE DEF a
  <2> QED  BY <2>1 DEF TlistRemove
<1> HIDE DEF x, y, z
<1>3. c = [q EXCEPT !.stat[t] = s]
  BY <1>1, <1>2 DEF Kernel
<1>4. SchedRemove(k, t) = IF q.ready[k.prio[t]] = <<>>
                          THEN [q EXCEPT !.bitmap = b] ELSE q
  BY <1>1 DEF SchedRemove, Kernel
<1>5. SchedRemove(a, t) = IF c.ready[k.prio[t]] = <<>>
                          THEN [c EXCEPT !.bitmap = b] ELSE c
  <2>1. a.prio = k.prio /\ a.mask = k.mask /\ c.bitmap = k.bitmap
    BY <1>2 DEF Kernel
  <2> HIDE DEF a, c
  <2>2. SchedRemove(a, t) = IF c.ready[k.prio[t]] = <<>>
                            THEN [c EXCEPT !.bitmap = c.bitmap \ k.mask[t]] ELSE c
    BY <2>1 DEF SchedRemove, c
  <2> QED  BY <2>1, <2>2
<1> HIDE DEF c, q, a, b
<1>6. c.ready = q.ready
  BY <1>1, <1>3 DEF Kernel
<1> SUFFICES SchedRemove(a, t) = [SchedRemove(k, t) EXCEPT !.stat[t] = s]
  BY DEF a
<1>7. CASE q.ready[k.prio[t]] = <<>>
  <2>1. SchedRemove(a, t) = [[q EXCEPT !.stat[t] = s] EXCEPT !.bitmap = b]
    BY <1>3, <1>5, <1>6, <1>7
  <2>2. SchedRemove(k, t) = [q EXCEPT !.bitmap = b]
    BY <1>4, <1>7
  <2>3. [[q EXCEPT !.stat[t] = s] EXCEPT !.bitmap = b]
          = [[q EXCEPT !.bitmap = b] EXCEPT !.stat[t] = s]
    BY <1>1 DEF Kernel
  <2> QED  BY <2>1, <2>2, <2>3
<1>8. CASE q.ready[k.prio[t]] # <<>>
  BY <1>3, <1>4, <1>5, <1>6, <1>8
<1> QED  BY <1>7, <1>8

(* os_task_suspend of a READY task, or of one that meanwhile waits. *)
LEMMA SuspendReadyOK ==
    ASSUME NEW k, NEW D, KernelOK(k, D), NEW t \in Task, t \notin D,
           k.stat[t] \in {"READY", "SUSPEND"}, NEW r, r = SuspendReady(k, t)
    PROVE  /\ KernelOK(r, D)
           /\ r.stat = [k.stat EXCEPT ![t] = "SUSPEND"]
           /\ r.prio = k.prio /\ r.mask = k.mask /\ r.defunct = k.defunct
           /\ ToSet(r.timers) = ToSet(k.timers) \ {t} /\ r.act = k.act \ {t}
           /\ SameControl(k, r)
<1> DEFINE q == SchedRemove(k, t)
           s == "SUSPEND"
           b == SetStat(q, t, s)
           E == D \cup {t}
<1>1. k \in Kernel /\ s \in Stat /\ k.mask[t] = {k.prio[t]}
  BY DEF KernelOK, Masks, Stat
<1>2. t \notin ToSet(k.defunct)
  BY DEF KernelOK, DefunctList
<1>3. /\ KernelOK(q, E) /\ q.defunct = k.defunct
      /\ SameTasks(k, q) /\ SameTimers(k, q) /\ SameControl(k, q)
  BY <1>1, <1>2, Detach
<1>4. r = TimerStop(b, t)
  BY <1>1, StatBeforeRemove DEF SuspendReady, SetStat
<1> HIDE DEF q
<1>5. /\ q.mask[t] = {q.prio[t]} /\ t \in E
      /\ t \in ToSet(q.timers) => s = "SUSPEND"
  BY <1>1, <1>3 DEF SameTasks
<1> HIDE DEF E
<1>6. /\ KernelOK(b, E)
      /\ b.stat = [q.stat EXCEPT ![t] = s]
      /\ b.prio = q.prio /\ b.mask = q.mask
      /\ SameLists(q, b) /\ SameTimers(q, b) /\ SameControl(q, b)
  BY <1>1, <1>3, <1>5, StatOfDetached
<1> HIDE DEF b
<1>7. /\ KernelOK(r, E)
      /\ ToSet(r.timers) = ToSet(b.timers) \ {t} /\ r.act = b.act \ {t}
      /\ SameLists(b, r) /\ SameTasks(b, r) /\ SameControl(b, r)
  BY <1>4, <1>6, TimerStopOK
<1>8. r.stat = [k.stat EXCEPT ![t] = s]
  BY <1>3, <1>6, <1>7 DEF SameTasks
<1>9. KernelOK(r, D)
  <2>1. r.stat[t] # "READY"  BY <1>1, <1>8 DEF Kernel
  <2>2. D \subseteq E /\ \A u \in E : u \notin D => u = t  BY DEF E
  <2> QED  BY <1>7, <2>1, <2>2, Release
<1> QED
  BY <1>3, <1>6, <1>7, <1>8, <1>9
     DEF SameLists, SameTasks, SameTimers, SameControl

(* The first critical section of os_task_resume. *)
LEMMA ResumeUnlinkOK ==
    ASSUME NEW k, NEW D, KernelOK(k, D), NEW t \in Task, k.stat[t] = "SUSPEND",
           NEW r, r = ResumeUnlink(k, t)
    PROVE  /\ KernelOK(r, D \cup {t})
           /\ SameTasks(k, r) /\ r.defunct = k.defunct
           /\ ToSet(r.timers) = ToSet(k.timers) \ {t} /\ r.act = k.act \ {t}
           /\ t \notin k.act => r.timers = k.timers
           /\ SameControl(k, r)
<1> DEFINE q == TlistRemove(k, t)
<1>1. /\ KernelOK(q, D \cup {t}) /\ q.defunct = k.defunct
      /\ SameTasks(k, q) /\ SameTimers(k, q) /\ SameControl(k, q)
  BY DetachSuspended
<1>2. r = TimerStop(q, t)
  BY DEF ResumeUnlink
<1> HIDE DEF q
<1>3. /\ KernelOK(r, D \cup {t})
      /\ ToSet(r.timers) = ToSet(q.timers) \ {t} /\ r.act = q.act \ {t}
      /\ t \notin q.act => r.timers = q.timers
      /\ SameLists(q, r) /\ SameTasks(q, r) /\ SameControl(q, r)
  BY <1>1, <1>2, TimerStopOK
<1> QED
  BY <1>1, <1>3 DEF SameLists, SameTasks, SameTimers, SameControl

(* os_task_resume as a whole; a task that does not wait is left alone. *)
LEMMA TaskResumeOK ==
    ASSUME NEW k, NEW D, KernelOK(k, D), NEW t \in Task, t \notin D,
           NEW r, r = TaskResume(k, t)
    PROVE  /\ KernelOK(r, D)
           /\ k.stat[t] = "SUSPEND" => r.stat = [k.stat EXCEPT ![t] = "READY"]
           /\ k.stat[t] # "SUSPEND" => r = k
           /\ r.prio = k.prio /\ r.mask = k.mask /\ r.defunct = k.defunct
           /\ ToSet(r.timers) = ToSet(k.timers) \ {t}
           /\ t \notin k.act => r.timers = k.timers
           /\ SameControl(k, r)
<1>1. CASE k.stat[t] = "SUSPEND"
  <2> DEFINE q == ResumeUnlink(k, t)
             E == D \cup {t}
  <2>1. /\ KernelOK(q, E)
        /\ SameTasks(k, q) /\ q.defunct = k.defunct
        /\ ToSet(q.timers) = ToSet(k.timers) \ {t} /\ q.act = k.act \ {t}
        /\ t \notin k.act => q.timers = k.timers
        /\ SameControl(k, q)
    BY <1>1, ResumeUnlinkOK
  <2>2. r = SchedInsert(q, t)
    BY <1>1 DEF TaskResume
  <2> HIDE DEF q
  <2>3. q.mask[t] = {q.prio[t]} /\ t \notin ToSet(q.timers)
    BY <1>1, <2>1 DEF KernelOK, Masks, SameTasks
  <2>4. E \ {t} = D /\ t \in E
    OBVIOUS
  <2> HIDE DEF E
  <2>5. /\ KernelOK(r, E \ {t})
        /\ r.stat = [q.stat EXCEPT ![t] = "READY"]
        /\ r.prio = q.prio /\ r.mask = q.mask
        /\ r.pend = q.pend /\ r.defunct = q.defunct
        /\ SameTimers(q, r) /\ SameControl(q, r)
    BY <2>1, <2>2, <2>3, <2>4, Attach
  <2> QED
    BY <1>1, <2>1, <2>4, <2>5 DEF SameTasks, SameTimers, SameControl
<1>2. CASE k.stat[t] # "SUSPEND"
  <2>1. r = k  BY <1>2 DEF TaskResume
  <2>2. t \notin ToSet(k.timers)  BY <1>2 DEF KernelOK, TimerList
  <2> QED  BY <1>2, <2>1, <2>2 DEF SameControl
<1> QED  BY <1>1, <1>2

(* os_task_timeout of a task that waits and whose timer has been taken.    *)
LEMMA TaskTimeoutOK ==
    ASSUME NEW k, NEW D, KernelOK(k, D), k.stat[Idle] = "READY", Idle \notin D,
           NEW t \in Task, t \notin D, k.stat[t] = "SUSPEND",
           t \notin ToSet(k.timers), NEW r, r = TaskTimeout(k, t)
    PROVE  /\ KernelOK(r, D)
           /\ r.stat = [k.stat EXCEPT ![t] = "READY"]
           /\ r.prio = k.prio /\ r.mask = k.mask /\ r.defunct = k.defunct
           /\ SameTimers(k, r)
           /\ r.lock = k.lock /\ r.isr = k.isr /\ r.n = k.n
           /\ k.lock # 0 => r.cur = k.cur
           /\ k.lock = 0 =>
                 /\ r.cur \in Task /\ r.cur \notin D /\ r.stat[r.cur] = "READY"
                 /\ \A u \in Task : u \notin D /\ r.stat[u] = "READY"
                                     => r.prio[r.cur] <= r.prio[u]
<1> DEFINE e == [k.error EXCEPT ![t] = "OS_TIMEOUT"]
           a == [k EXCEPT !.error = e]
           q == TlistRemove(a, t)
           b == SchedInsert(q, t)
           E == D \cup {t}
<1>1. k \in Kernel /\ e \in [Task -> Errno]
  BY DEF KernelOK, Kernel, Errno
<1>2. r = Sched(b)
  BY <1>1 DEF TaskTimeout, Kernel
<1> HIDE DEF e
<1>3. a \in Kernel
  BY <1>1 DEF Kernel
<1>4. /\ SameLists(k, a) /\ SameTasks(k, a) /\ SameTimers(k, a)
      /\ SameControl(k, a)
  BY <1>1 DEF Kernel, SameLists, SameTasks, SameTimers, SameControl
<1> HIDE DEF a
<1>5. KernelOK(a, D) /\ a.stat[t] = "SUSPEND"
  BY <1>3, <1>4, AllKept DEF SameTasks
<1>6. /\ KernelOK(q, E) /\ q.defunct = a.defunct
      /\ SameTasks(a, q) /\ SameTimers(a, q) /\ SameControl(a, q)
  <2>1. q = TlistRemove(a, t)
    OBVIOUS
  <2> HIDE DEF q, E
  <2>2. E = D \cup {t}
    BY DEF E
  <2>3. /\ KernelOK(q, D \cup {t}) /\ q.defunct = a.defunct
        /\ SameTasks(a, q) /\ SameTimers(a, q) /\ SameControl(a, q)
    BY <1>5, <2>1, DetachSuspended
  <2> QED  BY <2>2, <2>3
<1> HIDE DEF q
<1>7. /\ q.mask[t] = {q.prio[t]} /\ t \notin ToSet(q.timers)
      /\ t \in E /\ E \ {t} = D
  BY <1>4, <1>5, <1>6 DEF KernelOK, Masks, SameTasks, SameTimers
<1> HIDE DEF E
<1>8. /\ KernelOK(b, D)
      /\ b.stat = [q.stat EXCEPT ![t] = "READY"]
      /\ b.prio = q.prio /\ b.mask = q.mask
      /\ b.pend = q.pend /\ b.defunct = q.defunct
      /\ SameTimers(q, b) /\ SameControl(q, b)
  BY <1>6, <1>7, Attach
<1> HIDE DEF b
<1>9. /\ b.stat = [k.stat EXCEPT ![t] = "READY"]
      /\ b.prio = k.prio /\ b.mask = k.mask /\ b.defunct = k.defunct
      /\ SameTimers(k, b) /\ SameControl(k, b)
  BY <1>4, <1>6, <1>8 DEF SameLists, SameTasks, SameTimers, SameControl
<1>10. b.stat[Idle] = "READY"
  BY <1>1, <1>9, KernelAssumption DEF Kernel
<1>11. /\ KernelOK(r, D)
       /\ SameLists(b, r) /\ SameTasks(b, r) /\ SameTimers(b, r)
       /\ r.lock = b.lock /\ r.isr = b.isr /\ r.n = b.n
       /\ b.lock # 0 => r.cur = b.cur
       /\ b.lock = 0 =>
             /\ r.cur \in Task /\ r.cur \notin D /\ b.stat[r.cur] = "READY"
             /\ \A u \in Task : u \notin D /\ b.stat[u] = "READY"
                                 => b.prio[r.cur] <= b.prio[u]
  BY <1>2, <1>8, <1>10, SchedOK
<1> QED
  BY <1>9, <1>11 DEF SameLists, SameTasks, SameTimers, SameControl

(* The priority and the bit of a task that is in no ready list may be set. *)
SetLevel(k, t, p) == [k EXCEPT !.prio[t] = p, !.mask[t] = {p}]

(* A task in no ready list can change its level.                           *)
LEMMA LevelOfUnready ==
    ASSUME NEW k, NEW D, KernelOK(k, D), NEW t \in Task,
           \A q \in Prio : t \notin ToSet(k.ready[q]), NEW p \in Prio,
           NEW r, r = SetLevel(k, t, p)
    PROVE  /\ KernelOK(r, D) /\ r.mask[t] = {r.prio[t]}
           /\ r.stat = k.stat
           /\ SameLists(k, r) /\ SameTimers(k, r) /\ SameControl(k, r)
<1> DEFINE f == [k.prio EXCEPT ![t] = p]
           g == [k.mask EXCEPT ![t] = {p}]
<1>1. k \in Kernel /\ f \in [Task -> Prio] /\ g \in [Task -> SUBSET Prio]
  BY DEF KernelOK, Kernel
<1>2. r = [k EXCEPT !.prio = f, !.mask = g]
  BY <1>1 DEF Kernel, SetLevel
<1>3. /\ f[t] = p /\ g[t] = {p}
      /\ \A u \in Task \ {t} : f[u] = k.prio[u] /\ g[u] = k.mask[u]
  BY <1>1 DEF Kernel
<1> HIDE DEF f, g
<1>4. r \in Kernel
  BY <1>1, <1>2 DEF Kernel
<1>5. /\ r.prio = f /\ r.mask = g /\ r.stat = k.stat
      /\ SameLists(k, r) /\ SameTimers(k, r) /\ SameControl(k, r)
  BY <1>1, <1>2 DEF Kernel, SameLists, SameTimers, SameControl
<1>6. \A q \in Prio : ToSet(k.ready[q]) \subseteq Task /\ t \notin ToSet(k.ready[q])
  BY <1>1 DEF Kernel, ToSet
<1>7. ReadyLists(r, D)
  <2>1. k.prio[t] \in Prio  BY <1>1 DEF Kernel
  <2>2. \A u \in Task \ D : k.stat[u] = "READY" => u # t
    BY <1>6, <2>1 DEF KernelOK, ReadyLists
  <2> QED  BY <1>3, <1>5, <1>6, <2>2 DEF KernelOK, ReadyLists, SameLists
<1>8. /\ PendingLists(r, D) /\ DefunctList(r, D) /\ Bitmap(r) /\ TimerList(r)
  BY <1>5 DEF KernelOK, PendingLists, DefunctList, Bitmap, TimerList,
              SameLists, SameTimers
<1>9. Masks(r)
  <2> SUFFICES ASSUME NEW u \in Task, r.stat[u] \in {"READY", "SUSPEND"}
               PROVE  r.mask[u] = {r.prio[u]}
    BY DEF Masks
  <2>1. CASE u = t  BY <2>1, <1>3, <1>5
  <2>2. CASE u # t  BY <2>2, <1>3, <1>5 DEF KernelOK, Masks
  <2> QED  BY <2>1, <2>2
<1> QED  BY <1>3, <1>4, <1>5, <1>7, <1>8, <1>9 DEF KernelOK

(* os_task_priority_set moves a READY task to its new level. *)
LEMMA PrioritySetOK ==
    ASSUME NEW k, NEW D, KernelOK(k, D), NEW t \in Task, t \notin D,
           NEW p \in Prio, NEW r, r = PrioritySet(k, t, p)
    PROVE  /\ KernelOK(r, D)
           /\ r.stat = k.stat /\ r.defunct = k.defunct
           /\ SameTimers(k, r) /\ SameControl(k, r)
<1>1. CASE k.stat[t] = "READY"
  <2> DEFINE q == SchedRemove(k, t)
             b == SetLevel(q, t, p)
             E == D \cup {t}
  <2>1. k \in Kernel /\ k.mask[t] = {k.prio[t]} /\ t \notin ToSet(k.defunct)
    BY <1>1 DEF KernelOK, Masks, DefunctList
  <2>2. r = SchedInsert(b, t)
    BY <1>1 DEF PrioritySet, SetLevel
  <2>3. /\ KernelOK(q, E) /\ q.defunct = k.defunct
        /\ SameTasks(k, q) /\ SameTimers(k, q) /\ SameControl(k, q)
    BY <2>1, Detach
  <2> HIDE DEF q
  <2>4. /\ t \in E /\ E \ {t} = D
        /\ \A p1 \in Prio : t \notin ToSet(q.ready[p1])
    BY <2>3 DEF KernelOK, ReadyLists
  <2> HIDE DEF E
  <2>5. /\ KernelOK(b, E) /\ b.mask[t] = {b.prio[t]}
        /\ b.stat = q.stat
        /\ SameLists(q, b) /\ SameTimers(q, b) /\ SameControl(q, b)
    BY <2>3, <2>4, LevelOfUnready
  <2> HIDE DEF b
  <2>6. t \notin ToSet(b.timers)
    BY <1>1, <2>3, <2>5 DEF KernelOK, TimerList, SameTasks, SameTimers
  <2>7. /\ KernelOK(r, D)
        /\ r.stat = [b.stat EXCEPT ![t] = "READY"]
        /\ r.defunct = b.defunct
        /\ SameTimers(b, r) /\ SameControl(b, r)
    BY <2>2, <2>4, <2>5, <2>6, Attach
  <2>8. r.stat = k.stat
    BY <1>1, <2>1, <2>3, <2>5, <2>7 DEF Kernel, SameTasks
  <2> QED
    BY <2>3, <2>5, <2>7, <2>8 DEF SameLists, SameTimers, SameControl
<1>2. CASE k.stat[t] # "READY"
  <2>1. r = SetLevel(k, t, p)
    BY <1>2 DEF PrioritySet, SetLevel
  <2>2. \A q \in Prio : t \notin ToSet(k.ready[q])
    BY <1>2 DEF KernelOK, ReadyLists
  <2>3. /\ KernelOK(r, D) /\ r.stat = k.stat
        /\ SameLists(k, r) /\ SameTimers(k, r) /\ SameControl(k, r)
    BY <2>1, <2>2, LevelOfUnready
  <2> QED  BY <2>3 DEF SameLists
<1> QED  BY <1>1, <1>2

(* A closed task that is in no list is put in the defunct list. *)
LEMMA DefunctOK ==
    ASSUME NEW k, NEW D, KernelOK(k, D), NEW t \in Task, t \notin D,
           k.stat[t] = "CLOSE", t \notin ToSet(k.defunct),
           NEW r, r = Defunct(k, t)
    PROVE  /\ KernelOK(r, D)
           /\ ToSet(r.defunct) = ToSet(k.defunct) \cup {t}
           /\ SameTasks(k, r) /\ SameTimers(k, r) /\ SameControl(k, r)
<1> DEFINE s == <<t>> \o k.defunct
<1>1. k \in Kernel /\ IsList(k.defunct, Task)
  BY DEF KernelOK, Kernel, DefunctList, IsList
<1>2. IsList(s, Task) /\ ToSet(s) = ToSet(k.defunct) \cup {t}
  BY <1>1, ConsList
<1>3. r = [k EXCEPT !.defunct = s]
  BY <1>1 DEF Defunct, Kernel
<1>4. s \in Seq(Task)
  BY <1>2 DEF IsList
<1> HIDE DEF s
<1>5. r \in Kernel
  BY <1>1, <1>3, <1>4 DEF Kernel
<1>6. /\ r.defunct = s /\ r.ready = k.ready /\ r.pend = k.pend
      /\ r.bitmap = k.bitmap
      /\ SameTasks(k, r) /\ SameTimers(k, r) /\ SameControl(k, r)
  BY <1>1, <1>3 DEF Kernel, SameTasks, SameTimers, SameControl
<1>7. DefunctList(r, D)
  BY <1>2, <1>6 DEF KernelOK, DefunctList, IsList, SameTasks
<1>8. ReadyLists(r, D) /\ PendingLists(r, D) /\ Bitmap(r) /\ Masks(r) /\ TimerList(r)
  BY <1>6 DEF KernelOK, ReadyLists, PendingLists, Bitmap, Masks, TimerList,
              SameTasks, SameTimers
<1> QED  BY <1>2, <1>5, <1>6, <1>7, <1>8 DEF KernelOK

(* The idle task takes the first task out of the defunct list. *)
LEMMA CleanupOK ==
    ASSUME NEW k, NEW D, KernelOK(k, D), k.defunct # <<>>,
           NEW r, r = [k EXCEPT !.defunct = Tail(@)]
    PROVE  /\ KernelOK(r, D)
           /\ ToSet(r.defunct) \subseteq ToSet(k.defunct)
           /\ SameTasks(k, r) /\ SameTimers(k, r) /\ SameControl(k, r)
<1> DEFINE s == Tail(k.defunct)
<1>1. k \in Kernel /\ IsList(k.defunct, Task)
  BY DEF KernelOK, Kernel, DefunctList, IsList
<1>2. IsList(s, Task) /\ ToSet(s) \subseteq ToSet(k.defunct)
  BY <1>1, TailList
<1>3. r = [k EXCEPT !.defunct = s]
  BY <1>1 DEF Kernel
<1>4. s \in Seq(Task)
  BY <1>2 DEF IsList
<1> HIDE DEF s
<1>5. r \in Kernel
  BY <1>1, <1>3, <1>4 DEF Kernel
<1>6. /\ r.defunct = s /\ r.ready = k.ready /\ r.pend = k.pend
      /\ r.bitmap = k.bitmap
      /\ SameTasks(k, r) /\ SameTimers(k, r) /\ SameControl(k, r)
  BY <1>1, <1>3 DEF Kernel, SameTasks, SameTimers, SameControl
<1>7. DefunctList(r, D)
  BY <1>2, <1>6 DEF KernelOK, DefunctList, IsList, SameTasks
<1>8. ReadyLists(r, D) /\ PendingLists(r, D) /\ Bitmap(r) /\ Masks(r) /\ TimerList(r)
  BY <1>6 DEF KernelOK, ReadyLists, PendingLists, Bitmap, Masks, TimerList,
              SameTasks, SameTimers
<1> QED  BY <1>2, <1>5, <1>6, <1>7, <1>8 DEF KernelOK

(* os_task_exit of a READY task. *)
LEMMA TaskExitOK ==
    ASSUME NEW k, NEW D, KernelOK(k, D), NEW t \in Task, t \notin D,
           k.stat[t] = "READY", NEW r, r = TaskExit(k, t)
    PROVE  /\ KernelOK(r, D)
           /\ r.stat = [k.stat EXCEPT ![t] = "CLOSE"]
           /\ ToSet(r.defunct) \subseteq ToSet(k.defunct) \cup {t}
           /\ SameTimers(k, r) /\ SameControl(k, r)
<1> DEFINE q == SchedRemove(k, t)
           s == "CLOSE"
           b == SetStat(q, t, s)
           c == TimerDelete(b, t)
           E == D \cup {t}
<1>1. /\ k \in Kernel /\ s \in Stat /\ k.mask[t] = {k.prio[t]}
      /\ t \notin ToSet(k.defunct) /\ t \notin ToSet(k.timers)
  BY DEF KernelOK, Masks, Stat, DefunctList, TimerList
<1>2. /\ KernelOK(q, E) /\ q.defunct = k.defunct
      /\ SameTasks(k, q) /\ SameTimers(k, q) /\ SameControl(k, q)
  BY <1>1, Detach
<1>3. r = IF t \in Cleanup THEN Defunct(c, t) ELSE c
  BY DEF TaskExit, SetStat
<1> HIDE DEF q
<1>4. t \in E /\ D \subseteq E /\ \A u \in E : u \notin D => u = t
  OBVIOUS
<1>5. t \notin ToSet(q.timers) /\ s \notin {"READY", "SUSPEND"}
  BY <1>1, <1>2 DEF SameTimers
<1> HIDE DEF E
<1>6. /\ KernelOK(b, E)
      /\ b.stat = [q.stat EXCEPT ![t] = s]
      /\ SameLists(q, b) /\ SameTimers(q, b) /\ SameControl(q, b)
  BY <1>1, <1>2, <1>4, <1>5, StatOfDetached
<1> HIDE DEF b
<1>7. t \notin ToSet(b.timers)
  BY <1>5, <1>6 DEF SameTimers
<1>8. /\ KernelOK(c, E)
      /\ c.timers = b.timers /\ c.act = b.act
      /\ SameLists(b, c) /\ SameTasks(b, c) /\ SameControl(b, c)
  BY <1>6, <1>7, TimerDeleteOK
<1> HIDE DEF c
<1>9. /\ c.stat = [k.stat EXCEPT ![t] = s] /\ c.defunct = k.defunct
      /\ SameTimers(k, c) /\ SameControl(k, c)
  BY <1>2, <1>6, <1>8 DEF SameLists, SameTasks, SameTimers, SameControl
<1>10. c.stat[t] = "CLOSE"
  BY <1>1, <1>9 DEF Kernel
<1>11. KernelOK(c, D)
  BY <1>4, <1>8, <1>10, Release
<1>12. CASE t \in Cleanup
  <2> DEFINE d == Defunct(c, t)
  <2>1. t \notin ToSet(c.defunct)  BY <1>1, <1>9
  <2>2. /\ KernelOK(d, D)
        /\ ToSet(d.defunct) = ToSet(c.defunct) \cup {t}
        /\ SameTasks(c, d) /\ SameTimers(c, d) /\ SameControl(c, d)
    BY <1>10, <1>11, <2>1, DefunctOK
  <2> HIDE DEF d
  <2>3. r = d  BY <1>3, <1>12 DEF d
  <2> QED  BY <1>9, <2>2, <2>3 DEF SameTasks, SameTimers, SameControl
<1>13. CASE t \notin Cleanup
  BY <1>3, <1>9, <1>11, <1>13
<1> QED  BY <1>12, <1>13

(* os_task_init of a task that has ended and is in no list. *)
LEMMA TaskInitOK ==
    ASSUME NEW k, NEW D, KernelOK(k, D), NEW t \in Task, k.stat[t] = "CLOSE",
           t \notin ToSet(k.defunct), NEW p \in Prio, NEW r, r = TaskInit(k, t, p)
    PROVE  /\ KernelOK(r, D)
           /\ r.stat = [k.stat EXCEPT ![t] = "INIT"]
           /\ r.timers = k.timers /\ r.defunct = k.defunct
           /\ SameControl(k, r)
<1> DEFINE f == [k.stat EXCEPT ![t] = "INIT"]
           g == [k.prio EXCEPT ![t] = p]
           e == [k.error EXCEPT ![t] = "OS_OK"]
           m == [k.rem EXCEPT ![t] = Slice[t]]
           a == k.act \ {t}
           l == [k.left EXCEPT ![t] = 0]
<1>1. /\ k \in Kernel
      /\ f \in [Task -> Stat] /\ g \in [Task -> Prio] /\ e \in [Task -> Errno]
      /\ a \in SUBSET Timer
  BY DEF KernelOK, Kernel, Stat, Errno
<1>2. m \in [Task -> Nat \ {0}] /\ l \in [Timer -> Nat \cup {Overdue}]
  BY <1>1, KernelAssumption DEF Kernel
<1>3. r = [k EXCEPT !.stat = f, !.prio = g, !.error = e, !.rem = m,
                    !.act = a, !.left = l]
  BY <1>1 DEF TaskInit, Kernel
<1>4. /\ f[t] = "INIT" /\ t \notin a
      /\ \A u \in Task \ {t} : f[u] = k.stat[u] /\ g[u] = k.prio[u]
      /\ \A x \in Timer \ {t} : x \in k.act => x \in a
  BY <1>1 DEF Kernel
<1> SUFFICES /\ KernelOK(r, D) /\ r.stat = f
             /\ r.timers = k.timers /\ r.defunct = k.defunct
             /\ SameControl(k, r)
  OBVIOUS
<1> HIDE DEF f, g, e, m, a, l
<1>5. r \in Kernel
  <2> DEFINE c == [k EXCEPT !.stat = f, !.prio = g, !.error = e]
  <2>1. c \in Kernel
    BY <1>1 DEF Kernel
  <2>2. r = [c EXCEPT !.rem = m, !.act = a, !.left = l]
    BY <1>1, <1>3 DEF Kernel
  <2> HIDE DEF c
  <2> QED  BY <1>1, <1>2, <2>1, <2>2 DEF Kernel
<1>6. /\ r.stat = f /\ r.prio = g /\ r.mask = k.mask /\ r.act = a
      /\ r.timers = k.timers
      /\ SameLists(k, r) /\ SameControl(k, r)
  BY <1>1, <1>3 DEF Kernel, SameLists, SameControl
<1>7. /\ \A q \in Prio : ToSet(k.ready[q]) \subseteq Task /\ t \notin ToSet(k.ready[q])
      /\ \A o \in Obj : ToSet(k.pend[o]) \subseteq Task /\ t \notin ToSet(k.pend[o])
      /\ ToSet(k.defunct) \subseteq Task /\ t \notin ToSet(k.timers)
  <2>1. /\ \A q \in Prio : ToSet(k.ready[q]) \subseteq Task
        /\ \A o \in Obj : ToSet(k.pend[o]) \subseteq Task
        /\ ToSet(k.defunct) \subseteq Task
    BY <1>1 DEF Kernel, ToSet
  <2> QED  BY <2>1 DEF KernelOK, ReadyLists, PendingLists, TimerList
<1>8. ReadyLists(r, D)
  BY <1>4, <1>6, <1>7 DEF KernelOK, ReadyLists, SameLists
<1>9. PendingLists(r, D) /\ DefunctList(r, D)
  BY <1>4, <1>6, <1>7 DEF KernelOK, PendingLists, DefunctList, SameLists
<1>10. Bitmap(r)
  BY <1>6 DEF KernelOK, Bitmap, SameLists
<1>11. Masks(r)
  BY <1>4, <1>6 DEF KernelOK, Masks
<1>12. TimerList(r)
  BY <1>4, <1>6, <1>7 DEF KernelOK, TimerList, Timer
<1> QED  BY <1>5, <1>6, <1>8, <1>9, <1>10, <1>11, <1>12 DEF KernelOK, SameLists

(* os_task_startup computes the bit of a task that is in no list. *)
LEMMA TaskStartingOK ==
    ASSUME NEW k, NEW D, KernelOK(k, D), NEW t \in Task, k.stat[t] = "INIT",
           NEW r, r = TaskStarting(k, t)
    PROVE  /\ KernelOK(r, D)
           /\ r.stat = [k.stat EXCEPT ![t] = "SUSPEND"]
           /\ r.prio = k.prio /\ r.defunct = k.defunct
           /\ SameTimers(k, r) /\ SameControl(k, r)
<1> DEFINE f == [k.stat EXCEPT ![t] = "SUSPEND"]
           g == [k.mask EXCEPT ![t] = {k.prio[t]}]
<1>1. /\ k \in Kernel /\ f \in [Task -> Stat] /\ g \in [Task -> SUBSET Prio]
  BY DEF KernelOK, Kernel, Stat
<1>2. r = [k EXCEPT !.mask = g, !.stat = f]
  BY <1>1 DEF TaskStarting, Kernel
<1>3. /\ f[t] = "SUSPEND" /\ g[t] = {k.prio[t]}
      /\ \A u \in Task \ {t} : f[u] = k.stat[u] /\ g[u] = k.mask[u]
  BY <1>1 DEF Kernel
<1> SUFFICES /\ KernelOK(r, D) /\ r.stat = f
             /\ r.prio = k.prio /\ r.defunct = k.defunct
             /\ SameTimers(k, r) /\ SameControl(k, r)
  OBVIOUS
<1> HIDE DEF f, g
<1>4. r \in Kernel
  BY <1>1, <1>2 DEF Kernel
<1>5. /\ r.stat = f /\ r.mask = g /\ r.prio = k.prio
      /\ SameLists(k, r) /\ SameTimers(k, r) /\ SameControl(k, r)
  BY <1>1, <1>2 DEF Kernel, SameLists, SameTimers, SameControl
<1>6. /\ \A q \in Prio : ToSet(k.ready[q]) \subseteq Task /\ t \notin ToSet(k.ready[q])
      /\ \A o \in Obj : ToSet(k.pend[o]) \subseteq Task /\ t \notin ToSet(k.pend[o])
      /\ ToSet(k.defunct) \subseteq Task /\ t \notin ToSet(k.defunct)
      /\ t \notin ToSet(k.timers)
  <2>1. /\ \A q \in Prio : ToSet(k.ready[q]) \subseteq Task
        /\ \A o \in Obj : ToSet(k.pend[o]) \subseteq Task
        /\ ToSet(k.defunct) \subseteq Task
    BY <1>1 DEF Kernel, ToSet
  <2> QED
    BY <2>1 DEF KernelOK, ReadyLists, PendingLists, DefunctList, TimerList
<1>7. ReadyLists(r, D)
  BY <1>3, <1>5, <1>6 DEF KernelOK, ReadyLists, SameLists
<1>8. PendingLists(r, D) /\ DefunctList(r, D)
  BY <1>3, <1>5, <1>6 DEF KernelOK, PendingLists, DefunctList, SameLists
<1>9. Bitmap(r)
  BY <1>5 DEF KernelOK, Bitmap, SameLists
<1>10. Masks(r)
  <2> SUFFICES ASSUME NEW u \in Task, r.stat[u] \in {"READY", "SUSPEND"}
               PROVE  r.mask[u] = {r.prio[u]}
    BY DEF Masks
  <2>1. CASE u = t  BY <2>1, <1>3, <1>5
  <2>2. CASE u # t  BY <2>2, <1>3, <1>5 DEF KernelOK, Masks
  <2> QED  BY <2>1, <2>2
<1>11. TimerList(r)
  BY <1>3, <1>5, <1>6 DEF KernelOK, TimerList, SameTimers
<1> QED
  BY <1>4, <1>5, <1>7, <1>8, <1>9, <1>10, <1>11 DEF KernelOK, SameLists

-----------------------------------------------------------------------------
(* The loop of os_timer_check *)

(* The next node of the list is another timer or the head. *)
LEMMA NextNodeOK ==
    ASSUME NEW k \in Kernel, IsInjective(k.timers), NEW x \in ToSet(k.timers)
    PROVE  NextNode(k, x) = ListHead \/ NextNode(k, x) \in ToSet(k.timers) \ {x}
<1> DEFINE s == k.timers
           i == CHOOSE j \in DOMAIN s : s[j] = x
<1>1. s \in Seq(Timer) /\ DOMAIN s = 1..Len(s) /\ Len(s) \in Nat
  BY DEF Kernel
<1>2. \E j \in DOMAIN s : s[j] = x
  BY DEF ToSet
<1>3. i \in DOMAIN s /\ s[i] = x
  BY <1>2
<1>4. NextNode(k, x) = IF i = Len(s) THEN ListHead ELSE s[i + 1]
  BY DEF NextNode
<1> HIDE DEF i
<1>5. CASE i = Len(s)
  BY <1>4, <1>5
<1>6. CASE i # Len(s)
  <2>1. i + 1 \in DOMAIN s /\ i + 1 # i
    BY <1>1, <1>3, <1>6
  <2>2. s[i + 1] # x
    BY <1>3, <2>1 DEF IsInjective
  <2> QED  BY <1>4, <1>6, <2>1, <2>2 DEF ToSet
<1> QED  BY <1>5, <1>6

(* os_timer_check takes a due timer out of its list.                       *)
LEMMA TimerTakeOK ==
    ASSUME NEW k, NEW D, KernelOK(k, D), k.n \in ToSet(k.timers),
           NEW r, r = TimerTake(k)
    PROVE  /\ KernelOK(r, D)
           /\ ToSet(r.timers) = ToSet(k.timers) \ {k.n}
           /\ r.n = ListHead \/ r.n \in ToSet(r.timers)
           /\ SameLists(k, r) /\ SameTasks(k, r) /\ r.act = k.act
           /\ r.cur = k.cur /\ r.lock = k.lock /\ r.isr = k.isr
<1> DEFINE s == Unlink(k.timers, k.n)
           m == NextNode(k, k.n)
<1>1. k \in Kernel /\ IsList(k.timers, Timer)
  BY DEF KernelOK, Kernel, TimerList, IsList
<1>2. IsList(s, Timer) /\ ToSet(s) = ToSet(k.timers) \ {k.n}
  BY <1>1, UnlinkList
<1>3. m = ListHead \/ m \in ToSet(s)
  BY <1>1, <1>2, NextNodeOK DEF IsList
<1>4. s \in Seq(Timer) /\ m \in Timer \cup {ListHead}
  <2>1. ToSet(s) \subseteq Timer  BY <1>2, MemberOfList
  <2> QED  BY <1>2, <1>3, <2>1 DEF IsList
<1>5. r = [k EXCEPT !.n = m, !.timers = s]
  BY <1>1 DEF TimerTake, Kernel
<1> HIDE DEF s, m
<1>6. r \in Kernel
  BY <1>1, <1>4, <1>5 DEF Kernel
<1>7. /\ r.timers = s /\ r.n = m
      /\ SameLists(k, r) /\ SameTasks(k, r) /\ r.act = k.act
      /\ r.cur = k.cur /\ r.lock = k.lock /\ r.isr = k.isr
  BY <1>1, <1>5 DEF Kernel, SameLists, SameTasks
<1>8. TimerList(r)
  BY <1>2, <1>7 DEF KernelOK, TimerList, IsList, SameTasks
<1> QED  BY <1>2, <1>3, <1>6, <1>7, <1>8, ListsKept

(* A timer of a task is never started again by os_timer_check. *)
LEMMA TimerAfterOK ==
    ASSUME NEW k, NEW D, KernelOK(k, D), NEW x \in Timer, x \notin ToSet(k.timers),
           NEW r, r = TimerAfter(k, x)
    PROVE  /\ KernelOK(r, D)
           /\ ToSet(k.timers) \subseteq ToSet(r.timers)
           /\ \A u \in Task : u \in ToSet(r.timers) => u \in ToSet(k.timers)
           /\ SameLists(k, r) /\ SameTasks(k, r) /\ SameControl(k, r)
<1>0. k \in Kernel /\ UserTimer \cap Task = {}
  BY KernelAssumption DEF KernelOK
<1>1. CASE x \in Periodic /\ x \in k.act
  <2>1. x \in UserTimer /\ x \notin Task /\ Period[x] \in Nat
    BY <1>1, KernelAssumption
  <2>2. r = TimerStart(k, x, Period[x])
    BY <1>1 DEF TimerAfter
  <2>3. /\ KernelOK(r, D)
        /\ ToSet(r.timers) = ToSet(k.timers) \cup {x}
        /\ SameLists(k, r) /\ SameTasks(k, r) /\ SameControl(k, r)
    <3>1. (x \in Task => k.stat[x] = "SUSPEND") /\ x \in Timer
      BY <2>1 DEF Timer
    <3> DEFINE d == Period[x]
    <3>2. d \in Nat /\ r = TimerStart(k, x, d)
      BY <2>1, <2>2
    <3> HIDE DEF d
    <3> QED  BY <3>1, <3>2, TimerStartOK
  <2> QED  BY <2>1, <2>3
<1>2. CASE ~(x \in Periodic /\ x \in k.act)
  <2> DEFINE a == k.act \ {x}
  <2>1. r = [k EXCEPT !.act = a]
    BY <1>0, <1>2 DEF TimerAfter, Kernel
  <2>2. a \in SUBSET Timer
    BY <1>0 DEF Kernel
  <2>3. \A u \in k.act : u # x => u \in a
    OBVIOUS
  <2> HIDE DEF a
  <2>4. r \in Kernel
    BY <1>0, <2>1, <2>2 DEF Kernel
  <2>5. /\ r.timers = k.timers /\ r.act = a
        /\ SameLists(k, r) /\ SameTasks(k, r) /\ SameControl(k, r)
    BY <1>0, <2>1 DEF Kernel, SameLists, SameTasks, SameControl
  <2>6. TimerList(r)
    BY <2>3, <2>5 DEF KernelOK, TimerList, SameTasks
  <2> QED  BY <2>4, <2>5, <2>6, ListsKept
<1> QED  BY <1>1, <1>2

(* os_isr_leave.                                                           *)
LEMMA IsrLeaveOK ==
    ASSUME NEW k, NEW D, KernelOK(k, D), NEW r, r = IsrLeave(k)
    PROVE  /\ KernelOK(r, D)
           /\ SameLists(k, r) /\ SameTasks(k, r) /\ SameTimers(k, r)
           /\ r.cur = k.cur /\ r.lock = k.lock /\ r.isr = 0
<1> DEFINE z == 0
           m == ListHead
<1>1. k \in Kernel /\ z \in 0..1 /\ m \in Timer \cup {ListHead}
  BY DEF KernelOK
<1>2. r = [k EXCEPT !.isr = z, !.n = m]
  BY DEF IsrLeave
<1> SUFFICES /\ KernelOK(r, D)
             /\ SameLists(k, r) /\ SameTasks(k, r) /\ SameTimers(k, r)
             /\ r.cur = k.cur /\ r.lock = k.lock /\ r.isr = z
  OBVIOUS
<1> HIDE DEF z, m
<1>3. r \in Kernel
  BY <1>1, <1>2 DEF Kernel
<1>4. /\ SameLists(k, r) /\ SameTasks(k, r) /\ SameTimers(k, r)
      /\ r.cur = k.cur /\ r.lock = k.lock /\ r.isr = z
  BY <1>1, <1>2 DEF Kernel, SameLists, SameTasks, SameTimers
<1> QED  BY <1>3, <1>4, AllKept

-----------------------------------------------------------------------------
(* Single fields *)

SetLock(k, m) == [k EXCEPT !.lock = m]
SetError(k, t, e) == [k EXCEPT !.error[t] = e]

(* Writing os_sched_lock_nest.                                             *)
LEMMA SetLockOK ==
    ASSUME NEW k, NEW D, KernelOK(k, D), NEW m \in Nat, NEW r, r = SetLock(k, m)
    PROVE  /\ KernelOK(r, D)
           /\ SameLists(k, r) /\ SameTasks(k, r) /\ SameTimers(k, r)
           /\ r.cur = k.cur /\ r.lock = m /\ r.isr = k.isr /\ r.n = k.n
<1>1. k \in Kernel
  BY DEF KernelOK
<1>2. r \in Kernel
  BY <1>1 DEF Kernel, SetLock
<1>3. /\ SameLists(k, r) /\ SameTasks(k, r) /\ SameTimers(k, r)
      /\ r.cur = k.cur /\ r.lock = m /\ r.isr = k.isr /\ r.n = k.n
  BY <1>1 DEF Kernel, SetLock, SameLists, SameTasks, SameTimers
<1> QED  BY <1>2, <1>3, AllKept

(* Writing task->error.                                                    *)
LEMMA SetErrorOK ==
    ASSUME NEW k, NEW D, KernelOK(k, D), NEW t \in Task, NEW e \in Errno,
           NEW r, r = SetError(k, t, e)
    PROVE  /\ KernelOK(r, D)
           /\ SameLists(k, r) /\ SameTasks(k, r) /\ SameTimers(k, r)
           /\ SameControl(k, r)
<1> DEFINE f == [k.error EXCEPT ![t] = e]
<1>1. k \in Kernel /\ f \in [Task -> Errno]
  BY DEF KernelOK, Kernel
<1>2. r = [k EXCEPT !.error = f]
  BY <1>1 DEF Kernel, SetError
<1> HIDE DEF f
<1>3. r \in Kernel
  BY <1>1, <1>2 DEF Kernel
<1>4. /\ SameLists(k, r) /\ SameTasks(k, r) /\ SameTimers(k, r)
      /\ SameControl(k, r)
  BY <1>1, <1>2 DEF Kernel, SameLists, SameTasks, SameTimers, SameControl
<1> QED  BY <1>3, <1>4, AllKept
-----------------------------------------------------------------------------
(* The pending lists: which task leaves, where one is put, and the loop    *)
(* that empties one.                                                       *)

(* Unlinking the i-th entry of a list.                                     *)
LEMMA UnlinkAt ==
    ASSUME NEW S, NEW s, IsList(s, S), NEW i \in DOMAIN s
    PROVE  Unlink(s, s[i]) = RemoveAt(s, i)
<1>1. \A j \in DOMAIN s : s[j] = s[i] => j = i
  BY DEF IsList, IsInjective
<1>2. (CHOOSE j \in DOMAIN s : s[j] = s[i]) = i
  BY <1>1
<1> QED  BY <1>2 DEF Unlink

(* The first task of a list leaves the others in their order.              *)
LEMMA UnlinkFirst ==
    ASSUME NEW S, NEW s, IsList(s, S), s # <<>>
    PROVE  Unlink(s, s[1]) = Tail(s)
<1>1. /\ s \in Seq(S) /\ Len(s) \in Nat /\ Len(s) # 0 /\ DOMAIN s = 1..Len(s)
  BY DEF IsList
<1>2. 1 \in 1..Len(s)
  BY <1>1
<1> DEFINE one == 1
           r == RemoveAt(s, one)
<1>3. /\ r \in Seq(S) /\ Len(r) = Len(s) - 1
      /\ \A j \in 1..Len(s) - 1 : r[j] = IF j < one THEN s[j] ELSE s[j + 1]
  BY <1>2, RemoveAtList DEF IsList
<1>4. Unlink(s, s[1]) = r
  BY <1>1, <1>2, UnlinkAt
<1> HIDE DEF r
<1>5. /\ Tail(s) \in Seq(S) /\ Len(Tail(s)) = Len(s) - 1
      /\ \A j \in 1..Len(s) - 1 : Tail(s)[j] = s[j + 1]
  BY <1>1, HeadTailProperties
<1>6. \A j \in 1..Len(s) - 1 : r[j] = Tail(s)[j]
  BY <1>1, <1>3, <1>5
<1>7. r = Tail(s)
  BY <1>1, <1>3, <1>5, <1>6, SeqEqual
<1> QED  BY <1>4, <1>7

(* os_task_resume of a task that waits. *)
LEMMA TaskResumePend ==
    ASSUME NEW k, NEW D, KernelOK(k, D), NEW t \in Task, k.stat[t] = "SUSPEND",
           NEW r, r = TaskResume(k, t)
    PROVE  /\ r.pend = [o \in Obj |-> Unlink(k.pend[o], t)]
           /\ r.error = k.error /\ r.act = k.act \ {t}
<1> DEFINE q == TlistRemove(k, t)
           u == TimerStop(q, t)
<1>1. /\ q \in Kernel /\ q.pend = [o \in Obj |-> Unlink(k.pend[o], t)]
      /\ q.act = k.act
  <2>1. /\ q \in Kernel
        /\ q.ready = [p \in Prio |-> Unlink(k.ready[p], t)]
        /\ q.pend = [o \in Obj |-> Unlink(k.pend[o], t)]
        /\ SameTasks(k, q) /\ SameTimers(k, q) /\ SameControl(k, q)
    BY TlistRemoveFields
  <2> QED  BY <2>1 DEF SameTimers
<1>2. q.error = k.error
  BY DEF TlistRemove, KernelOK, Kernel
<1>3. r = SchedInsert(u, t)
  BY DEF TaskResume, ResumeUnlink
<1> HIDE DEF q
<1>4. u \in Kernel /\ u.pend = q.pend /\ u.error = q.error /\ u.act = q.act \ {t}
  <2>1. CASE t \in q.act
    <3>1. u = [q EXCEPT !.timers = Unlink(@, t), !.act = @ \ {t}]
      BY <2>1 DEF TimerStop
    <3>2. ResumeUnlink(k, t) = u
      BY DEF ResumeUnlink, q
    <3>3. u \in Kernel
      BY <3>2, ResumeUnlinkOK DEF KernelOK
    <3> QED  BY <1>1, <3>1, <3>3 DEF Kernel
  <2>2. CASE t \notin q.act
    BY <1>1, <2>2 DEF TimerStop
  <2> QED  BY <2>1, <2>2
<1> HIDE DEF u
<1>5. r.pend = u.pend /\ r.error = u.error /\ r.act = u.act
  BY <1>3, <1>4 DEF SchedInsert, Kernel
<1> QED  BY <1>1, <1>2, <1>4, <1>5

(* os_task_suspend of a READY task leaves the pending lists alone. *)
LEMMA SuspendReadyPend ==
    ASSUME NEW k, NEW D, KernelOK(k, D), NEW t \in Task, k.stat[t] = "READY",
           NEW r, r = SuspendReady(k, t)
    PROVE  r.pend = k.pend /\ r.error = k.error
<1> DEFINE q == SchedRemove(k, t)
           b == SetStat(q, t, "SUSPEND")
<1>1. /\ q \in Kernel
      /\ \A o \in Obj : q.pend[o] = Unlink(k.pend[o], t)
  BY SchedRemoveFields
<1>2. k \in Kernel
  BY DEF KernelOK
<1>3. \A o \in Obj : t \notin ToSet(k.pend[o])
  BY DEF KernelOK, PendingLists
<1>4. q.pend = k.pend
  <2>1. \A o \in Obj : q.pend[o] = k.pend[o]  BY <1>1, <1>3, UnlinkAbsent
  <2> QED  BY <1>1, <1>2, <2>1 DEF Kernel
<1>5. q.error = k.error
  BY <1>2 DEF SchedRemove, TlistRemove, Kernel
<1>6. r = TimerStop(b, t)
  BY <1>2, StatBeforeRemove DEF SuspendReady, SetStat, Stat
<1> HIDE DEF q
<1>7. b.pend = q.pend /\ b.error = q.error
  BY <1>1 DEF SetStat, Kernel
<1>8. b \in Kernel
  BY <1>1 DEF SetStat, Kernel, Stat
<1> HIDE DEF b
<1>9. r.pend = b.pend /\ r.error = b.error
  BY <1>6, <1>8 DEF TimerStop, Kernel
<1> QED  BY <1>4, <1>5, <1>7, <1>9

(* The clock, the timers, os_sched and a start of a timer write no answer. *)
LEMMA ErrorKept ==
    ASSUME NEW k \in Kernel
    PROVE  /\ Sched(k).error = k.error
           /\ \A x, d : TimerStart(k, x, d).error = k.error
           /\ \A x : TimerAfter(k, x).error = k.error
           /\ TimerTake(k).error = k.error
           /\ TickIncrease(k).error = k.error
           /\ IsrLeave(k).error = k.error
           /\ \A m : SetLock(k, m).error = k.error
<1>1. Sched(k).error = k.error
  BY DEF Sched, Kernel
<1>2. \A x, d : TimerStart(k, x, d).error = k.error
  BY DEF TimerStart, Kernel
<1>3. \A x : TimerAfter(k, x).error = k.error
  BY <1>2 DEF TimerAfter, Kernel
<1>4. TimerTake(k).error = k.error /\ IsrLeave(k).error = k.error
  BY DEF TimerTake, IsrLeave, Kernel
<1>5. TickIncrease(k).error = k.error
  <2> DEFINE e == Elapse(k)
             g == [e EXCEPT !.rem[e.cur] = Slice[e.cur]]
             h == [e EXCEPT !.rem[e.cur] = @ - 1]
             w == Rotate(g)
  <2>1. Charge(e) \in {g, h, w, Sched(w)}
    BY DEF Charge, Yield
  <2>2. DOMAIN e = DOMAIN k /\ e.error = k.error
    BY DEF Elapse, Kernel
  <2>3. {"error", "cur", "rem", "ready", "isr", "n"} \subseteq DOMAIN k
    BY DEF Kernel
  <2> HIDE DEF e
  <2>4. /\ DOMAIN g = DOMAIN k /\ g.error = k.error
        /\ DOMAIN h = DOMAIN k /\ h.error = k.error
    BY <2>2, <2>3
  <2> HIDE DEF g, h
  <2>5. DOMAIN w = DOMAIN k /\ w.error = k.error
    BY <2>3, <2>4 DEF Rotate
  <2> HIDE DEF w
  <2>6. DOMAIN Sched(w) = DOMAIN k /\ Sched(w).error = k.error
    BY <2>3, <2>5 DEF Sched
  <2>7. DOMAIN Charge(e) = DOMAIN k /\ Charge(e).error = k.error
    BY <2>1, <2>4, <2>5, <2>6
  <2>8. TickIncrease(k).error = Charge(e).error
    BY <2>3, <2>7 DEF TickIncrease, e
  <2> QED  BY <2>7, <2>8
<1>6. \A m : SetLock(k, m).error = k.error
  BY DEF SetLock, Kernel
<1> QED  BY <1>1, <1>2, <1>3, <1>4, <1>5, <1>6

(* After a callback no other timer has become active. *)
LEMMA TimerAfterAct ==
    ASSUME NEW k \in Kernel, NEW x
    PROVE  TimerAfter(k, x).act \subseteq k.act \cup {x}
BY DEF TimerAfter, TimerStart, Kernel

(* os_task_timeout: the task leaves the list it waits in, with OS_TIMEOUT. *)
LEMMA TaskTimeoutPend ==
    ASSUME NEW k, NEW D, KernelOK(k, D), NEW t \in Task,
           NEW r, r = TaskTimeout(k, t)
    PROVE  /\ r.pend = [o \in Obj |-> Unlink(k.pend[o], t)]
           /\ r.error = [k.error EXCEPT ![t] = "OS_TIMEOUT"]
<1> DEFINE a == [k EXCEPT !.error[t] = "OS_TIMEOUT"]
           q == TlistRemove(a, t)
           b == SchedInsert(q, t)
<1>1. /\ a \in Kernel /\ a.pend = k.pend
      /\ a.error = [k.error EXCEPT ![t] = "OS_TIMEOUT"]
  BY DEF KernelOK, Kernel, Errno
<1>2. r = Sched(b)
  BY DEF TaskTimeout
<1> HIDE DEF a
<1>3. DOMAIN q = DOMAIN a /\ q.error = a.error
      /\ q.pend = [o \in Obj |-> Unlink(a.pend[o], t)]
  BY <1>1 DEF TlistRemove, Kernel
<1>4. {"pend", "error", "cur"} \subseteq DOMAIN a
  BY <1>1 DEF Kernel
<1> HIDE DEF q
<1>5. DOMAIN b = DOMAIN a /\ b.error = q.error /\ b.pend = q.pend
  BY <1>3, <1>4 DEF SchedInsert
<1> HIDE DEF b
<1>6. r.error = b.error /\ r.pend = b.pend
  BY <1>2, <1>4, <1>5 DEF Sched
<1> QED  BY <1>1, <1>3, <1>5, <1>6

SetPend(k, o, m) == [k EXCEPT !.pend[o] = m]

(* A READY task is suspended and put somewhere in one pending list.        *)
LEMMA SuspendInList ==
    ASSUME NEW k, NEW D, KernelOK(k, D), NEW t \in Task, t \notin D,
           k.stat[t] = "READY", NEW o \in Obj, NEW m, IsList(m, Task),
           ToSet(m) = ToSet(k.pend[o]) \cup {t},
           NEW r, r = SetPend(SuspendReady(k, t), o, m)
    PROVE  /\ KernelOK(r, D)
           /\ r.stat = [k.stat EXCEPT ![t] = "SUSPEND"]
           /\ r.prio = k.prio /\ r.error = k.error /\ r.defunct = k.defunct
           /\ ToSet(r.timers) = ToSet(k.timers) /\ r.act = k.act \ {t}
           /\ SameControl(k, r)
           /\ r.pend = [k.pend EXCEPT ![o] = m]
<1> DEFINE s == SuspendReady(k, t)
           g == [k.pend EXCEPT ![o] = m]
<1>1. /\ KernelOK(s, D)
      /\ s.stat = [k.stat EXCEPT ![t] = "SUSPEND"]
      /\ s.prio = k.prio /\ s.mask = k.mask /\ s.defunct = k.defunct
      /\ ToSet(s.timers) = ToSet(k.timers) \ {t} /\ s.act = k.act \ {t}
      /\ SameControl(k, s)
  BY SuspendReadyOK
<1>2. s.pend = k.pend /\ s.error = k.error
  BY SuspendReadyPend
<1>3. t \notin ToSet(k.timers)
  BY DEF KernelOK, TimerList
<1>4. r = [s EXCEPT !.pend[o] = m]
  BY DEF SetPend
<1> HIDE DEF s
<1>8. m \in Seq(Task) /\ k.pend \in [Obj -> Seq(Task)]
  BY DEF IsList, KernelOK, Kernel
<1>9. g \in [Obj -> Seq(Task)] /\ g[o] = m /\ \A q \in Obj \ {o} : g[q] = k.pend[q]
  BY <1>8
<1>10. r = [s EXCEPT !.pend = g] /\ s \in Kernel
  BY <1>1, <1>2, <1>4 DEF KernelOK, Kernel
<1>11. r.pend = [k.pend EXCEPT ![o] = m]
  BY <1>2, <1>4, <1>10 DEF Kernel
<1> HIDE DEF g
<1>12. r \in Kernel
  BY <1>9, <1>10 DEF Kernel
<1>13. /\ r.pend = g /\ r.error = s.error /\ r.ready = s.ready
       /\ r.bitmap = s.bitmap /\ r.defunct = s.defunct
       /\ SameTasks(s, r) /\ SameTimers(s, r) /\ SameControl(s, r)
  BY <1>10 DEF Kernel, SameTasks, SameTimers, SameControl
<1>14. r.stat[t] = "SUSPEND"
  <2>1. k.stat \in [Task -> Stat]  BY DEF KernelOK, Kernel
  <2> QED  BY <1>1, <1>13, <2>1 DEF SameTasks
<1>15. PendingLists(r, D)
  <2> SUFFICES ASSUME NEW q \in Obj
               PROVE  /\ IsInjective(g[q])
                      /\ \A u \in ToSet(g[q]) : r.stat[u] = "SUSPEND" /\ u \notin D
    BY <1>13 DEF PendingLists
  <2>1. PendingLists(s, D)  BY <1>1 DEF KernelOK
  <2>2. CASE q = o
    BY <1>2, <1>9, <1>13, <1>14, <2>1, <2>2
       DEF PendingLists, IsList, SameTasks
  <2>3. CASE q # o
    BY <1>2, <1>9, <1>13, <2>1, <2>3 DEF PendingLists, SameTasks
  <2> QED  BY <2>2, <2>3
<1>16. ReadyLists(r, D) /\ DefunctList(r, D) /\ Bitmap(r) /\ Masks(r) /\ TimerList(r)
  <2>1. /\ r.ready = s.ready /\ r.defunct = s.defunct /\ r.bitmap = s.bitmap
        /\ r.stat = s.stat /\ r.prio = s.prio /\ r.mask = s.mask
        /\ r.timers = s.timers /\ r.act = s.act
    BY <1>13 DEF SameTasks, SameTimers
  <2>2. ReadyLists(s, D) /\ DefunctList(s, D) /\ Bitmap(s) /\ Masks(s) /\ TimerList(s)
    BY <1>1 DEF KernelOK
  <2>3. ReadyLists(r, D)
    BY <2>1, <2>2 DEF ReadyLists
  <2>4. DefunctList(r, D) /\ Bitmap(r) /\ Masks(r)
    BY <2>1, <2>2 DEF DefunctList, Bitmap, Masks
  <2>5. TimerList(r)
    BY <2>1, <2>2 DEF TimerList
  <2> QED
    BY <2>3, <2>4, <2>5
<1>17. KernelOK(r, D)
  BY <1>12, <1>15, <1>16 DEF KernelOK
<1> QED
  BY <1>1, <1>2, <1>3, <1>11, <1>13, <1>17
     DEF SameTasks, SameTimers, SameControl

(* os_list_suspend puts a READY task in one pending list, at its end or    *)
(* before the first task that is less urgent.                              *)
LEMMA ListSuspendOK ==
    ASSUME NEW k, NEW D, KernelOK(k, D), NEW t \in Task, t \notin D,
           k.stat[t] = "READY", NEW o \in Obj, NEW flag,
           NEW r, r = ListSuspend(k, o, t, flag)
    PROVE  /\ KernelOK(r, D)
           /\ r.stat = [k.stat EXCEPT ![t] = "SUSPEND"]
           /\ r.prio = k.prio /\ r.error = k.error /\ r.defunct = k.defunct
           /\ ToSet(r.timers) = ToSet(k.timers) /\ r.act = k.act \ {t}
           /\ SameControl(k, r)
           /\ \E i \in 1..Len(k.pend[o]) + 1 :
                 /\ r.pend = [k.pend EXCEPT ![o] = InsertAt(@, i, t)]
                 /\ flag = "OS_IPC_FIFO" => i = Len(k.pend[o]) + 1
                 /\ flag # "OS_IPC_FIFO" =>
                       /\ \A j \in 1..i - 1 : ~(k.prio[t] < k.prio[k.pend[o][j]])
                       /\ i <= Len(k.pend[o]) => k.prio[t] < k.prio[k.pend[o][i]]
<1>1. SuspendReady(k, t).prio = k.prio
  <2> DEFINE s == SuspendReady(k, t)
  <2>1. /\ KernelOK(s, D)
        /\ s.stat = [k.stat EXCEPT ![t] = "SUSPEND"]
        /\ s.prio = k.prio /\ s.mask = k.mask /\ s.defunct = k.defunct
        /\ ToSet(s.timers) = ToSet(k.timers) \ {t} /\ s.act = k.act \ {t}
        /\ SameControl(k, s)
    BY SuspendReadyOK
  <2> QED  BY <2>1
<1>2. SuspendReady(k, t).pend = k.pend
  BY SuspendReadyPend
<1> DEFINE l == k.pend[o]
           A == {u \in Task : k.prio[t] < k.prio[u]}
           i == IF flag = "OS_IPC_FIFO" THEN Len(l) + 1 ELSE FirstIn(l, A)
           m == InsertAt(l, i, t)
<1>3. t \notin ToSet(l) /\ IsList(l, Task)
  BY DEF KernelOK, PendingLists, Kernel, IsList
<1>4. r = SetPend(SuspendReady(k, t), o, m)
  BY <1>1, <1>2 DEF ListSuspend, TaskSuspend, SetPend
<1>5. i \in 1..Len(l) + 1
  <2>1. l \in Seq(Task) /\ Len(l) + 1 \in 1..Len(l) + 1  BY <1>3 DEF IsList
  <2> QED  BY <2>1, FirstInExists
<1>6. /\ flag = "OS_IPC_FIFO" => i = Len(l) + 1
      /\ flag # "OS_IPC_FIFO" =>
            /\ \A j \in 1..i - 1 : ~(k.prio[t] < k.prio[l[j]])
            /\ i <= Len(l) => k.prio[t] < k.prio[l[i]]
  <2>1. CASE flag = "OS_IPC_FIFO"  BY <2>1
  <2>2. CASE flag # "OS_IPC_FIFO"
    <3> DEFINE f == FirstIn(l, A)
    <3>1. l \in Seq(Task) /\ Len(l) \in Nat /\ \A j \in 1..Len(l) : l[j] \in Task
      BY <1>3 DEF IsList
    <3>2. /\ f \in 1..Len(l) + 1
          /\ \A j \in 1..f - 1 : l[j] \notin A
          /\ f <= Len(l) => l[f] \in A
      BY <3>1, FirstInExists
    <3>3. i = f
      BY <2>2
    <3> HIDE DEF f
    <3>4. \A j \in 1..f - 1 : j \in 1..Len(l)
      BY <3>1, <3>2
    <3> QED  BY <2>2, <3>1, <3>2, <3>3, <3>4
  <2> QED  BY <2>1, <2>2
<1> HIDE DEF i
<1>7. IsList(m, Task) /\ ToSet(m) = ToSet(k.pend[o]) \cup {t}
  BY <1>3, <1>5, InsertAtList
<1>8. m = InsertAt(k.pend[o], i, t)
  OBVIOUS
<1> HIDE DEF m, A, l
<1>9. /\ KernelOK(r, D)
      /\ r.stat = [k.stat EXCEPT ![t] = "SUSPEND"]
      /\ r.prio = k.prio /\ r.error = k.error /\ r.defunct = k.defunct
      /\ ToSet(r.timers) = ToSet(k.timers) /\ r.act = k.act \ {t}
      /\ SameControl(k, r)
      /\ r.pend = [k.pend EXCEPT ![o] = m]
  BY <1>4, <1>7, SuspendInList
<1> QED
  BY <1>5, <1>6, <1>8, <1>9 DEF l

Foremost(k, o) == k.pend[o][1]

(* Task t leaves the head of the list of o, and its timer stops.           *)
Leaves(k, r, o, t) ==
    /\ t \in Task /\ t \in ToSet(k.pend[o]) /\ k.stat[t] = "SUSPEND"
    /\ r.stat = [k.stat EXCEPT ![t] = "READY"]
    /\ r.prio = k.prio /\ r.defunct = k.defunct
    /\ r.pend = [q \in Obj |-> Unlink(k.pend[q], t)]
    /\ r.pend[o] = Tail(k.pend[o])
    /\ ToSet(r.timers) = ToSet(k.timers) \ {t} /\ r.act = k.act \ {t}
    /\ t \notin k.act => r.timers = k.timers
    /\ SameControl(k, r)

(* The head of a pending list that is not empty.                           *)
LEMMA ForemostOK ==
    ASSUME NEW k, NEW D, KernelOK(k, D), NEW o \in Obj, k.pend[o] # <<>>,
           NEW t, t = Foremost(k, o)
    PROVE  /\ t \in Task /\ t \in ToSet(k.pend[o])
           /\ k.stat[t] = "SUSPEND" /\ t \notin D
           /\ Unlink(k.pend[o], t) = Tail(k.pend[o])
<1>1. IsList(k.pend[o], Task)
  BY DEF KernelOK, Kernel, PendingLists, IsList
<1>2. t \in Task /\ t \in ToSet(k.pend[o])
  BY <1>1, MemberOfList DEF Foremost
<1>3. k.stat[t] = "SUSPEND" /\ t \notin D
  BY <1>2 DEF KernelOK, PendingLists
<1>4. Unlink(k.pend[o], t) = Tail(k.pend[o])
  BY <1>1, UnlinkFirst DEF Foremost
<1> QED  BY <1>2, <1>3, <1>4

(* os_list_resume: the first task of the list goes, the others stay.       *)
LEMMA ListResumeOK ==
    ASSUME NEW k, NEW D, KernelOK(k, D), NEW o \in Obj, k.pend[o] # <<>>,
           NEW r, r = ListResume(k, o)
    PROVE  /\ KernelOK(r, D) /\ Leaves(k, r, o, Foremost(k, o))
           /\ r.error = k.error
<1> DEFINE t == Foremost(k, o)
           q == TaskResume(k, t)
<1>1. /\ t \in Task /\ t \in ToSet(k.pend[o])
      /\ k.stat[t] = "SUSPEND" /\ t \notin D
      /\ Unlink(k.pend[o], t) = Tail(k.pend[o])
  BY ForemostOK
<1>2. r = q
  BY DEF ListResume, Foremost
<1> HIDE DEF t
<1>3. /\ KernelOK(q, D)
      /\ k.stat[t] = "SUSPEND" => q.stat = [k.stat EXCEPT ![t] = "READY"]
      /\ k.stat[t] # "SUSPEND" => q = k
      /\ q.prio = k.prio /\ q.mask = k.mask /\ q.defunct = k.defunct
      /\ ToSet(q.timers) = ToSet(k.timers) \ {t}
      /\ t \notin k.act => q.timers = k.timers
      /\ SameControl(k, q)
  BY <1>1, TaskResumeOK, Zenon
<1>4. /\ q.pend = [p \in Obj |-> Unlink(k.pend[p], t)]
      /\ q.error = k.error /\ q.act = k.act \ {t}
  BY <1>1, TaskResumePend
<1> HIDE DEF q
<1>5. Leaves(k, r, o, t)
  BY <1>1, <1>2, <1>3, <1>4 DEF Leaves
<1> QED  BY <1>2, <1>3, <1>4, <1>5 DEF t

(* One turn of os_list_resume_all: the same, and the task gets OS_ERROR.   *)
LEMMA WakeHeadOK ==
    ASSUME NEW k, NEW D, KernelOK(k, D), NEW o \in Obj, k.pend[o] # <<>>,
           NEW r, r = WakeHead(k, o)
    PROVE  /\ KernelOK(r, D) /\ Leaves(k, r, o, Foremost(k, o))
           /\ r.error = [k.error EXCEPT ![Foremost(k, o)] = "OS_ERROR"]
<1> DEFINE e == "OS_ERROR"
           t == Foremost(k, o)
           a == SetError(k, t, e)
           q == ListResume(a, o)
<1>1. t \in Task
  BY ForemostOK
<1>2. r = TaskResume(a, t)
  BY DEF WakeHead, ResumeError, SetError, Foremost
<1>3. /\ KernelOK(a, D)
      /\ SameLists(k, a) /\ SameTasks(k, a) /\ SameTimers(k, a)
      /\ SameControl(k, a)
  <2>1. e \in Errno  BY DEF Errno
  <2> HIDE DEF e, t
  <2> QED  BY <1>1, <2>1, SetErrorOK
<1>4. a.error = [k.error EXCEPT ![t] = e]
  BY DEF SetError, KernelOK, Kernel
<1> HIDE DEF a
<1>5. a.pend[o] # <<>> /\ Foremost(a, o) = t
  BY <1>3 DEF SameLists, Foremost
<1>6. r = q
  BY <1>2, <1>5 DEF ListResume, Foremost
<1>7. KernelOK(q, D) /\ Leaves(a, q, o, Foremost(a, o)) /\ q.error = a.error
  BY <1>3, <1>5, ListResumeOK
<1> HIDE DEF t, q
<1>8. /\ a.stat = k.stat /\ a.prio = k.prio /\ a.defunct = k.defunct
      /\ a.pend = k.pend /\ a.timers = k.timers /\ a.act = k.act
  BY <1>3 DEF SameLists, SameTasks, SameTimers
<1>9. Leaves(k, r, o, t)
  <2>1. Leaves(a, r, o, t)  BY <1>5, <1>6, <1>7
  <2> QED  BY <1>3, <1>8, <2>1 DEF Leaves, SameControl
<1> QED  BY <1>4, <1>6, <1>7, <1>9 DEF t

(* The loop of os_list_resume_all takes as many turns as the list is long: *)
(* the state after each turn exists and follows from the one before.       *)
Turns(f, k, o, n) ==
    f = [i \in 0..n |-> IF i = 0 THEN k ELSE WakeHead(f[i - 1], o)]

(* os_list_resume_all has as many turns as the list has entries.           *)
LEMMA TurnsExist ==
    ASSUME NEW k, NEW o, NEW n \in Nat
    PROVE  \E f : Turns(f, k, o, n)
<1> DEFINE T == {m \in Nat : ~ \E f : Turns(f, k, o, m)}
<1>1. SUFFICES T = {}
  OBVIOUS
<1>2. SUFFICES ASSUME T # {} PROVE FALSE
  OBVIOUS
<1>3. PICK m \in T : \A j \in T : m <= j
  <2>1. T \subseteq Nat  OBVIOUS
  <2> HIDE DEF T
  <2> QED  BY <1>2, <2>1, LeastNatural
<1>4. CASE m = 0
  <2> DEFINE f == [i \in 0..0 |-> k]
  <2>1. \A i \in 0..0 : i = 0  OBVIOUS
  <2>2. f = [i \in 0..0 |-> IF i = 0 THEN k ELSE WakeHead(f[i - 1], o)]
    BY <2>1
  <2>3. Turns(f, k, o, m)  BY <1>4, <2>2 DEF Turns
  <2> HIDE DEF f
  <2> QED  BY <2>3
<1>5. CASE m # 0
  <2>1. m - 1 \in Nat /\ ~(m <= m - 1)  BY <1>5
  <2>2. m - 1 \notin T  BY <1>3, <2>1
  <2>3. PICK g : Turns(g, k, o, m - 1)  BY <2>1, <2>2
  <2> DEFINE f == [i \in 0..m |->
                IF i = m THEN WakeHead(g[m - 1], o) ELSE g[i]]
  <2>4. ASSUME NEW i \in 0..m
        PROVE  f[i] = IF i = 0 THEN k ELSE WakeHead(f[i - 1], o)
    <3>1. CASE i = 0
      <4>1. 0 \in 0..m - 1 /\ f[0] = g[0]  BY <1>5
      <4>2. g[0] = k  BY <2>3, <4>1 DEF Turns
      <4> QED  BY <3>1, <4>1, <4>2
    <3>2. CASE i = m
      <4>1. m - 1 \in 0..m /\ m - 1 # m /\ m \in 0..m  BY <1>5
      <4>2. f[m - 1] = g[m - 1] /\ f[m] = WakeHead(g[m - 1], o)  BY <4>1
      <4> HIDE DEF f
      <4> QED  BY <1>5, <3>2, <4>2
    <3>3. CASE i # 0 /\ i # m
      <4>1. i \in 0..m - 1 /\ i - 1 \in 0..m /\ i - 1 # m  BY <3>3
      <4>2. f[i] = g[i] /\ f[i - 1] = g[i - 1]  BY <3>3, <4>1
      <4>3. g[i] = WakeHead(g[i - 1], o)  BY <2>3, <3>3, <4>1 DEF Turns
      <4> HIDE DEF f
      <4> QED  BY <3>3, <4>2, <4>3
    <3> QED  BY <3>1, <3>2, <3>3
  <2>5. f = [i \in 0..m |-> f[i]]
    OBVIOUS
  <2> HIDE DEF f
  <2>6. Turns(f, k, o, m)  BY <2>4, <2>5 DEF Turns
  <2> QED  BY <2>6
<1> QED  BY <1>4, <1>5

(* What the loop has done to the tasks of the list, r being a state in it. *)
Emptied(k, r, o) ==
    /\ ToSet(r.pend[o]) \subseteq ToSet(k.pend[o])
    /\ \A q \in Obj : ToSet(r.pend[q])
          = ToSet(k.pend[q]) \ (ToSet(k.pend[o]) \ ToSet(r.pend[o]))
    /\ r.prio = k.prio /\ SameControl(k, r)
    /\ r.act \subseteq k.act /\ ToSet(r.timers) \subseteq ToSet(k.timers)
    /\ \A t \in Task :
          IF t \in ToSet(k.pend[o]) /\ t \notin ToSet(r.pend[o])
          THEN /\ r.stat[t] = "READY" /\ r.error[t] = "OS_ERROR"
               /\ t \notin ToSet(r.timers)
          ELSE /\ r.stat[t] = k.stat[t] /\ r.error[t] = k.error[t]
               /\ t \in ToSet(r.timers) <=> t \in ToSet(k.timers)

(* s is a state of the loop in which m tasks are left in the list.         *)
Left(k, D, s, o, m) ==
    KernelOK(s, D) /\ Emptied(k, s, o) /\ Len(s.pend[o]) = m

(* One turn of os_list_resume_all resumes the head of the list.            *)
LEMMA EmptiedStep ==
    ASSUME NEW k \in Kernel, NEW D, NEW s, NEW o \in Obj, NEW m \in Nat \ {0},
           Left(k, D, s, o, m), NEW r, r = WakeHead(s, o)
    PROVE  Left(k, D, r, o, m - 1)
<1> KernelOK(s, D) /\ Emptied(k, s, o) /\ Len(s.pend[o]) = m /\ s.pend[o] # <<>>
  BY DEF Left
<1> DEFINE t == Foremost(s, o)
<1>0. /\ KernelOK(r, D) /\ Leaves(s, r, o, t)
      /\ r.error = [s.error EXCEPT ![t] = "OS_ERROR"]
  BY WakeHeadOK
<1>1. /\ t \in Task /\ t \in ToSet(s.pend[o]) /\ t = s.pend[o][1]
      /\ r.stat = [s.stat EXCEPT ![t] = "READY"]
      /\ r.prio = s.prio
      /\ r.pend[o] = Tail(s.pend[o])
      /\ r.pend = [q \in Obj |-> Unlink(s.pend[q], t)]
      /\ ToSet(r.timers) = ToSet(s.timers) \ {t} /\ r.act = s.act \ {t}
      /\ SameControl(s, r)
  BY <1>0 DEF Leaves, Foremost
<1> HIDE DEF t
<1>2. IsList(s.pend[o], Task)
  BY DEF KernelOK, Kernel, PendingLists, IsList
<1>3. ToSet(r.pend[o]) = ToSet(s.pend[o]) \ {t}
  BY <1>1, <1>2, TailList
<1>4. Len(r.pend[o]) = Len(s.pend[o]) - 1
  BY <1>1, <1>2, HeadTailProperties DEF IsList
<1>5. /\ r.stat[t] = "READY" /\ r.error[t] = "OS_ERROR"
      /\ \A u \in Task \ {t} : r.stat[u] = s.stat[u] /\ r.error[u] = s.error[u]
  <2>1. s.stat \in [Task -> Stat] /\ s.error \in [Task -> Errno]
    BY DEF KernelOK, Kernel
  <2> QED  BY <1>0, <1>1, <2>1
<1>7. ASSUME NEW q \in Obj
      PROVE  ToSet(r.pend[q])
               = ToSet(k.pend[q]) \ (ToSet(k.pend[o]) \ ToSet(r.pend[o]))
  <2>1. IsList(s.pend[q], Task)
    BY DEF KernelOK, Kernel, PendingLists, IsList
  <2>2. r.pend[q] = Unlink(s.pend[q], t)
    BY <1>1
  <2>3. ToSet(r.pend[q]) = ToSet(s.pend[q]) \ {t}
    BY <2>1, <2>2, UnlinkList
  <2>4. /\ ToSet(s.pend[q])
             = ToSet(k.pend[q]) \ (ToSet(k.pend[o]) \ ToSet(s.pend[o]))
        /\ ToSet(s.pend[o]) \subseteq ToSet(k.pend[o])
    BY DEF Emptied
  <2> QED  BY <1>1, <1>3, <2>3, <2>4
<1>6. Emptied(k, r, o)
  <2>1. /\ ToSet(r.pend[o]) \subseteq ToSet(k.pend[o])
        /\ r.prio = k.prio /\ SameControl(k, r)
        /\ r.act \subseteq k.act /\ ToSet(r.timers) \subseteq ToSet(k.timers)
    BY <1>1, <1>3 DEF Emptied, SameControl
  <2>2. ASSUME NEW u \in Task
        PROVE  IF u \in ToSet(k.pend[o]) /\ u \notin ToSet(r.pend[o])
               THEN /\ r.stat[u] = "READY" /\ r.error[u] = "OS_ERROR"
                    /\ u \notin ToSet(r.timers)
               ELSE /\ r.stat[u] = k.stat[u] /\ r.error[u] = k.error[u]
                    /\ u \in ToSet(r.timers) <=> u \in ToSet(k.timers)
    <3>1. CASE u = t
      BY <3>1, <1>1, <1>3, <1>5 DEF Emptied
    <3>2. CASE u # t
      BY <3>2, <1>1, <1>3, <1>5 DEF Emptied
    <3> QED  BY <3>1, <3>2
  <2> QED  BY <1>7, <2>1, <2>2 DEF Emptied
<1> QED  BY <1>0, <1>4, <1>6 DEF Left

(* os_list_resume_all in a critical section: the list is empty, everybody  *)
(* who was in it is READY and has OS_ERROR, nobody else is affected.       *)
LEMMA ListResumeAllOK ==
    ASSUME NEW k, NEW D, KernelOK(k, D), NEW o \in Obj,
           NEW r, r = ListResumeAll(k, o)
    PROVE  KernelOK(r, D) /\ Emptied(k, r, o) /\ r.pend[o] = <<>>
<1> DEFINE n == Len(k.pend[o])
           turn == CHOOSE f : Turns(f, k, o, n)
           P(i) == Left(k, D, turn[i], o, n - i)
           T == {i \in 0..n : ~P(i)}
<1>1. n \in Nat /\ k \in Kernel
  BY DEF KernelOK, Kernel
<1>2. r = turn[n]
  BY DEF ListResumeAll, Turns
<1>3. Turns(turn, k, o, n)
  BY <1>1, TurnsExist
<1> HIDE DEF n, turn
<1>4. /\ turn[0] = k
      /\ \A i \in 1..n : turn[i] = WakeHead(turn[i - 1], o)
  <2>1. 0 \in 0..n /\ \A i \in 1..n : i \in 0..n /\ i # 0  BY <1>1
  <2>2. \A i \in 0..n :
           turn[i] = IF i = 0 THEN k ELSE WakeHead(turn[i - 1], o)
    BY <1>3 DEF Turns
  <2> QED  BY <2>1, <2>2
<1>5. P(0)
  BY <1>1, <1>4 DEF Left, Emptied, SameControl, n
<1>6. ASSUME NEW i \in 1..n, P(i - 1) PROVE P(i)
  <2> DEFINE m == n - (i - 1)
             q == turn[i]
  <2>1. m \in Nat \ {0} /\ m - 1 = n - i
    BY <1>1
  <2>2. Left(k, D, turn[i - 1], o, m) /\ q = WakeHead(turn[i - 1], o)
    BY <1>4, <1>6
  <2> HIDE DEF m, q
  <2>3. Left(k, D, q, o, m - 1)
    BY <1>1, <2>1, <2>2, EmptiedStep
  <2> QED  BY <2>1, <2>3 DEF q
<1> HIDE DEF P
<1>7. T = {}
  <2>1. SUFFICES ASSUME T # {} PROVE FALSE
    OBVIOUS
  <2>2. T \subseteq Nat
    BY <1>1
  <2>3. PICK i \in T : \A j \in T : i <= j
    <3> HIDE DEF T
    <3> QED  BY <2>1, <2>2, LeastNatural
  <2>4. CASE i = 0
    BY <1>5, <2>4
  <2>5. CASE i # 0
    <3>1. i \in 1..n /\ i - 1 \in 0..n /\ ~(i <= i - 1)  BY <1>1, <2>5
    <3>2. P(i - 1)  BY <2>3, <3>1
    <3>3. P(i)  BY <1>6, <3>1, <3>2
    <3> QED  BY <3>3
  <2> QED  BY <2>4, <2>5
<1>8. P(n)
  <2>1. n \in 0..n  BY <1>1
  <2> QED  BY <1>7, <2>1
<1>9. KernelOK(r, D) /\ Emptied(k, r, o) /\ Len(r.pend[o]) = 0
  BY <1>1, <1>2, <1>8 DEF P, Left
<1>10. r.pend[o] = <<>>
  <2>1. r.pend[o] \in Seq(Task)  BY <1>9 DEF KernelOK, Kernel
  <2> QED  BY <1>9, <2>1
<1> QED  BY <1>9, <1>10

-----------------------------------------------------------------------------
(* The state after main() *)

(* Some sequence lists a finite set, each member once.                     *)
LEMMA SetToSeqList ==
    ASSUME NEW S, IsFiniteSet(S), NEW s, s = SetToSeq(S)
    PROVE  IsList(s, S) /\ ToSet(s) = S
<1> DEFINE n == Cardinality(S)
<1>1. n \in Nat /\ ExistsBijection(1..n, S)
  BY FS_CardinalityType
<1> HIDE DEF n
<1>2. PICK f : f \in Bijection(1..n, S)
  BY <1>1 DEF ExistsBijection
<1>3. f \in [1..n -> S] /\ IsInjective(f)
  BY <1>2 DEF Bijection, Injection
<1>4. s \in [1..n -> S] /\ IsInjective(s)
  BY <1>3 DEF SetToSeq, n
<1>5. s \in Injection(1..n, S)
  BY <1>4 DEF Injection
<1>6. IsFiniteSet(1..n) /\ Cardinality(1..n) = n
  BY <1>1, FS_Interval
<1>7. s \in Surjection(1..n, S)
  BY <1>5, <1>6, FS_Injection DEF n
<1>8. s \in Seq(S) /\ DOMAIN s = 1..n
  BY <1>1, <1>4
<1>9. ToSet(s) = S
  BY <1>4, <1>7, <1>8 DEF Surjection, ToSet
<1> QED  BY <1>4, <1>8, <1>9 DEF IsList

(* Every task has been started: all are READY, os_sched has chosen one.    *)
LEMMA RunningOK ==
    ASSUME IsFiniteSet(Task), NEW prio \in [Task -> Prio],
           NEW r, r = Running(prio)
    PROVE  /\ KernelOK(r, {})
           /\ \A t \in Task : r.stat[t] = "READY" /\ r.error[t] = "OS_OK"
           /\ \A o \in Obj : r.pend[o] = <<>>
           /\ r.prio = prio /\ r.timers = <<>> /\ r.act = {}
           /\ r.lock = 0 /\ r.isr = 0 /\ r.n = ListHead /\ r.cur \in Task
           /\ \A u \in Task : r.prio[r.cur] <= r.prio[u]
<1> DEFINE level(p) == {t \in Task : prio[t] = p}
           rd == [p \in Prio |-> SetToSeq(level(p))]
           bm == {prio[t] : t \in Task}
           st == [t \in Task |-> "READY"]
           mk == [t \in Task |-> {prio[t]}]
           er == [t \in Task |-> "OS_OK"]
           lf == [x \in Timer |-> 0]
           pe == [o \in Obj |-> <<>>]
           e0 == [p \in Prio |-> <<>>]
           i0 == [t \in Task |-> "INIT"]
           m0 == [t \in Task |-> {}]
           b == [Booted(prio) EXCEPT !.ready = rd, !.bitmap = bm, !.stat = st,
                                     !.mask = mk]
<1>1. r = Sched(b)
  BY DEF Running
<1> DEFINE z == Booted(prio)
<1>2. z =
        [ready |-> e0, pend |-> pe, defunct |-> <<>>, bitmap |-> {},
         stat |-> i0, prio |-> prio, mask |-> m0, error |-> er,
         rem |-> Slice, cur |-> NoTask, lock |-> 0, timers |-> <<>>,
         act |-> {}, left |-> lf, isr |-> 0, n |-> ListHead]
  BY Zenon DEF Booted
<1>3. \A p \in Prio : /\ IsList(rd[p], level(p)) /\ ToSet(rd[p]) = level(p)
                      /\ IsList(rd[p], Task)
  <2> SUFFICES ASSUME NEW p \in Prio
               PROVE  /\ IsList(rd[p], level(p)) /\ ToSet(rd[p]) = level(p)
                      /\ IsList(rd[p], Task)
    OBVIOUS
  <2>1. IsFiniteSet(level(p))
    <3>1. level(p) \in SUBSET Task  OBVIOUS
    <3> HIDE DEF level
    <3> QED  BY <3>1, FS_Subset
  <2>2. rd[p] = SetToSeq(level(p))
    OBVIOUS
  <2>3. level(p) \subseteq Task
    OBVIOUS
  <2> HIDE DEF rd, level
  <2>4. IsList(rd[p], level(p)) /\ ToSet(rd[p]) = level(p)
    BY <2>1, <2>2, SetToSeqList
  <2> QED  BY <2>3, <2>4 DEF IsList
<1>4. /\ rd \in [Prio -> Seq(Task)] /\ bm \in SUBSET Prio
      /\ st \in [Task -> Stat] /\ mk \in [Task -> SUBSET Prio]
      /\ er \in [Task -> Errno] /\ lf \in [Timer -> Nat \cup {Overdue}]
      /\ pe \in [Obj -> Seq(Task)] /\ e0 \in [Prio -> Seq(Task)]
      /\ i0 \in [Task -> Stat] /\ m0 \in [Task -> SUBSET Prio]
  <2>1. rd \in [Prio -> Seq(Task)]
    BY <1>3 DEF IsList
  <2> QED  BY <2>1 DEF Stat, Errno
<1>5. /\ \A t \in Task : /\ st[t] = "READY" /\ mk[t] = {prio[t]}
                         /\ er[t] = "OS_OK" /\ prio[t] \in bm
                         /\ prio[t] \in Prio
                         /\ \A p : t \in level(p) <=> prio[t] = p
      /\ \A p : level(p) \subseteq Task
      /\ \A p \in bm : \E t \in Task : prio[t] = p
      /\ \A o \in Obj : pe[o] = <<>>
  OBVIOUS
<1> HIDE DEF rd, bm, st, mk, er, lf, pe, e0, i0, m0, level, z
<1>6. z \in Kernel
  <2>1. /\ <<>> \in Seq(Task) /\ <<>> \in Seq(Timer) /\ {} \in SUBSET Timer
        /\ NoTask \in Task \cup {NoTask} /\ 0 \in Nat /\ 0 \in 0..1
        /\ ListHead \in Timer \cup {ListHead} /\ Slice \in [Task -> Nat \ {0}]
        /\ {} \in SUBSET Prio
    BY KernelAssumption
  <2> QED  BY <1>2, <1>4, <2>1, Zenon DEF Kernel
<1>7. /\ z.pend = pe /\ z.defunct = <<>> /\ z.prio = prio /\ z.error = er
      /\ z.lock = 0 /\ z.timers = <<>> /\ z.act = {} /\ z.isr = 0
      /\ z.n = ListHead
  BY <1>2
<1>8. b = [z EXCEPT !.ready = rd, !.bitmap = bm, !.stat = st, !.mask = mk]
  BY DEF z
<1> HIDE DEF b
<1>9. b \in Kernel
  BY <1>4, <1>6, <1>8 DEF Kernel
<1>10. /\ b.ready = rd /\ b.pend = pe /\ b.defunct = <<>> /\ b.bitmap = bm
       /\ b.stat = st /\ b.prio = prio /\ b.mask = mk /\ b.error = er
       /\ b.lock = 0 /\ b.timers = <<>> /\ b.act = {} /\ b.isr = 0
       /\ b.n = ListHead
  BY <1>6, <1>7, <1>8 DEF Kernel
<1>11. ReadyLists(b, {})
  <2>1. ASSUME NEW p \in Prio
        PROVE  /\ IsInjective(b.ready[p])
               /\ \A t \in ToSet(b.ready[p]) : b.stat[t] = "READY" /\ b.prio[t] = p
    BY <1>3, <1>5, <1>10 DEF IsList
  <2>2. ASSUME NEW t \in Task PROVE t \in ToSet(b.ready[b.prio[t]])
    BY <1>3, <1>5, <1>10
  <2> QED  BY <2>1, <2>2 DEF ReadyLists
<1>12. PendingLists(b, {}) /\ DefunctList(b, {}) /\ TimerList(b)
  BY <1>5, <1>10, EmptyList DEF PendingLists, DefunctList, TimerList, IsList
<1>13. Bitmap(b)
  <2>1. ASSUME NEW p \in Prio PROVE p \in bm <=> rd[p] # <<>>
    <3>1. rd[p] = <<>> <=> level(p) = {}
      BY <1>3, MemberOfList
    <3> QED  BY <1>5, <3>1
  <2> QED  BY <1>4, <1>10, <2>1 DEF Bitmap
<1>14. Masks(b)
  BY <1>5, <1>10 DEF Masks
<1>15. KernelOK(b, {}) /\ b.stat[Idle] = "READY"
  BY <1>5, <1>9, <1>10, <1>11, <1>12, <1>13, <1>14, KernelAssumption DEF KernelOK
<1> DEFINE N == {}
<1>16. KernelOK(b, N) /\ Idle \notin N
  BY <1>15
<1> HIDE DEF N
<1>17. /\ KernelOK(r, N)
       /\ SameLists(b, r) /\ SameTasks(b, r) /\ SameTimers(b, r)
       /\ r.lock = b.lock /\ r.isr = b.isr /\ r.n = b.n
       /\ b.lock # 0 => r.cur = b.cur
       /\ b.lock = 0 =>
             /\ r.cur \in Task /\ r.cur \notin N /\ b.stat[r.cur] = "READY"
             /\ \A u \in Task : u \notin N /\ b.stat[u] = "READY"
                                 => b.prio[r.cur] <= b.prio[u]
  BY <1>1, <1>15, <1>16, SchedOK
<1>18. r.error = b.error
  BY <1>1, <1>9, ErrorKept
<1>19. r.cur \in Task /\ \A u \in Task : r.prio[r.cur] <= r.prio[u]
  BY <1>5, <1>10, <1>17 DEF SameTasks, N
<1> QED
  BY <1>5, <1>10, <1>17, <1>18, <1>19 DEF SameLists, SameTasks, SameTimers, N

(* A list has as many entries as members.                                  *)
LEMMA ListSize ==
    ASSUME NEW q, NEW S, IsList(q, S)
    PROVE  Len(q) = Cardinality(ToSet(q)) /\ IsFiniteSet(ToSet(q))
<1> DEFINE n == Len(q)
<1>1. /\ n \in Nat /\ DOMAIN q = 1..n /\ q \in [1..n -> S]
      /\ \A i, j \in 1..n : q[i] = q[j] => i = j
  BY DEF IsList, IsInjective
<1>2. q \in Bijection(1..n, ToSet(q))
  BY <1>1 DEF Bijection, Injection, Surjection, ToSet, IsInjective
<1>3. ExistsBijection(1..n, ToSet(q))
  BY <1>2 DEF ExistsBijection
<1>4. Cardinality(ToSet(q)) = n
  BY <1>1, <1>3, FS_CountingElements
<1>5. IsFiniteSet(ToSet(q))
  BY <1>1, <1>3, FS_NatBijection
<1> QED  BY <1>4, <1>5

(* The list without its first entry.                                       *)
LEMMA TailLength ==
    ASSUME NEW q, NEW S, IsList(q, S), q # <<>>
    PROVE  Len(Tail(q)) = Len(q) - 1 /\ Len(q) > 0
BY DEF IsList

-----------------------------------------------------------------------------
(* Chains of cells                                                         *)

(* f[i] is where the pointer is after i - 1 steps. *)
Walk(f, next, p, null) ==
    f = [i \in 1..Cardinality(DOMAIN next) |->
            IF i = 1 THEN p
            ELSE IF f[i - 1] \in DOMAIN next THEN next[f[i - 1]] ELSE null]

(* The pointer passes the cells of s and stays at null after them.         *)
LEMMA FollowIs ==
    ASSUME NEW next, NEW p, NEW null, NEW s, IsFiniteSet(DOMAIN next),
           null \notin DOMAIN next, Leads(next, p, null, s)
    PROVE  /\ Len(s) <= Cardinality(DOMAIN next)
           /\ Cardinality(DOMAIN next) \in Nat
           /\ Follow(next, p, null) = [i \in 1..Cardinality(DOMAIN next) |->
                                          IF i <= Len(s) THEN s[i] ELSE null]
<1> DEFINE D == DOMAIN next
           n == Cardinality(D)
           g == [i \in 1..n |-> IF i <= Len(s) THEN s[i] ELSE null]
<1>1. n \in Nat /\ IsFiniteSet(D)
  BY FS_CardinalityType
<1>2. /\ IsList(s, D) /\ s \in Seq(D) /\ Len(s) \in Nat /\ DOMAIN s = 1..Len(s)
      /\ \A i \in 1..Len(s) : s[i] \in D
  BY DEF Leads, IsList
<1>3. Len(s) <= n
  <2>1. Len(s) = Cardinality(ToSet(s))
    BY <1>2, ListSize
  <2>2. ToSet(s) \subseteq D
    BY <1>2 DEF ToSet
  <2> QED  BY <1>1, <2>1, <2>2, FS_Subset
<1> HIDE DEF n
<1>4. Walk(g, next, p, null)
  <2> SUFFICES ASSUME NEW i \in 1..n
               PROVE  g[i] = IF i = 1 THEN p
                             ELSE IF g[i - 1] \in D THEN next[g[i - 1]] ELSE null
    BY DEF Walk, n
  <2>1. CASE i = 1
    <3>1. s = <<>> <=> ~(1 <= Len(s))
      BY <1>2
    <3> QED  BY <1>1, <2>1, <3>1 DEF Leads
  <2>2. CASE i # 1
    <3>1. i - 1 \in 1..n /\ i \in Nat /\ i - 1 \in Nat
      BY <1>1, <2>2
    <3>2. CASE i <= Len(s)
      <4>1. i - 1 \in 1..Len(s) /\ i - 1 # Len(s) /\ (i - 1) + 1 = i /\ i - 1 <= Len(s)
        BY <1>2, <2>2, <3>1, <3>2
      <4>2. next[s[i - 1]] = s[i]
        BY <4>1 DEF Leads
      <4>3. g[i - 1] = s[i - 1] /\ g[i] = s[i]
        BY <3>1, <3>2, <4>1
      <4> QED  BY <1>2, <2>2, <4>1, <4>2, <4>3
    <3>3. CASE i - 1 = Len(s)
      <4>1. Len(s) \in 1..Len(s) /\ ~(i <= Len(s)) /\ i - 1 <= Len(s)
        BY <1>2, <3>1, <3>3
      <4>2. next[s[i - 1]] = null
        BY <3>3, <4>1 DEF Leads
      <4>3. g[i - 1] = s[i - 1] /\ g[i] = null
        BY <3>1, <4>1
      <4> QED  BY <1>2, <2>2, <3>3, <4>1, <4>2, <4>3
    <3>4. CASE i - 1 > Len(s)
      <4>1. ~(i - 1 <= Len(s)) /\ ~(i <= Len(s))
        BY <1>2, <3>1, <3>4
      <4>2. g[i - 1] = null /\ g[i] = null
        BY <3>1, <4>1
      <4> QED  BY <2>2, <4>2
    <3> QED  BY <1>2, <3>1, <3>2, <3>3, <3>4
  <2> QED  BY <2>1, <2>2
<1> DEFINE h == CHOOSE f : Walk(f, next, p, null)
<1>5. Walk(h, next, p, null)
  BY <1>4
<1>6. Follow(next, p, null) = h
  BY DEF Follow, Walk
<1> HIDE DEF g, h
<1>7. h = g
  <2>1. /\ DOMAIN h = 1..n /\ h = [i \in 1..n |-> h[i]]
        /\ \A i \in 1..n : h[i] = IF i = 1 THEN p
                                  ELSE IF h[i - 1] \in D THEN next[h[i - 1]] ELSE null
    BY <1>5 DEF Walk, n
  <2>2. /\ DOMAIN g = 1..n /\ g = [i \in 1..n |-> g[i]]
        /\ \A i \in 1..n : g[i] = IF i = 1 THEN p
                                  ELSE IF g[i - 1] \in D THEN next[g[i - 1]] ELSE null
    BY <1>4 DEF Walk, n
  <2> DEFINE T == {i \in 1..n : h[i] # g[i]}
  <2>3. T = {}
    <3>1. SUFFICES ASSUME T # {} PROVE FALSE
      OBVIOUS
    <3>2. T \subseteq Nat
      OBVIOUS
    <3>3. PICK i \in T : \A j \in T : i <= j
      <4> HIDE DEF T
      <4> QED  BY <3>1, <3>2, LeastNatural
    <3>4. CASE i = 1
      BY <2>1, <2>2, <3>3, <3>4
    <3>5. CASE i # 1
      <4>1. i \in 1..n /\ h[i] # g[i] /\ i - 1 \in 1..n /\ ~(i <= i - 1)
        BY <1>1, <3>3, <3>5
      <4>2. h[i - 1] = g[i - 1]
        BY <3>3, <4>1
      <4> QED  BY <2>1, <2>2, <3>5, <4>1, <4>2
    <3> QED  BY <3>4, <3>5
  <2>4. \A i \in 1..n : h[i] = g[i]
    BY <2>3
  <2> QED  BY <2>1, <2>2, <2>4
<1> QED  BY <1>1, <1>3, <1>6, <1>7 DEF g, n

(* Chain finds the cells of s.                                             *)
LEMMA ChainIs ==
    ASSUME NEW next, NEW p, NEW null, NEW s, IsFiniteSet(DOMAIN next),
           null \notin DOMAIN next, Leads(next, p, null, s)
    PROVE  Chain(next, p, null) = s
<1> DEFINE at == Follow(next, p, null)
           n == Cardinality(DOMAIN next)
           m == Len(s)
           J == {j \in DOMAIN at : at[j] # null}
<1>1. /\ m <= n /\ n \in Nat
      /\ at = [i \in 1..n |-> IF i <= m THEN s[i] ELSE null]
  BY FollowIs
<1>2. /\ s \in Seq(DOMAIN next) /\ m \in Nat
      /\ \A i \in 1..m : s[i] \in DOMAIN next /\ s[i] # null
      /\ s = [i \in 1..m |-> s[i]]
  BY DEF Leads, IsList
<1> HIDE DEF at, n, m
<1>3. J = 1..m
  BY <1>1, <1>2
<1>4. Cardinality(1..m) = m
  BY <1>2, FS_Interval
<1>5. Chain(next, p, null) = [i \in 1..m |-> at[i]]
  BY <1>3, <1>4 DEF Chain, at
<1>6. \A i \in 1..m : at[i] = s[i]
  BY <1>1, <1>2
<1> QED  BY <1>2, <1>5, <1>6

(* The empty chain. *)
LEMMA LeadsNowhere ==
    ASSUME NEW next, NEW null
    PROVE  Leads(next, null, null, <<>>)
BY EmptyList DEF Leads, IsList

(* The first cell of the chain is taken off.                               *)
LEMMA LeadsTail ==
    ASSUME NEW next, NEW p, NEW null, NEW s, Leads(next, p, null, s), s # <<>>
    PROVE  /\ p = s[1] /\ p \in DOMAIN next
           /\ Leads(next, next[p], null, Tail(s))
<1>1. IsList(s, DOMAIN next) /\ p = s[1] /\ Len(s) \in Nat /\ Len(s) > 0
  BY DEF Leads, IsList
<1>2. /\ IsList(Tail(s), DOMAIN next) /\ Len(Tail(s)) = Len(s) - 1
      /\ \A i \in 1..Len(s) - 1 : Tail(s)[i] = s[i + 1]
      /\ s[1] \in DOMAIN next
  BY <1>1, TailList, HeadTailProperties DEF IsList
<1>3. next[s[1]] = IF Tail(s) = <<>> THEN null ELSE Tail(s)[1]
  <2>1. CASE Len(s) = 1
    <3>1. PICK r : r = Tail(s)
      OBVIOUS
    <3>2. r \in Seq(DOMAIN next) /\ Len(r) = 0
      BY <1>2, <2>1, <3>1 DEF IsList
    <3>3. r = <<>>
      BY <3>2
    <3> QED  BY <2>1, <3>1, <3>3 DEF Leads
  <2>2. CASE Len(s) # 1
    <3>1. Tail(s) # <<>> /\ 1 \in 1..Len(s) - 1 /\ 1 \in 1..Len(s)
      BY <1>1, <1>2, <2>2
    <3> QED  BY <1>2, <2>2, <3>1 DEF Leads
  <2> QED  BY <2>1, <2>2
<1>4. ASSUME NEW i \in 1..Len(Tail(s))
      PROVE  next[Tail(s)[i]] = IF i = Len(Tail(s)) THEN null ELSE Tail(s)[i + 1]
  <2>1. i \in 1..Len(s) - 1 /\ i + 1 \in 1..Len(s) /\ (i = Len(Tail(s)) <=> i + 1 = Len(s))
    BY <1>1, <1>2
  <2>2. i + 1 # Len(s) => i + 1 \in 1..Len(s) - 1
    BY <2>1, <1>1
  <2> QED  BY <1>2, <2>1, <2>2 DEF Leads
<1> QED  BY <1>1, <1>2, <1>3, <1>4 DEF Leads, IsList

(* A link of a cell outside of the chain changes.                          *)
LEMMA LeadsSame ==
    ASSUME NEW next, NEW p, NEW null, NEW s, Leads(next, p, null, s),
           NEW f, DOMAIN f = DOMAIN next,
           \A x \in DOMAIN next : x \in ToSet(s) => f[x] = next[x]
    PROVE  Leads(f, p, null, s)
<1>1. \A i \in 1..Len(s) : s[i] \in ToSet(s) /\ s[i] \in DOMAIN next
  BY DEF Leads, IsList, ToSet
<1> QED  BY <1>1 DEF Leads

(* A cell is linked in front of the chain.                                 *)
LEMMA LeadsCons ==
    ASSUME NEW next, NEW p, NEW null, NEW s, Leads(next, p, null, s),
           NEW x \in DOMAIN next, x \notin ToSet(s), next[x] = p
    PROVE  Leads(next, x, null, <<x>> \o s)
<1> DEFINE r == <<x>> \o s
<1>1. IsList(s, DOMAIN next) /\ Len(s) \in Nat /\ (s = <<>> <=> Len(s) = 0)
  BY DEF Leads, IsList
<1>2. IsList(r, DOMAIN next)
  BY <1>1, ConsList
<1>3. /\ Len(r) = Len(s) + 1 /\ r[1] = x /\ r # <<>>
      /\ \A i \in 1..Len(s) : r[i + 1] = s[i]
  BY <1>1 DEF IsList
<1> HIDE DEF r
<1>4. ASSUME NEW i \in 1..Len(r)
      PROVE  next[r[i]] = IF i = Len(r) THEN null ELSE r[i + 1]
  <2>1. CASE i = 1
    <3>1. CASE s = <<>>
      BY <1>1, <1>3, <2>1, <3>1 DEF Leads
    <3>2. CASE s # <<>>
      <4>1. 1 \in 1..Len(s) /\ i # Len(r)
        BY <1>1, <1>3, <2>1, <3>2
      <4>2. r[2] = s[1]
        BY <1>3, <4>1
      <4> QED  BY <1>3, <2>1, <3>2, <4>1, <4>2 DEF Leads
    <3> QED  BY <3>1, <3>2
  <2>2. CASE i # 1
    <3>1. /\ i - 1 \in 1..Len(s) /\ (i - 1) + 1 = i /\ (i = Len(r) <=> i - 1 = Len(s))
          /\ i # Len(r) => i \in 1..Len(s)
      BY <1>1, <1>3, <2>2
    <3>2. r[i] = s[i - 1] /\ (i # Len(r) => r[i + 1] = s[i])
      BY <1>3, <3>1
    <3> QED  BY <3>1, <3>2 DEF Leads
  <2> QED  BY <2>1, <2>2
<1> QED  BY <1>2, <1>3, <1>4 DEF Leads, IsList, r

(* A list of the cells, linked in its order.                               *)
LEMMA ThreadedLeads ==
    ASSUME NEW S, IsFiniteSet(S), S # {}, NEW null, NEW s, s = SetToSeq(S)
    PROVE  /\ IsList(s, S) /\ ToSet(s) = S /\ Len(s) = Cardinality(S)
           /\ Threaded(s, null) \in [S -> S \cup {null}]
           /\ Leads(Threaded(s, null), s[1], null, s) /\ s[1] \in S
<1> DEFINE n == Cardinality(S)
           f == Threaded(s, null)
<1>1. n \in Nat /\ ExistsBijection(1..n, S) /\ n # 0
  BY FS_CardinalityType, FS_EmptySet
<1>2. PICK g : g \in Bijection(1..n, S)
  BY <1>1 DEF ExistsBijection
<1>3. g \in [1..n -> S] /\ IsInjective(g)
  BY <1>2 DEF Bijection, Injection, IsInjective
<1>4. s \in [1..n -> S] /\ IsInjective(s)
  BY <1>3 DEF SetToSeq
<1> HIDE DEF n
<1>5. /\ s \in Seq(S) /\ Len(s) = n /\ DOMAIN s = 1..n /\ IsList(s, S) /\ s[1] \in S
      /\ \A i, j \in 1..n : s[i] = s[j] => i = j
  BY <1>1, <1>4 DEF IsList, IsInjective
<1>6. ToSet(s) = S
  <2>1. Cardinality(ToSet(s)) = n /\ IsFiniteSet(ToSet(s))
    BY <1>5, ListSize
  <2>2. ToSet(s) \in SUBSET S
    BY <1>5 DEF ToSet
  <2> QED  BY <2>1, <2>2, FS_Subset DEF n
<1>7. /\ f = [x \in S |-> LET i == CHOOSE j \in DOMAIN s : s[j] = x
                          IN  IF i = Len(s) THEN null ELSE s[i + 1]]
      /\ DOMAIN f = S
  BY <1>6 DEF Threaded
<1> HIDE DEF f
<1>8. ASSUME NEW i \in 1..n
      PROVE  f[s[i]] = IF i = n THEN null ELSE s[i + 1]
  <2> DEFINE c == CHOOSE j \in DOMAIN s : s[j] = s[i]
  <2>1. c \in DOMAIN s /\ s[c] = s[i]
    BY <1>5
  <2>2. c = i
    BY <1>5, <2>1
  <2>3. f[s[i]] = IF c = Len(s) THEN null ELSE s[c + 1]
    BY <1>5, <1>7
  <2> HIDE DEF c
  <2> QED  BY <1>5, <2>2, <2>3
<1>9. f \in [S -> S \cup {null}]
  <2> SUFFICES ASSUME NEW x \in S
               PROVE  f[x] \in S \cup {null}
    BY <1>7
  <2>1. PICK i \in 1..n : x = s[i]
    BY <1>5, <1>6 DEF ToSet
  <2>2. i # n => i + 1 \in 1..n
    BY <1>1
  <2> QED  BY <1>5, <1>8, <2>1, <2>2
<1>10. s # <<>>
  BY <1>1, <1>5
<1>11. \A i \in 1..Len(s) : f[s[i]] = IF i = Len(s) THEN null ELSE s[i + 1]
  BY <1>5, <1>8
<1>12. Leads(f, s[1], null, s)
  BY <1>5, <1>7, <1>10, <1>11 DEF Leads, IsList
<1> QED  BY <1>5, <1>6, <1>9, <1>12 DEF n, f

(* A cell is linked behind the last one.                                   *)
LEMMA LeadsSnoc ==
    ASSUME NEW next, NEW p, NEW null, NEW s, Leads(next, p, null, s),
           NEW x \in DOMAIN next, x \notin ToSet(s), next[x] = null,
           NEW f, DOMAIN f = DOMAIN next,
           s # <<>> => f[s[Len(s)]] = x,
           \A y \in DOMAIN next :
              (s = <<>> \/ y # s[Len(s)]) => f[y] = next[y]
    PROVE  Leads(f, IF s = <<>> THEN x ELSE p, null, Append(s, x))
<1> DEFINE n == Len(s)
           r == Append(s, x)
           D == DOMAIN next
<1>1. /\ IsList(s, D) /\ s \in Seq(D) /\ n \in Nat /\ (s = <<>> <=> n = 0)
      /\ \A i \in 1..n : s[i] \in D /\ s[i] \in ToSet(s)
      /\ \A i, j \in 1..n : s[i] = s[j] => i = j
  BY DEF Leads, IsList, IsInjective, ToSet
<1>2. IsList(r, D)
  BY <1>1, AppendList
<1>3. /\ Len(r) = n + 1 /\ r[n + 1] = x /\ r # <<>>
      /\ \A i \in 1..n : r[i] = s[i]
  BY <1>1, AppendProperties
<1>4. f[x] = null
  <2>1. s # <<>> => x # s[n]
    BY <1>1
  <2> QED  BY <2>1
<1> HIDE DEF r
<1>5. ASSUME NEW i \in 1..n + 1
      PROVE  f[r[i]] = IF i = n + 1 THEN null ELSE r[i + 1]
  <2>1. CASE i = n + 1
    BY <1>3, <1>4, <2>1
  <2>2. CASE i = n
    <3>1. n \in 1..n /\ s # <<>> /\ n # n + 1
      BY <1>1, <2>2
    <3> QED  BY <1>3, <2>2, <3>1
  <2>3. CASE i < n
    <3>1. i \in 1..n /\ i + 1 \in 1..n /\ i # n /\ i # n + 1 /\ n \in 1..n
      BY <1>1, <2>3
    <3>2. s[i] # s[n]
      BY <1>1, <3>1
    <3>3. f[s[i]] = next[s[i]] /\ next[s[i]] = s[i + 1]
      BY <1>1, <3>1, <3>2 DEF Leads
    <3> QED  BY <1>3, <3>1, <3>3
  <2> QED  BY <1>1, <2>1, <2>2, <2>3
<1>6. IF s = <<>> THEN r[1] = x ELSE r[1] = s[1]
  <2>1. s # <<>> => 1 \in 1..n
    BY <1>1
  <2> QED  BY <1>1, <1>3, <2>1
<1> QED  BY <1>2, <1>3, <1>5, <1>6 DEF Leads, IsList, r

(* The cells of q are pushed one after the other in front of s.            *)
Pushed(q, s) == [i \in 1..Len(q) + Len(s) |->
                    IF i <= Len(q) THEN q[Len(q) + 1 - i] ELSE s[i - Len(q)]]

(* The cells of both lists, once.                                          *)
LEMMA PushedList ==
    ASSUME NEW S, NEW q, NEW s, IsList(q, S), IsList(s, S),
           ToSet(q) \cap ToSet(s) = {}
    PROVE  /\ IsList(Pushed(q, s), S) /\ ToSet(Pushed(q, s)) = ToSet(q) \cup ToSet(s)
           /\ Len(Pushed(q, s)) = Len(q) + Len(s)
<1> DEFINE n == Len(q)
           m == Len(s)
           r == Pushed(q, s)
<1>1. /\ n \in Nat /\ m \in Nat /\ DOMAIN q = 1..n /\ DOMAIN s = 1..m
      /\ \A i \in 1..n : q[i] \in S /\ q[i] \in ToSet(q)
      /\ \A i \in 1..m : s[i] \in S /\ s[i] \in ToSet(s)
      /\ \A i, j \in 1..n : q[i] = q[j] => i = j
      /\ \A i, j \in 1..m : s[i] = s[j] => i = j
  BY DEF IsList, IsInjective, ToSet
<1>2. /\ r = [i \in 1..n + m |-> IF i <= n THEN q[n + 1 - i] ELSE s[i - n]]
      /\ DOMAIN r = 1..n + m
  BY DEF Pushed
<1> HIDE DEF r, n, m
<1>3. /\ \A i \in 1..n + m : i <= n => n + 1 - i \in 1..n /\ r[i] = q[n + 1 - i]
      /\ \A i \in 1..n + m : ~(i <= n) => i - n \in 1..m /\ r[i] = s[i - n]
  BY <1>1, <1>2
<1>4. r \in [1..n + m -> S] /\ n + m \in Nat
  BY <1>1, <1>2, <1>3
<1>5. r \in Seq(S) /\ Len(r) = n + m
  BY <1>4
<1>6. ASSUME NEW i \in 1..n + m, NEW j \in 1..n + m, r[i] = r[j]
      PROVE  i = j
  <2>1. CASE i <= n /\ j <= n
    BY <1>1, <1>3, <1>6, <2>1
  <2>2. CASE ~(i <= n) /\ ~(j <= n)
    BY <1>1, <1>3, <1>6, <2>2
  <2>3. CASE i <= n /\ ~(j <= n)
    <3>1. r[i] \in ToSet(q) /\ r[j] \in ToSet(s)
      BY <1>1, <1>3, <2>3
    <3> QED  BY <1>6, <3>1
  <2>4. CASE ~(i <= n) /\ j <= n
    <3>1. r[j] \in ToSet(q) /\ r[i] \in ToSet(s)
      BY <1>1, <1>3, <2>4
    <3> QED  BY <1>6, <3>1
  <2> QED  BY <2>1, <2>2, <2>3, <2>4
<1>7. IsInjective(r)
  BY <1>2, <1>6 DEF IsInjective
<1>8. ToSet(r) \subseteq ToSet(q) \cup ToSet(s)
  BY <1>1, <1>2, <1>3 DEF ToSet
<1>9. ASSUME NEW x \in ToSet(q) \cup ToSet(s)
      PROVE  x \in ToSet(r)
  <2>1. CASE x \in ToSet(q)
    <3>1. PICK i \in 1..n : x = q[i]
      BY <1>1, <2>1 DEF ToSet
    <3>2. n + 1 - i \in 1..n + m /\ n + 1 - i <= n /\ n + 1 - (n + 1 - i) = i
      BY <1>1
    <3>3. r[n + 1 - i] = q[i]
      BY <1>2, <3>2
    <3> QED  BY <1>2, <3>1, <3>2, <3>3 DEF ToSet
  <2>2. CASE x \in ToSet(s)
    <3>1. PICK i \in 1..m : x = s[i]
      BY <1>1, <2>2 DEF ToSet
    <3>2. n + i \in 1..n + m /\ ~(n + i <= n) /\ (n + i) - n = i
      BY <1>1
    <3>3. r[n + i] = s[i]
      BY <1>2, <3>2
    <3> QED  BY <1>2, <3>1, <3>2, <3>3 DEF ToSet
  <2> QED  BY <2>1, <2>2
<1> QED  BY <1>5, <1>7, <1>8, <1>9 DEF IsList, r, n, m

(* They are linked in the opposite order.                                  *)
LEMMA LeadsBack ==
    ASSUME NEW next, NEW null, NEW q, IsList(q, DOMAIN next),
           NEW p, NEW s, Leads(next, p, null, s), ToSet(q) \cap ToSet(s) = {},
           NEW f, DOMAIN f = DOMAIN next,
           \A i \in 1..Len(q) : f[q[i]] = IF i = 1 THEN p ELSE q[i - 1],
           \A x \in DOMAIN next : x \notin ToSet(q) => f[x] = next[x]
    PROVE  Leads(f, IF q = <<>> THEN p ELSE q[Len(q)], null, Pushed(q, s))
<1> DEFINE n == Len(q)
           m == Len(s)
           r == Pushed(q, s)
<1>1. /\ IsList(s, DOMAIN next) /\ n \in Nat /\ m \in Nat
      /\ (q = <<>> <=> n = 0) /\ (s = <<>> <=> m = 0)
      /\ \A i \in 1..m : s[i] \in DOMAIN next /\ s[i] \in ToSet(s)
  BY DEF Leads, IsList, ToSet
<1>2. IsList(r, DOMAIN next) /\ Len(r) = n + m
  BY <1>1, PushedList
<1>3. r = [i \in 1..n + m |-> IF i <= n THEN q[n + 1 - i] ELSE s[i - n]]
  BY DEF Pushed
<1> HIDE DEF r, n, m
<1>4. ASSUME NEW i \in 1..n + m
      PROVE  f[r[i]] = IF i = n + m THEN null ELSE r[i + 1]
  <2>1. CASE i < n
    <3>1. /\ i \in 1..n + m /\ i <= n /\ i # n + m /\ i + 1 \in 1..n + m /\ i + 1 <= n
          /\ n + 1 - i \in 1..n /\ n + 1 - i # 1 /\ n + 1 - (i + 1) = (n + 1 - i) - 1
      BY <1>1, <2>1
    <3>2. r[i] = q[n + 1 - i] /\ r[i + 1] = q[(n + 1 - i) - 1]
      BY <1>3, <3>1
    <3>3. f[q[n + 1 - i]] = q[(n + 1 - i) - 1]
      BY <3>1 DEF n
    <3> QED  BY <3>1, <3>2, <3>3
  <2>2. CASE i = n
    <3>1. 1 \in 1..n /\ i <= n /\ n + 1 - i = 1
      BY <1>1, <2>2
    <3>2. r[i] = q[1] /\ f[q[1]] = p
      BY <1>3, <3>1 DEF n
    <3>3. CASE m = 0
      BY <1>1, <2>2, <3>2, <3>3 DEF Leads
    <3>4. CASE m # 0
      <4>1. i # n + m /\ i + 1 \in 1..n + m /\ ~(i + 1 <= n) /\ i + 1 - n = 1
        BY <1>1, <2>2, <3>4
      <4>2. r[i + 1] = s[1]
        BY <1>1, <1>3, <4>1
      <4> QED  BY <1>1, <3>2, <3>4, <4>1, <4>2 DEF Leads
    <3> QED  BY <3>3, <3>4
  <2>3. CASE i > n
    <3>1. /\ ~(i <= n) /\ i - n \in 1..m /\ (i = n + m <=> i - n = m)
          /\ i # n + m => /\ i + 1 \in 1..n + m /\ ~(i + 1 <= n)
                          /\ i + 1 - n = (i - n) + 1
      BY <1>1, <2>3
    <3>2. r[i] = s[i - n] /\ (i # n + m => r[i + 1] = s[(i - n) + 1])
      BY <1>1, <1>3, <3>1
    <3>3. next[s[i - n]] = IF i - n = m THEN null ELSE s[(i - n) + 1]
      BY <3>1 DEF Leads, m
    <3>4. f[s[i - n]] = next[s[i - n]]
      BY <1>1, <3>1
    <3> QED  BY <3>1, <3>2, <3>3, <3>4
  <2> QED  BY <1>1, <2>1, <2>2, <2>3
<1>5. (IF q = <<>> THEN p ELSE q[n]) = IF r = <<>> THEN null ELSE r[1]
  <2>1. CASE n # 0
    <3>1. 1 \in 1..n + m /\ 1 <= n /\ n + 1 - 1 = n
      BY <1>1, <2>1
    <3>2. r[1] = q[n]
      BY <1>3, <3>1
    <3>3. r # <<>>
      BY <1>1, <1>2, <2>1
    <3> QED  BY <1>1, <2>1, <3>2, <3>3
  <2>2. CASE n = 0 /\ m # 0
    <3>1. 1 \in 1..n + m /\ ~(1 <= n) /\ 1 - n = 1
      BY <1>1, <2>2
    <3>2. r[1] = s[1]
      BY <1>3, <3>1
    <3>3. r # <<>>
      BY <1>1, <1>2, <2>2
    <3> QED  BY <1>1, <2>2, <3>2, <3>3 DEF Leads
  <2>3. CASE n = 0 /\ m = 0
    <3>1. r = <<>>
      BY <1>2, <2>3 DEF IsList
    <3> QED  BY <1>1, <2>3, <3>1 DEF Leads
  <2> QED  BY <2>1, <2>2, <2>3
<1>6. Leads(f, IF q = <<>> THEN p ELSE q[n], null, r)
  BY <1>2, <1>4, <1>5 DEF Leads, IsList
<1> QED  BY <1>6 DEF n, r
-----------------------------------------------------------------------------
(* Lists in the order of the priorities *)

(* A waiter that leaves does not disturb the order of the others.          *)
LEMMA OrderedRemove ==
    ASSUME NEW s, IsList(s, Task), NEW prio, Ordered(s, prio), NEW e
    PROVE  Ordered(Unlink(s, e), prio)
<1>1. s \in Seq(Task) /\ Len(s) \in Nat /\ DOMAIN s = 1..Len(s)
  BY DEF IsList
<1>2. CASE e \in ToSet(s)
  <2>1. PICK i \in DOMAIN s : s[i] = e
    BY <1>2 DEF ToSet
  <2> DEFINE r == RemoveAt(s, i)
             at(j) == IF j < i THEN j ELSE j + 1
  <2>2. Unlink(s, e) = r
    BY <2>1, UnlinkAt
  <2>8. i \in 1..Len(s)
    BY <1>1, <2>1
  <2>9. /\ IsList(r, Task) /\ Len(r) = Len(s) - 1
        /\ \A j \in 1..Len(s) - 1 : r[j] = IF j < i THEN s[j] ELSE s[j + 1]
    BY <2>8, RemoveAtList
  <2> HIDE DEF r
  <2>3. /\ r \in Seq(Task) /\ Len(r) = Len(s) - 1
        /\ \A j \in 1..Len(s) - 1 : r[j] = IF j < i THEN s[j] ELSE s[j + 1]
    BY <2>9 DEF IsList
  <2>4. DOMAIN r = 1..Len(s) - 1
    BY <1>1, <2>3
  <2>5. \A j \in DOMAIN r : at(j) \in DOMAIN s /\ r[j] = s[at(j)]
    BY <1>1, <2>1, <2>3, <2>4
  <2>6. \A j, l \in DOMAIN r : j < l => at(j) < at(l)
    BY <1>1, <2>1, <2>4
  <2> HIDE DEF at
  <2>7. Ordered(r, prio)
    BY <2>5, <2>6 DEF Ordered
  <2> QED  BY <2>2, <2>7
<1>3. CASE e \notin ToSet(s)
  BY <1>3, UnlinkAbsent
<1> QED  BY <1>2, <1>3

(* os_list_suspend puts a waiter where the order wants it.                 *)
LEMMA OrderedInsert ==
    ASSUME NEW s, IsList(s, Task), NEW prio \in [Task -> Nat], Ordered(s, prio),
           NEW e \in Task, e \notin ToSet(s), NEW i \in 1..Len(s) + 1,
           \A j \in 1..i - 1 : ~(prio[e] < prio[s[j]]),
           i <= Len(s) => prio[e] < prio[s[i]]
    PROVE  Ordered(InsertAt(s, i, e), prio)
<1>1. s \in Seq(Task) /\ Len(s) \in Nat /\ DOMAIN s = 1..Len(s)
  BY DEF IsList
<1> DEFINE r == InsertAt(s, i, e)
<1>2. /\ r \in Seq(Task) /\ Len(r) = Len(s) + 1
      /\ \A j \in 1..Len(s) + 1 :
            r[j] = IF j < i THEN s[j] ELSE IF j = i THEN e ELSE s[j - 1]
  BY InsertAtList DEF IsList
<1> HIDE DEF r
<1>3. DOMAIN r = 1..Len(s) + 1
  BY <1>1, <1>2
<1>4. ASSUME NEW a \in 1..Len(s) + 1, NEW b \in 1..Len(s) + 1, a < b
      PROVE  prio[r[a]] <= prio[r[b]]
  <2>1. /\ \A j \in 1..Len(s) : s[j] \in Task /\ prio[s[j]] \in Nat
        /\ prio[e] \in Nat
    BY <1>1
  <2>2. CASE a # i /\ b # i
    <3> DEFINE at(j) == IF j < i THEN j ELSE j - 1
    <3>1. /\ at(a) \in DOMAIN s /\ at(b) \in DOMAIN s /\ at(a) < at(b)
          /\ r[a] = s[at(a)] /\ r[b] = s[at(b)]
      BY <1>1, <1>2, <1>4, <2>2
    <3> HIDE DEF at
    <3> QED  BY <3>1 DEF Ordered
  <2>3. CASE b = i
    <3>1. a \in 1..i - 1 /\ a \in 1..Len(s) /\ r[a] = s[a] /\ r[b] = e
      BY <1>1, <1>2, <1>4, <2>3
    <3>2. ~(prio[e] < prio[s[a]])  BY <3>1
    <3> QED  BY <2>1, <3>1, <3>2
  <2>4. CASE a = i
    <3>4. /\ b - 1 \in 1..Len(s) /\ i \in 1..Len(s) /\ i <= b - 1
          /\ ~(b < i) /\ b # i
      BY <1>1, <1>4, <2>4
    <3>5. r[a] = e
      BY <1>2, <1>4, <2>4
    <3>6. r[b] = s[b - 1]
      BY <1>2, <1>4, <3>4
    <3>1. /\ b - 1 \in 1..Len(s) /\ i \in 1..Len(s) /\ i <= b - 1
          /\ r[a] = e /\ r[b] = s[b - 1]
      BY <3>4, <3>5, <3>6
    <3>2. prio[e] < prio[s[i]]
      BY <1>1, <3>1
    <3>3. prio[s[i]] <= prio[s[b - 1]]
      <4>1. CASE i = b - 1  BY <2>1, <3>1, <4>1
      <4>2. CASE i # b - 1
        <5>1. i < b - 1 /\ i \in DOMAIN s /\ b - 1 \in DOMAIN s
          BY <1>1, <3>1, <4>2
        <5> QED  BY <5>1 DEF Ordered
      <4> QED  BY <4>1, <4>2
    <3> QED  BY <2>1, <3>1, <3>2, <3>3
  <2> QED  BY <2>2, <2>3, <2>4
<1> QED  BY <1>3, <1>4 DEF Ordered, r

LEMMA OrderedTail ==
    ASSUME NEW s, IsList(s, Task), s # <<>>, NEW p, Ordered(s, p)
    PROVE  Ordered(Tail(s), p) /\ \A t \in ToSet(Tail(s)) : p[s[1]] <= p[t]
<1>1. /\ s \in Seq(Task) /\ Len(s) \in Nat /\ Len(s) >= 1 /\ DOMAIN s = 1..Len(s)
      /\ DOMAIN Tail(s) = 1..Len(s) - 1
      /\ \A i \in 1..Len(s) - 1 : Tail(s)[i] = s[i + 1]
  BY DEF IsList
<1>2. Ordered(Tail(s), p)
  <2>1. ASSUME NEW i \in DOMAIN Tail(s), NEW j \in DOMAIN Tail(s), i < j
        PROVE  p[Tail(s)[i]] <= p[Tail(s)[j]]
    <3>1. i + 1 \in DOMAIN s /\ j + 1 \in DOMAIN s /\ i + 1 < j + 1
          /\ Tail(s)[i] = s[i + 1] /\ Tail(s)[j] = s[j + 1]
      BY <1>1, <2>1
    <3> QED  BY <3>1 DEF Ordered
  <2> QED  BY <2>1 DEF Ordered
<1>3. ASSUME NEW t \in ToSet(Tail(s))
      PROVE  p[s[1]] <= p[t]
  <2>1. PICK i \in DOMAIN Tail(s) : Tail(s)[i] = t
    BY DEF ToSet
  <2>2. i + 1 \in DOMAIN s /\ 1 \in DOMAIN s /\ 1 < i + 1 /\ t = s[i + 1]
    BY <1>1, <2>1
  <2> QED  BY <2>2 DEF Ordered
<1> QED  BY <1>2, <1>3

(* A list of tasks whose priorities stay remains sorted.                   *)
LEMMA OrderedStill ==
    ASSUME NEW s, NEW p, NEW r, Ordered(s, p), \A u \in ToSet(s) : r[u] = p[u]
    PROVE  Ordered(s, r)
<1>1. \A i \in DOMAIN s : r[s[i]] = p[s[i]]
  BY DEF ToSet
<1> QED  BY <1>1 DEF Ordered

-----------------------------------------------------------------------------
(* Sequences and sets in general *)

(* The first entry of a list is one of its members.                        *)
LEMMA HeadOfList ==
    ASSUME NEW S, NEW q \in Seq(S), q # <<>>
    PROVE  Head(q) \in S
OBVIOUS

(* Sets of which one has an element more.                                  *)
LEMMA OneLess ==
    ASSUME NEW A, NEW B, NEW t, IsFiniteSet(A), IsFiniteSet(B), A \ {t} \subseteq B
    PROVE  Cardinality(A) <= Cardinality(B) + 1
<1>1. IsFiniteSet(A \ {t})
  BY FS_RemoveElement
<1>2. /\ Cardinality(A) \in Nat /\ Cardinality(B) \in Nat
      /\ Cardinality(A \ {t}) \in Nat
  BY <1>1, FS_CardinalityType
<1>3. Cardinality(A \ {t}) <= Cardinality(B)
  BY FS_Subset
<1>4. Cardinality(A \ {t}) = IF t \in A THEN Cardinality(A) - 1 ELSE Cardinality(A)
  BY FS_RemoveElement
<1> QED  BY <1>2, <1>3, <1>4

(* and of which one has an element less.                                   *)
LEMMA OneMore ==
    ASSUME NEW A, NEW B, NEW w, IsFiniteSet(A), IsFiniteSet(B), A \subseteq B,
           w \in B, w \notin A
    PROVE  Cardinality(A) + 1 <= Cardinality(B)
<1>1. A \cup {w} \subseteq B
  OBVIOUS
<1>2. Cardinality(A \cup {w}) <= Cardinality(B)
  BY <1>1, FS_Subset
<1>3. Cardinality(A \cup {w}) = Cardinality(A) + 1
  BY FS_AddElement
<1> QED  BY <1>2, <1>3

(* The values that d has at the entries of q, in their order.              *)
Written(d, q) == [i \in DOMAIN q |-> d[q[i]]]

(* There are as many as there are entries,                                 *)
LEMMA WrittenSeq ==
    ASSUME NEW S, NEW q \in Seq(S), NEW d
    PROVE  /\ Written(d, q) \in Seq({d[y] : y \in S}) /\ Len(Written(d, q)) = Len(q)
           /\ \A i \in 1..Len(q) : Written(d, q)[i] = d[q[i]]
<1>1. /\ DOMAIN q = 1..Len(q) /\ Len(q) \in Nat
      /\ \A i \in 1..Len(q) : d[q[i]] \in {d[y] : y \in S}
  OBVIOUS
<1> QED  BY <1>1 DEF Written

(* also when one is added at the end,                                      *)
LEMMA WrittenAppend ==
    ASSUME NEW S, NEW q \in Seq(S), NEW d, NEW x \in S
    PROVE  Written(d, Append(q, x)) = Append(Written(d, q), d[x])
<1> DEFINE M == {d[y] : y \in S}
           r == Append(q, x)
           w == Written(d, q)
           a == Append(w, d[x])
<1>1. /\ r \in Seq(S) /\ Len(r) = Len(q) + 1 /\ Len(q) \in Nat
      /\ \A i \in 1..Len(q) : r[i] = q[i]
      /\ r[Len(q) + 1] = x
  BY AppendProperties
<1>2. d[x] \in M
  OBVIOUS
<1> HIDE DEF r
<1>3. /\ w \in Seq(M) /\ Len(w) = Len(q)
      /\ \A i \in 1..Len(q) : w[i] = d[q[i]]
  BY WrittenSeq
<1>4. /\ Written(d, r) \in Seq(M) /\ Len(Written(d, r)) = Len(r)
      /\ \A i \in 1..Len(r) : Written(d, r)[i] = d[r[i]]
  BY <1>1, WrittenSeq
<1> HIDE DEF M, w
<1>5. /\ a \in Seq(M) /\ Len(a) = Len(q) + 1
      /\ \A i \in 1..Len(q) : a[i] = d[q[i]]
      /\ a[Len(q) + 1] = d[x]
  BY <1>2, <1>3, AppendProperties
<1> HIDE DEF a
<1>6. \A i \in 1..Len(r) : Written(d, r)[i] = a[i]
  BY <1>1, <1>4, <1>5
<1>7. Written(d, r) = a
  BY <1>1, <1>4, <1>5, <1>6, SeqEqual
<1> QED  BY <1>7 DEF r, a, w

(* or at the head,                                                         *)
LEMMA WrittenCons ==
    ASSUME NEW S, NEW q \in Seq(S), NEW d, NEW x \in S
    PROVE  Written(d, <<x>> \o q) = <<d[x]>> \o Written(d, q)
<1> DEFINE M == {d[y] : y \in S}
           r == <<x>> \o q
           w == Written(d, q)
           a == <<d[x]>> \o w
<1>1. /\ r \in Seq(S) /\ Len(r) = Len(q) + 1 /\ Len(q) \in Nat
      /\ \A i \in 1..Len(q) : r[i + 1] = q[i]
      /\ r[1] = x
  OBVIOUS
<1>2. d[x] \in M
  OBVIOUS
<1> HIDE DEF r
<1>3. /\ w \in Seq(M) /\ Len(w) = Len(q)
      /\ \A i \in 1..Len(q) : w[i] = d[q[i]]
  BY WrittenSeq
<1>4. /\ Written(d, r) \in Seq(M) /\ Len(Written(d, r)) = Len(r)
      /\ \A i \in 1..Len(r) : Written(d, r)[i] = d[r[i]]
  BY <1>1, WrittenSeq
<1> HIDE DEF M, w
<1>5. /\ a \in Seq(M) /\ Len(a) = Len(q) + 1
      /\ \A i \in 1..Len(q) : a[i + 1] = d[q[i]]
      /\ a[1] = d[x]
  BY <1>2, <1>3
<1> HIDE DEF a
<1>6. ASSUME NEW i \in 1..Len(r)
      PROVE  Written(d, r)[i] = a[i]
  <2>1. CASE i = 1
    BY <1>1, <1>4, <1>5, <2>1
  <2>2. CASE i # 1
    <3>1. PICK j \in 1..Len(q) : i = j + 1
      <4>1. i - 1 \in 1..Len(q) /\ i = (i - 1) + 1
        BY <1>1, <2>2
      <4> QED  BY <4>1
    <3>2. r[i] = q[j] /\ a[i] = d[q[j]]
      BY <1>1, <1>5, <3>1
    <3> QED  BY <1>4, <3>2
  <2> QED  BY <2>1, <2>2
<1>7. Written(d, r) = a
  BY <1>1, <1>4, <1>5, <1>6, SeqEqual
<1> QED  BY <1>7 DEF r, a, w

(* or the first one is taken out;                                          *)
LEMMA WrittenTail ==
    ASSUME NEW S, NEW q \in Seq(S), q # <<>>, NEW d
    PROVE  /\ Written(d, Tail(q)) = Tail(Written(d, q))
           /\ Written(d, q) # <<>> /\ Head(Written(d, q)) = d[q[1]]
<1> DEFINE M == {d[y] : y \in S}
           r == Tail(q)
           w == Written(d, q)
           a == Tail(w)
<1>1. /\ r \in Seq(S) /\ Len(r) = Len(q) - 1 /\ Len(q) \in Nat /\ Len(q) > 0
      /\ \A i \in 1..Len(r) : r[i] = q[i + 1] /\ i + 1 \in 1..Len(q)
  BY HeadTailProperties
<1> HIDE DEF r
<1>0. r \in Seq(S)
  BY <1>1
<1>2. /\ w \in Seq(M) /\ Len(w) = Len(q)
      /\ \A i \in 1..Len(q) : w[i] = d[q[i]]
  BY WrittenSeq
<1>3. /\ Written(d, r) \in Seq(M) /\ Len(Written(d, r)) = Len(r)
      /\ \A i \in 1..Len(r) : Written(d, r)[i] = d[r[i]]
  BY <1>0, WrittenSeq
<1> HIDE DEF M, w
<1>4. w # <<>> /\ 1 \in 1..Len(q) /\ Head(w) = w[1]
  BY <1>1, <1>2
<1>5. /\ a \in Seq(M) /\ Len(a) = Len(r)
      /\ \A i \in 1..Len(a) : a[i] = w[i + 1]
  BY <1>1, <1>2, <1>4, HeadTailProperties
<1> HIDE DEF a
<1>6. \A i \in 1..Len(r) : Written(d, r)[i] = a[i]
  BY <1>1, <1>2, <1>3, <1>5
<1>7. Written(d, r) = a
  BY <1>1, <1>3, <1>5, <1>6, SeqEqual
<1> QED  BY <1>2, <1>4, <1>7 DEF r, a, w

(* a value elsewhere does not matter.                                      *)
LEMMA WrittenSame ==
    ASSUME NEW q, NEW S, q \in Seq(S), NEW d, NEW e,
           \A y \in ToSet(q) : d[y] = e[y]
    PROVE  Written(d, q) = Written(e, q)
<1>1. \A i \in DOMAIN q : d[q[i]] = e[q[i]]
  BY DEF ToSet
<1> QED  BY <1>1 DEF Written

-----------------------------------------------------------------------------
(* How often a value is in a sequence *)

Count(s, x) == Cardinality({i \in DOMAIN s : s[i] = x})

(* A sequence has it a number of times,                                    *)
LEMMA CountNat ==
    ASSUME NEW S, NEW s \in Seq(S), NEW x
    PROVE  /\ Count(s, x) \in Nat /\ IsFiniteSet({i \in DOMAIN s : s[i] = x})
           /\ Count(s, x) = 0 <=> \A i \in 1..Len(s) : s[i] # x
<1>1. IsFiniteSet(1..Len(s)) /\ DOMAIN s = 1..Len(s)
  BY FS_Interval
<1> DEFINE T == {i \in DOMAIN s : s[i] = x}
<1>2. IsFiniteSet(T)
  BY <1>1, FS_Subset
<1>3. Cardinality(T) \in Nat /\ (Cardinality(T) = 0 <=> T = {})
  BY <1>2, FS_CardinalityType, FS_EmptySet
<1> QED  BY <1>1, <1>2, <1>3 DEF Count

(* once more when it is appended,                                          *)
LEMMA CountAppend ==
    ASSUME NEW S, NEW s \in Seq(S), NEW m \in S, NEW x
    PROVE  Count(Append(s, m), x) = Count(s, x) + IF x = m THEN 1 ELSE 0
<1> DEFINE T == {i \in DOMAIN s : s[i] = x}
           r == Append(s, m)
           U == {i \in DOMAIN r : r[i] = x}
           n == Len(s) + 1
<1>1. /\ DOMAIN s = 1..Len(s) /\ Len(s) \in Nat /\ DOMAIN r = 1..n
      /\ r[n] = m /\ \A i \in 1..Len(s) : r[i] = s[i]
  OBVIOUS
<1>2. IsFiniteSet(T) /\ Cardinality(T) \in Nat /\ n \notin T
  <2>1. n \notin T
    BY <1>1
  <2>2. IsFiniteSet(T)
    BY CountNat
  <2> QED  BY <2>1, <2>2, FS_CardinalityType
<1> HIDE DEF r
<1>3. U = IF x = m THEN T \cup {n} ELSE T
  BY <1>1
<1> HIDE DEF T, U, n
<1>4. Cardinality(U) = Cardinality(T) + IF x = m THEN 1 ELSE 0
  <2>1. Cardinality(T \cup {n}) = Cardinality(T) + 1
    BY <1>2, FS_AddElement
  <2> QED  BY <1>2, <1>3, <2>1
<1> QED  BY <1>4 DEF Count, T, U, r

(* RemoveAt takes one element out and keeps the others in their order.     *)
LEMMA RemoveForm ==
    ASSUME NEW S, NEW s \in Seq(S), NEW j \in 1..Len(s), NEW r, r = RemoveAt(s, j)
    PROVE  /\ r \in Seq(S) /\ Len(r) = Len(s) - 1
           /\ \A i \in 1..Len(r) : r[i] = IF i < j THEN s[i] ELSE s[i + 1]
<1> DEFINE p == SubSeq(s, 1, j - 1)
           q == SubSeq(s, j + 1, Len(s))
<1>1. Len(s) \in Nat /\ j \in Int
  OBVIOUS
<1>2. p \in Seq(S) /\ Len(p) = j - 1 /\ \A i \in 1..j - 1 : p[i] = s[i]
  BY <1>1, SubSeqProperties
<1>3. q \in Seq(S) /\ Len(q) = Len(s) - j /\ \A i \in 1..Len(s) - j : q[i] = s[j + i]
  <2>1. CASE j = Len(s)
    <3>1. q = <<>>
      BY <1>1, <2>1
    <3> QED  BY <1>1, <2>1, <3>1
  <2>2. CASE j < Len(s)
    <3>1. j + 1 \in 1..Len(s)
      BY <1>1, <2>2
    <3> HIDE DEF q
    <3>2. \A i \in 1..Len(s) - j : j + 1 + i - 1 = j + i
      BY <1>1
    <3>3. Len(s) - (j + 1) + 1 = Len(s) - j
      BY <1>1
    <3> QED  BY <1>1, <2>2, <3>1, <3>2, <3>3, SubSeqProperties DEF q
  <2> QED  BY <1>1, <2>1, <2>2
<1>4. r = p \o q
  BY DEF RemoveAt
<1> HIDE DEF p, q
<1>5. r \in Seq(S) /\ Len(r) = Len(s) - 1
  <2>1. r \in Seq(S) /\ Len(r) = Len(p) + Len(q)
    BY <1>2, <1>3, <1>4, ConcatProperties
  <2> QED  BY <1>1, <1>2, <1>3, <2>1
<1>6. ASSUME NEW i \in 1..Len(r)
      PROVE  r[i] = IF i < j THEN s[i] ELSE s[i + 1]
  <2>1. r[i] = IF i <= Len(p) THEN p[i] ELSE q[i - Len(p)]
    BY <1>1, <1>2, <1>3, <1>4, <1>5, ConcatProperties
  <2>2. CASE i < j
    BY <1>1, <1>2, <2>1, <2>2
  <2>3. CASE ~(i < j)
    <3>1. i - (j - 1) \in 1..Len(s) - j /\ j + (i - (j - 1)) = i + 1
      BY <1>1, <1>5, <2>3
    <3> QED  BY <1>1, <1>2, <1>3, <2>1, <2>3, <3>1
  <2> QED  BY <2>2, <2>3
<1> QED  BY <1>5, <1>6

(* and once less when it is removed.                                       *)
LEMMA CountRemove ==
    ASSUME NEW S, NEW s \in Seq(S), NEW j \in 1..Len(s), NEW r, r = RemoveAt(s, j),
           NEW x
    PROVE  Count(r, x) = Count(s, x) - IF x = s[j] THEN 1 ELSE 0
<1> DEFINE T == {i \in DOMAIN s : s[i] = x} \ {j}
           U == {i \in DOMAIN r : r[i] = x}
           f == [i \in T |-> IF i < j THEN i ELSE i - 1]
<1>1. /\ r \in Seq(S) /\ Len(r) = Len(s) - 1 /\ Len(s) \in Nat
      /\ \A i \in 1..Len(r) : r[i] = IF i < j THEN s[i] ELSE s[i + 1]
      /\ DOMAIN s = 1..Len(s) /\ DOMAIN r = 1..Len(s) - 1
  BY RemoveForm
<1>2. IsFiniteSet(T) /\ Cardinality(T) = Count(s, x) - IF x = s[j] THEN 1 ELSE 0
  <2> DEFINE V == {i \in DOMAIN s : s[i] = x}
  <2>1. j \in V <=> x = s[j]
    BY <1>1
  <2>4. IsFiniteSet(V)
    BY CountNat
  <2> HIDE DEF V
  <2>2. Cardinality(V \ {j}) = Cardinality(V) - IF x = s[j] THEN 1 ELSE 0
    <3>1. Cardinality(V) \in Nat
      BY <2>4, FS_CardinalityType
    <3>2. Cardinality(V \ {j})
             = IF j \in V THEN Cardinality(V) - 1 ELSE Cardinality(V)
      BY <2>4, FS_RemoveElement
    <3> QED  BY <2>1, <3>1, <3>2
  <2>3. IsFiniteSet(V \ {j})
    BY <2>4, FS_RemoveElement
  <2> QED  BY <2>2, <2>3 DEF V, Count
<1>3. \A i \in T : i \in 1..Len(s) /\ i # j /\ s[i] = x
  OBVIOUS
<1>4. \A i \in T : f[i] = IF i < j THEN i ELSE i - 1
  OBVIOUS
<1>5. \A i \in T : f[i] \in U
  <2>1. \A i \in T : /\ f[i] \in 1..Len(s) - 1
                     /\ r[f[i]] = s[i]
    BY <1>1, <1>3, <1>4
  <2> QED  BY <1>1, <1>3, <2>1
<1>6. \A i, h \in T : f[i] = f[h] => i = h
  BY <1>1, <1>3, <1>4
<1>7. \A h \in U : \E i \in T : f[i] = h
  <2>1. SUFFICES ASSUME NEW h \in U PROVE \E i \in T : f[i] = h
    OBVIOUS
  <2>2. h \in 1..Len(s) - 1 /\ r[h] = x
    BY <1>1
  <2>3. CASE h < j
    <3>1. h \in T
      BY <1>1, <2>2, <2>3
    <3> QED  BY <1>4, <2>3, <3>1
  <2>4. CASE ~(h < j)
    <3>1. PICK g \in Nat : g = h + 1
      BY <1>1, <2>2
    <3>2. g \in T /\ ~(g < j) /\ g - 1 = h
      BY <1>1, <2>2, <2>4, <3>1
    <3>3. f[g] = h
      BY <1>4, <3>2
    <3> QED  BY <3>2, <3>3
  <2> QED  BY <2>3, <2>4
<1>8. f \in [T -> U]
  BY <1>5
<1> HIDE DEF T, U, f
<1>9. f \in Bijection(T, U)
  BY <1>6, <1>7, <1>8 DEF Bijection, Injection, Surjection, IsInjective
<1>10. Cardinality(U) = Cardinality(T)
  BY <1>2, <1>9, FS_Bijection DEF ExistsBijection
<1> QED  BY <1>2, <1>10 DEF Count, U

-----------------------------------------------------------------------------
(* What a step does to the tasks that wait *)

(* From s to r the waits of the tasks in S end; S may also hold the task   *)
(* that runs.                                                              *)
Ends(s, r, S) ==
    /\ Works(r)
    /\ \A t \in Task : r.stat[t] = IF t \in S THEN "READY" ELSE s.stat[t]
    /\ \A o \in Obj : ToSet(r.pend[o]) = ToSet(s.pend[o]) \ S
    /\ \A t \in Task \ S : r.error[t] = s.error[t]
    /\ ToSet(r.timers) \subseteq ToSet(s.timers)
    /\ r.cur = s.cur \/ r.stat[r.cur] = "READY"

(* From s to r the task t begins to wait, in the lists of Os; to sleep     *)
(* when there is none.                                                     *)
Begins(s, r, Os, t) ==
    /\ Works(r)
    /\ r.stat = [s.stat EXCEPT ![t] = "SUSPEND"]
    /\ \A q \in Obj : ToSet(r.pend[q]) = IF q \in Os THEN ToSet(s.pend[q]) \cup {t}
                                         ELSE ToSet(s.pend[q])
    /\ \A u \in Task \ {t} : r.error[u] = s.error[u]
    /\ Os # {} => r.error[t] = "OS_OK"
    /\ ToSet(r.timers) \subseteq ToSet(s.timers) \cup {t}
    /\ r.cur = s.cur /\ r.isr = 0

(* Nobody who is ready is more urgent than the task that runs.             *)
Top(s) == \A u \in Task : s.stat[u] = "READY" => s.prio[s.cur] <= s.prio[u]

(* From s to r a list that still holds the same tasks has them in the same *)
(* order.                                                                  *)
Alike(s, r, Os) ==
    \A o \in Os : ToSet(r.pend[o]) = ToSet(s.pend[o]) => r.pend[o] = s.pend[o]

(* No wait ends.                                                           *)
LEMMA EndsNone ==
    ASSUME NEW s, Works(s)
    PROVE  Ends(s, s, {})
BY DEF Ends

(* One after the other.                                                    *)
LEMMA EndsBoth ==
    ASSUME NEW s, NEW q, NEW r, NEW S, NEW T, Ends(s, q, S), Ends(q, r, T)
    PROVE  Ends(s, r, S \cup T)
<1>1. r.cur = s.cur \/ r.stat[r.cur] = "READY"
  <2>1. CASE r.cur = q.cur /\ q.cur # s.cur
    <3>1. q.stat[q.cur] = "READY" /\ r.cur \in Task
      BY <2>1 DEF Ends, Works
    <3> QED  BY <2>1, <3>1 DEF Ends
  <2> QED  BY <2>1 DEF Ends
<1> QED  BY <1>1 DEF Ends

(* Writing the error of a task that runs. *)
LEMMA ErrorEnds ==
    ASSUME NEW s, Works(s), NEW t \in Task, s.stat[t] = "READY",
           NEW e \in Errno, NEW r, r = SetError(s, t, e)
    PROVE  /\ Ends(s, r, {t})
           /\ r.error[t] = e /\ r.prio = s.prio /\ r.isr = s.isr /\ r.cur = s.cur
           /\ r.pend = s.pend
<1>1. /\ KernelOK(r, {})
      /\ SameLists(s, r) /\ SameTasks(s, r) /\ SameTimers(s, r)
      /\ SameControl(s, r)
  BY SetErrorOK DEF Works
<1>2. r.error = [s.error EXCEPT ![t] = e] /\ s.error \in [Task -> Errno]
  BY DEF SetError, Works, KernelOK, Kernel
<1>3. \A o \in Obj : t \notin ToSet(s.pend[o])
  BY DEF Works, KernelOK, PendingLists
<1> QED
  BY <1>1, <1>2, <1>3 DEF Ends, Works, SameLists, SameTasks, SameTimers, SameControl

(* A task leaves the lists it is in.                                       *)
LEMMA UnlinkAlike ==
    ASSUME NEW s, Works(s), NEW t, NEW r, r.pend = [o \in Obj |-> Unlink(s.pend[o], t)]
    PROVE  Alike(s, r, Obj)
<1>1. \A o \in Obj : IsList(s.pend[o], Task)
  BY DEF Works, KernelOK, Kernel, PendingLists, IsList
<1>2. ASSUME NEW o \in Obj, ToSet(r.pend[o]) = ToSet(s.pend[o])
      PROVE  r.pend[o] = s.pend[o]
  <2>1. r.pend[o] = Unlink(s.pend[o], t) /\ IsList(s.pend[o], Task)
    BY <1>1
  <2>2. t \notin ToSet(s.pend[o])
    BY <1>2, <2>1, UnlinkList
  <2> QED  BY <2>1, <2>2, UnlinkAbsent
<1> QED  BY <1>2 DEF Alike

(* os_task_resume of a task that waits. *)
LEMMA ResumeEnds ==
    ASSUME NEW s, Works(s), s.isr = 0, NEW t \in Task, s.stat[t] = "SUSPEND",
           NEW r, r = TaskResume(s, t)
    PROVE  /\ Ends(s, r, {t})
           /\ r.error = s.error /\ r.prio = s.prio /\ r.isr = 0 /\ r.cur = s.cur
           /\ r.pend = [o \in Obj |-> Unlink(s.pend[o], t)]
<1>1. /\ KernelOK(s, {}) /\ t \notin {} /\ s.stat \in [Task -> Stat]
      /\ \A o \in Obj : IsList(s.pend[o], Task)
  BY DEF Works, KernelOK, Kernel, PendingLists, IsList
<1>2. /\ KernelOK(r, {})
      /\ r.stat = [s.stat EXCEPT ![t] = "READY"]
      /\ r.prio = s.prio
      /\ ToSet(r.timers) = ToSet(s.timers) \ {t}
      /\ SameControl(s, r)
  BY <1>1, TaskResumeOK
<1>3. /\ r.pend = [o \in Obj |-> Unlink(s.pend[o], t)]
      /\ r.error = s.error
  BY <1>1, TaskResumePend
<1>4. \A o \in Obj : ToSet(r.pend[o]) = ToSet(s.pend[o]) \ {t}
  BY <1>1, <1>3, UnlinkList
<1>5. Works(r)
  BY <1>1, <1>2, KernelAssumption DEF Works, SameControl
<1> QED
  BY <1>1, <1>2, <1>3, <1>4, <1>5 DEF Ends, SameControl

(* os_sched. *)
LEMMA SchedEnds ==
    ASSUME NEW s, Works(s), NEW r, r = Sched(s)
    PROVE  /\ Ends(s, r, {})
           /\ r.error = s.error /\ r.prio = s.prio /\ r.stat[r.cur] = "READY"
           /\ r.pend = s.pend /\ Top(r)
<1>1. KernelOK(s, {}) /\ s.stat[Idle] = "READY" /\ Idle \notin {} /\ s \in Kernel
      /\ s.lock = 0
  BY DEF Works, KernelOK
<1>2. /\ KernelOK(r, {})
      /\ SameLists(s, r) /\ SameTasks(s, r) /\ SameTimers(s, r)
      /\ r.lock = s.lock /\ r.isr = s.isr /\ r.n = s.n
      /\ r.cur \in Task /\ s.stat[r.cur] = "READY"
      /\ \A u \in Task : u \notin {} /\ s.stat[u] = "READY" => s.prio[r.cur] <= s.prio[u]
  BY <1>1, SchedOK
<1>3. r.error = s.error
  BY <1>1, ErrorKept
<1>4. Works(r) /\ r.stat[r.cur] = "READY"
  BY <1>2 DEF Works, SameTasks, SameTimers
<1> QED
  BY <1>2, <1>3, <1>4 DEF Ends, Top, SameLists, SameTasks, SameTimers

(* The task at the head of a pending list, if there is one.                *)
Firsts(s, o) == IF s.pend[o] # <<>> THEN {Foremost(s, o)} ELSE {}

(* One turn of os_list_resume_all.                                         *)
LEMMA WakeHeadEnds ==
    ASSUME NEW s, Works(s), s.isr = 0, NEW o \in Obj, s.pend[o] # <<>>,
           NEW r, r = WakeHead(s, o)
    PROVE  /\ Ends(s, r, Firsts(s, o))
           /\ r.prio = s.prio /\ r.isr = 0 /\ r.cur = s.cur
           /\ \A t \in Firsts(s, o) : r.error[t] = "OS_ERROR"
           /\ Firsts(s, o) \subseteq ToSet(s.pend[o])
           /\ r.pend[o] = Tail(s.pend[o])
<1> DEFINE t == Foremost(s, o)
<1>1. KernelOK(s, {})
  BY DEF Works
<1>2. /\ KernelOK(r, {}) /\ Leaves(s, r, o, t)
      /\ r.error = [s.error EXCEPT ![t] = "OS_ERROR"]
  BY <1>1, WakeHeadOK
<1>3. Firsts(s, o) = {t}
  BY DEF Firsts
<1> HIDE DEF t
<1>4. /\ s.error \in [Task -> Errno] /\ s.stat \in [Task -> Stat]
      /\ s.isr \in 0..1
      /\ \A q \in Obj : IsList(s.pend[q], Task)
  BY <1>1 DEF KernelOK, Kernel, PendingLists, IsList
<1>5. \A q \in Obj : ToSet(r.pend[q]) = ToSet(s.pend[q]) \ {t}
  BY <1>2, <1>4, UnlinkList DEF Leaves
<1>6. Works(r)
  BY <1>2, <1>4, KernelAssumption DEF Works, Leaves, SameControl
<1> QED
  BY <1>2, <1>3, <1>4, <1>5, <1>6 DEF Ends, Leaves, SameControl

(* os_list_resume_all in a critical section.                               *)
LEMMA ResumeAllEnds ==
    ASSUME NEW s, Works(s), s.isr = 0, NEW o \in Obj,
           NEW r, r = ListResumeAll(s, o)
    PROVE  /\ Ends(s, r, ToSet(s.pend[o]))
           /\ r.prio = s.prio /\ r.isr = 0 /\ r.cur = s.cur
           /\ r.pend[o] = <<>>
           /\ \A t \in Task \cap ToSet(s.pend[o]) : r.error[t] = "OS_ERROR"
<1>1. KernelOK(s, {})
  BY DEF Works
<1>2. KernelOK(r, {}) /\ Emptied(s, r, o) /\ r.pend[o] = <<>>
  BY <1>1, ListResumeAllOK
<1>3. ToSet(r.pend[o]) = {}
  BY <1>2 DEF ToSet
<1>4. Idle \notin ToSet(s.pend[o])
  BY <1>1 DEF KernelOK, PendingLists, Works
<1>5. /\ \A t \in Task : r.stat[t] = IF t \in ToSet(s.pend[o]) THEN "READY"
                                     ELSE s.stat[t]
      /\ \A t \in Task \ ToSet(s.pend[o]) : r.error[t] = s.error[t]
      /\ \A t \in Task \cap ToSet(s.pend[o]) : r.error[t] = "OS_ERROR"
      /\ \A q \in Obj : ToSet(r.pend[q]) = ToSet(s.pend[q]) \ ToSet(s.pend[o])
  BY <1>2, <1>3 DEF Emptied
<1>6. Works(r)
  BY <1>2, <1>4, <1>5, KernelAssumption DEF Works, Emptied, SameControl
<1> QED
  BY <1>2, <1>5, <1>6 DEF Ends, Emptied, SameControl

(* A task starts its own timer after it is suspended.                      *)
LEMMA TimerBegins ==
    ASSUME NEW s, NEW q, NEW Os, NEW t \in Task, t # Idle, Begins(s, q, Os, t),
           NEW d \in Nat, NEW r, r = TimerStart(q, t, d)
    PROVE  Begins(s, r, Os, t) /\ r.prio = q.prio
<1>1. KernelOK(q, {}) /\ t \in Timer /\ q \in Kernel
  BY DEF Begins, Works, Timer, KernelOK
<1>2. s.stat[t] = "READY" \/ s.stat[t] # "READY"
  OBVIOUS
<1>3. q.stat[t] \in {"READY", "SUSPEND"}
  BY DEF Begins, Works
<1>4. q.stat[t] = "SUSPEND"
  BY <1>1 DEF Begins, KernelOK, Kernel
<1>5. /\ KernelOK(r, {})
      /\ ToSet(r.timers) = ToSet(q.timers) \cup {t}
      /\ SameLists(q, r) /\ SameTasks(q, r) /\ SameControl(q, r)
  BY <1>1, <1>4, TimerStartOK
<1>6. r.error = q.error
  BY <1>1, ErrorKept
<1>7. Works(r)
  BY <1>5 DEF Begins, Works, SameTasks, SameControl
<1> QED
  BY <1>5, <1>6, <1>7 DEF Begins, SameLists, SameTasks, SameControl

(* A task other than the idle task is suspended in a list.                 *)
LEMMA SuspendBegins ==
    ASSUME NEW s, Works(s), s.isr = 0, NEW t \in Task, t # Idle,
           s.stat[t] = "READY", s.error[t] = "OS_OK", NEW o \in Obj,
           NEW m, IsList(m, Task), ToSet(m) = ToSet(s.pend[o]) \cup {t},
           NEW r, r = SetPend(SuspendReady(s, t), o, m)
    PROVE  /\ Begins(s, r, {o}, t) /\ r.prio = s.prio
           /\ ToSet(r.timers) = ToSet(s.timers)
           /\ r.pend = [s.pend EXCEPT ![o] = m]
<1>1. KernelOK(s, {}) /\ t \notin {}
  BY DEF Works
<1>2. /\ KernelOK(r, {})
      /\ r.stat = [s.stat EXCEPT ![t] = "SUSPEND"]
      /\ r.prio = s.prio /\ r.error = s.error
      /\ ToSet(r.timers) = ToSet(s.timers)
      /\ SameControl(s, r)
      /\ r.pend = [s.pend EXCEPT ![o] = m]
  BY <1>1, SuspendInList
<1>3. s.stat \in [Task -> Stat] /\ s.pend \in [Obj -> Seq(Task)]
  BY <1>1 DEF KernelOK, Kernel
<1>4. \A u \in Obj : ToSet(r.pend[u]) = IF u \in {o} THEN ToSet(s.pend[u]) \cup {t}
                                        ELSE ToSet(s.pend[u])
  BY <1>2, <1>3
<1>5. Works(r)
  BY <1>2, <1>3, KernelAssumption DEF Works, SameControl
<1> QED
  BY <1>2, <1>4, <1>5 DEF Begins, SameControl

(* A task begins to wait after a step that wrote its error or changed a    *)
(* priority.                                                               *)
LEMMA ThenBegins ==
    ASSUME NEW s, NEW q, NEW r, NEW Os, NEW t \in Task,
           q.stat = s.stat, q.cur = s.cur,
           \A o \in Obj : ToSet(q.pend[o]) = ToSet(s.pend[o]),
           \A u \in Task \ {t} : q.error[u] = s.error[u],
           ToSet(q.timers) \subseteq ToSet(s.timers), Begins(q, r, Os, t)
    PROVE  Begins(s, r, Os, t)
BY DEF Begins

(* os_task_sleep. *)
LEMMA SleepBegins ==
    ASSUME NEW s, Works(s), s.isr = 0, NEW t \in Task, t # Idle,
           s.stat[t] = "READY", NEW d \in Nat,
           NEW r, r = TimerStart(TaskSuspend(s, t), t, d)
    PROVE  Begins(s, r, {}, t) /\ r.prio = s.prio /\ r.pend = s.pend
<1> DEFINE w == SuspendReady(s, t)
<1>1. r = TimerStart(w, t, d)
  BY DEF TaskSuspend
<1>2. KernelOK(s, {}) /\ t \notin {} /\ s.stat[t] \in {"READY", "SUSPEND"}
  BY DEF Works
<1>3. /\ KernelOK(w, {})
      /\ w.stat = [s.stat EXCEPT ![t] = "SUSPEND"]
      /\ w.prio = s.prio
      /\ ToSet(w.timers) = ToSet(s.timers) \ {t}
      /\ SameControl(s, w)
  BY <1>2, SuspendReadyOK
<1>4. w.pend = s.pend /\ w.error = s.error
  BY <1>2, SuspendReadyPend
<1> HIDE DEF w
<1>5. s.stat \in [Task -> Stat]
  BY <1>2 DEF KernelOK, Kernel
<1>6. Works(w)
  BY <1>3, <1>5, KernelAssumption DEF Works, SameControl
<1>7. Begins(s, w, {}, t)
  BY <1>3, <1>4, <1>6 DEF Begins, SameControl
<1>8. Begins(s, r, {}, t) /\ r.prio = w.prio
  BY <1>1, <1>7, TimerBegins
<1>9. r.pend = w.pend
  <2>1. KernelOK(w, {}) /\ t \in Timer /\ w.stat[t] = "SUSPEND"
    BY <1>3, <1>5 DEF Timer
  <2> QED  BY <1>1, <2>1, TimerStartOK DEF SameLists
<1> QED  BY <1>3, <1>4, <1>8, <1>9

(* os_task_priority_set changes one priority, and no pending list.         *)
LEMMA PriorityEnds ==
    ASSUME NEW s, Works(s), NEW t \in Task, NEW p \in Prio,
           NEW r, r = PrioritySet(s, t, p)
    PROVE  /\ Ends(s, r, {}) /\ r.stat = s.stat
           /\ r.error = s.error /\ r.prio = [s.prio EXCEPT ![t] = p]
           /\ r.pend = s.pend /\ r.isr = s.isr /\ r.cur = s.cur
<1>1. KernelOK(s, {}) /\ s \in Kernel /\ t \notin {}
  BY DEF Works, KernelOK
<1>2. /\ KernelOK(r, {})
      /\ r.stat = s.stat /\ SameTimers(s, r) /\ SameControl(s, r)
  BY <1>1, PrioritySetOK
<1>3. r.error = s.error /\ r.prio = [s.prio EXCEPT ![t] = p] /\ r.pend = s.pend
  <2>1. CASE s.stat[t] = "READY"
    <3> DEFINE q == SchedRemove(s, t)
               b == SetLevel(q, t, p)
    <3>1. /\ q \in Kernel /\ q.prio = s.prio
          /\ \A o \in Obj : q.pend[o] = Unlink(s.pend[o], t)
      BY <1>1, SchedRemoveFields DEF SameTasks
    <3>2. \A o \in Obj : t \notin ToSet(s.pend[o])
      BY <1>1, <2>1 DEF KernelOK, PendingLists
    <3>3. q.pend = s.pend
      <4>1. \A o \in Obj : q.pend[o] = s.pend[o]
        BY <3>1, <3>2, UnlinkAbsent
      <4> QED  BY <1>1, <3>1, <4>1 DEF Kernel
    <3>4. q.error = s.error
      BY <1>1 DEF SchedRemove, TlistRemove, Kernel
    <3>5. r = SchedInsert(b, t)
      BY <2>1 DEF PrioritySet, SetLevel
    <3> HIDE DEF q
    <3>6. /\ b.pend = q.pend /\ b.error = q.error
          /\ b.prio = [q.prio EXCEPT ![t] = p] /\ b \in Kernel
      BY <3>1 DEF SetLevel, Kernel
    <3> HIDE DEF b
    <3>7. r.pend = b.pend /\ r.error = b.error /\ r.prio = b.prio
      BY <3>5, <3>6 DEF SchedInsert, Kernel
    <3> QED  BY <3>1, <3>3, <3>4, <3>6, <3>7
  <2>2. CASE s.stat[t] # "READY"
    BY <1>1, <2>2 DEF PrioritySet, Kernel
  <2> QED  BY <2>1, <2>2
<1> QED
  BY <1>2, <1>3 DEF Ends, Works, SameTimers, SameControl

(* The clock interrupt comes.                                              *)
LEMMA TickEnds ==
    ASSUME NEW s, Works(s), s.isr = 0, NEW r, r = TickIncrease(s)
    PROVE  /\ Ends(s, r, {})
           /\ r.error = s.error /\ r.prio = s.prio /\ r.pend = s.pend
           /\ r.stat = s.stat /\ (r.cur = s.cur \/ Top(r))
<1>1. /\ KernelOK(s, {}) /\ s.stat[Idle] = "READY" /\ Idle \notin {}
      /\ s.cur \in Task /\ s.cur \notin {} /\ s \in Kernel
  BY DEF Works, KernelOK
<1>2. /\ KernelOK(r, {}) /\ r.pend = s.pend
      /\ SameTasks(s, r) /\ SameTimers(s, r)
      /\ r.lock = s.lock /\ r.isr = 1
      /\ r.n = ListHead \/ r.n \in ToSet(s.timers)
      /\ \/ r.cur = s.cur
         \/ /\ r.cur \in Task /\ s.stat[r.cur] = "READY"
            /\ \A u \in Task : u \notin {} /\ s.stat[u] = "READY" => s.prio[r.cur] <= s.prio[u]
  BY <1>1, TickIncreaseOK
<1>3. r.error = s.error
  BY <1>1, ErrorKept
<1>4. Works(r)
  BY <1>1, <1>2 DEF Works, SameTasks, SameTimers
<1> QED
  BY <1>2, <1>3, <1>4 DEF Ends, Top, SameTasks, SameTimers

(* It returns.                                                             *)
LEMMA TickEndEnds ==
    ASSUME NEW s, Works(s), NEW r, r = IsrLeave(s)
    PROVE  /\ Ends(s, r, {})
           /\ r.error = s.error /\ r.prio = s.prio /\ r.pend = s.pend
           /\ r.cur = s.cur /\ r.stat = s.stat
<1>1. KernelOK(s, {}) /\ s \in Kernel
  BY DEF Works, KernelOK
<1>2. /\ KernelOK(r, {})
      /\ SameLists(s, r) /\ SameTasks(s, r) /\ SameTimers(s, r)
      /\ r.cur = s.cur /\ r.lock = s.lock /\ r.isr = 0
  BY <1>1, IsrLeaveOK
<1>3. r.error = s.error
  BY <1>1, ErrorKept
<1>4. Works(r)
  BY <1>2 DEF Works, SameTasks, SameTimers
<1> QED
  BY <1>2, <1>3, <1>4 DEF Ends, SameLists, SameTasks, SameTimers

(* The timer of a task that waits is due: its wait is over.                *)
LEMMA FireEnds ==
    ASSUME NEW s, Works(s), Due(s), UserTimer = {}, NEW r,
           r = TimerAfter(TaskTimeout(TimerTake(s), s.n), s.n)
    PROVE  /\ s.n \in Task /\ s.n \in ToSet(s.timers)
           /\ Ends(s, r, {s.n})
           /\ r.error[s.n] = "OS_TIMEOUT" /\ r.prio = s.prio
           /\ Top(r) /\ Alike(s, r, Obj)
<1> DEFINE n == s.n
           q == TimerTake(s)
           b == TaskTimeout(q, n)
<1>1. /\ KernelOK(s, {}) /\ s \in Kernel /\ s.stat[Idle] = "READY"
      /\ Idle \notin {} /\ s.lock = 0
  BY DEF Works, KernelOK
<1>2. n \in ToSet(s.timers) /\ n \in Timer /\ n \in Task
  BY <1>1 DEF Works, Due, Timer, Kernel
<1>3. s.stat[n] = "SUSPEND"
  BY <1>1, <1>2 DEF KernelOK, TimerList
<1> HIDE DEF n
<1>4. /\ KernelOK(q, {})
      /\ ToSet(q.timers) = ToSet(s.timers) \ {n}
      /\ q.n = ListHead \/ q.n \in ToSet(q.timers)
      /\ SameLists(s, q) /\ SameTasks(s, q)
      /\ q.cur = s.cur /\ q.lock = s.lock /\ q.isr = s.isr
  BY <1>1, <1>2, TimerTakeOK DEF n
<1>5. q.error = s.error /\ s.error \in [Task -> Errno] /\ s.stat \in [Task -> Stat]
      /\ \A o \in Obj : IsList(s.pend[o], Task)
  BY <1>1, ErrorKept DEF Kernel, KernelOK, PendingLists, IsList
<1> HIDE DEF q
<1>6. /\ q.stat[Idle] = "READY" /\ q.stat[n] = "SUSPEND"
      /\ n \notin ToSet(q.timers) /\ n \notin {}
  BY <1>1, <1>3, <1>4 DEF SameTasks
<1>7. /\ KernelOK(b, {})
      /\ b.stat = [q.stat EXCEPT ![n] = "READY"]
      /\ b.prio = q.prio /\ SameTimers(q, b)
      /\ b.lock = q.lock /\ b.isr = q.isr /\ b.n = q.n
      /\ q.lock = 0 =>
            /\ b.cur \in Task /\ b.stat[b.cur] = "READY"
            /\ \A u \in Task : u \notin {} /\ b.stat[u] = "READY" => b.prio[b.cur] <= b.prio[u]
  <2>1. Idle \notin {}
    OBVIOUS
  <2> QED  BY <1>2, <1>4, <1>6, <2>1, TaskTimeoutOK
<1>8. /\ b.pend = [o \in Obj |-> Unlink(q.pend[o], n)]
      /\ b.error = [q.error EXCEPT ![n] = "OS_TIMEOUT"]
  BY <1>2, <1>4, TaskTimeoutPend
<1> HIDE DEF b
<1>9. r = TimerAfter(b, n) /\ n \notin ToSet(b.timers) /\ b \in Kernel
  BY <1>6, <1>7 DEF b, q, n, SameTimers, KernelOK
<1>10. /\ KernelOK(r, {})
       /\ ToSet(b.timers) \subseteq ToSet(r.timers)
       /\ \A u \in Task : u \in ToSet(r.timers) => u \in ToSet(b.timers)
       /\ SameLists(b, r) /\ SameTasks(b, r) /\ SameControl(b, r)
  BY <1>2, <1>7, <1>9, TimerAfterOK
<1>11. r.error = b.error
  BY <1>9, ErrorKept
<1>12. \A o \in Obj : ToSet(r.pend[o]) = ToSet(s.pend[o]) \ {n}
  BY <1>4, <1>5, <1>8, <1>10, UnlinkList DEF SameLists
<1>13. Timer = Task /\ ToSet(r.timers) \subseteq Timer
  BY <1>10 DEF Timer, KernelOK, Kernel, ToSet
<1>14. ToSet(r.timers) \subseteq ToSet(s.timers)
  BY <1>4, <1>7, <1>10, <1>13 DEF SameTimers
<1>15. Works(r)
  BY <1>1, <1>2, <1>4, <1>5, <1>7, <1>10 DEF Works, SameTasks, SameTimers, SameControl
<1>16. Ends(s, r, {n})
  BY <1>1, <1>2, <1>4, <1>5, <1>7, <1>8, <1>10, <1>11, <1>12, <1>14, <1>15
     DEF Ends, SameTasks, SameControl
<1>17. Top(r)
  BY <1>1, <1>4, <1>7, <1>10 DEF Top, SameTasks, SameControl
<1>18. Alike(s, r, Obj)
  BY <1>4, <1>8, <1>10, UnlinkAlike DEF SameLists
<1> QED
  BY <1>2, <1>4, <1>5, <1>7, <1>8, <1>10, <1>11, <1>16, <1>17, <1>18 DEF n, SameTasks
=============================================================================
