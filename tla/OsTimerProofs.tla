---------------------------- MODULE OsTimerProofs ---------------------------
(***************************************************************************)
(* Theorems about os_timer.c, for every set of timers, every width of the  *)
(* tick counter and every set of intervals.                                *)
(***************************************************************************)
EXTENDS OsTimerInv, SequenceTheorems, WellFoundedInduction, TLAPS

-----------------------------------------------------------------------------
(* Arithmetic on os_tick_t *)

(* A sum of two ticks wraps around at most once.                           *)
LEMMA Wrap ==
    ASSUME NEW a \in Nat, a < W + W
    PROVE  a % W = IF a < W THEN a ELSE a - W
<1>1. W \in Nat /\ W > 0
  BY TimerAssumption
<1>2. CASE a < W
  BY <1>1, <1>2, Z3
<1>3. CASE a >= W
  BY <1>1, <1>3, Z3
<1> QED  BY <1>1, <1>2, <1>3

(* The difference of two ticks, without the modulus.                       *)
LEMMA Difference ==
    ASSUME NEW x \in 0..W - 1, NEW y \in 0..W - 1
    PROVE  /\ Diff(x, y) = IF x >= y THEN x - y ELSE x + W - y
           /\ Diff(x, y) \in 0..W - 1
<1>1. W \in Nat /\ W > 0
  BY TimerAssumption
<1> DEFINE a == x + W - y
<1>2. a \in Nat /\ a < W + W
  BY <1>1
<1> HIDE DEF a
<1>3. a % W = IF a < W THEN a ELSE a - W
  BY <1>2, Wrap
<1>4. Diff(x, y) = a % W
  BY DEF Diff, a
<1> QED  BY <1>1, <1>3, <1>4 DEF a

-----------------------------------------------------------------------------
(* Lists: sequences without duplicates, and which timer comes before which *)

IsList(s, S) == s \in Seq(S) /\ IsInjective(s)

(* Taking the i-th entry out of a list.                                    *)
LEMMA RemoveAtList ==
    ASSUME NEW S, NEW s, IsList(s, S), NEW i \in 1..Len(s)
    PROVE  /\ IsList(RemoveAt(s, i), S)
           /\ ToSet(RemoveAt(s, i)) = ToSet(s) \ {s[i]}
           /\ Len(RemoveAt(s, i)) = Len(s) - 1
           /\ \A j \in 1..Len(s) - 1 :
                 RemoveAt(s, i)[j] = IF j < i THEN s[j] ELSE s[j + 1]
<1> DEFINE f == SubSeq(s, 1, i - 1)
           b == SubSeq(s, i + 1, Len(s))
           r == RemoveAt(s, i)
<1>1. s \in Seq(S) /\ Len(s) \in Nat /\ DOMAIN s = 1..Len(s)
  BY DEF IsList
<1>2. /\ f \in Seq(S) /\ Len(f) = i - 1
      /\ \A j \in 1..i - 1 : f[j] = s[j]
  <2>1. \A j \in 1..i - 1 : s[j] \in S  BY <1>1
  <2>2. 1 \in Int /\ i - 1 \in Int  BY <1>1
  <2>3. /\ f \in Seq(S)
        /\ Len(f) = IF 1 <= i - 1 THEN i - 1 - 1 + 1 ELSE 0
        /\ \A j \in 1..i - 1 - 1 + 1 : f[j] = s[1 + j - 1]
    BY <2>1, <2>2, SubSeqProperties
  <2> HIDE DEF f
  <2> QED  BY <1>1, <2>3
<1>3. /\ b \in Seq(S) /\ Len(b) = Len(s) - i
      /\ \A j \in 1..Len(s) - i : b[j] = s[i + j]
  <2>1. \A j \in i + 1..Len(s) : s[j] \in S  BY <1>1
  <2>2. i + 1 \in Int /\ Len(s) \in Int  BY <1>1
  <2>3. /\ b \in Seq(S)
        /\ Len(b) = IF i + 1 <= Len(s) THEN Len(s) - (i + 1) + 1 ELSE 0
        /\ \A j \in 1..Len(s) - (i + 1) + 1 : b[j] = s[i + 1 + j - 1]
    BY <2>1, <2>2, SubSeqProperties
  <2> HIDE DEF b
  <2>4. Len(s) - (i + 1) + 1 = Len(s) - i  BY <1>1
  <2>5. ASSUME NEW j \in 1..Len(s) - i PROVE b[j] = s[i + j]
    <3>1. i + 1 + j - 1 = i + j  BY <1>1
    <3> QED  BY <2>3, <2>4, <3>1
  <2>6. Len(b) = Len(s) - i
    <3>0. i \in Nat /\ Len(s) \in Nat /\ i <= Len(s)  BY <1>1
    <3>1. CASE i < Len(s)
      <4>1. i + 1 <= Len(s)  BY <3>1, <1>1
      <4> QED  BY <4>1, <2>3, <2>4
    <3>2. CASE i = Len(s)
      <4>1. ~(i + 1 <= Len(s)) /\ Len(s) - i = 0  BY <3>2, <1>1
      <4> QED  BY <4>1, <2>3
    <3>3. i < Len(s) \/ i = Len(s)  BY <3>0
    <3> QED  BY <3>1, <3>2, <3>3
  <2> QED  BY <2>3, <2>5, <2>6
<1>4. r = f \o b
  BY DEF RemoveAt
<1>5. /\ r \in Seq(S) /\ Len(r) = Len(s) - 1
      /\ \A j \in 1..Len(s) - 1 : r[j] = IF j < i THEN s[j] ELSE s[j + 1]
  <2> HIDE DEF f, b, r
  <2>1. /\ r \in Seq(S) /\ Len(r) = Len(f) + Len(b)
        /\ \A j \in 1..Len(f) + Len(b) :
              r[j] = IF j <= Len(f) THEN f[j] ELSE b[j - Len(f)]
    BY <1>2, <1>3, <1>4, ConcatProperties
  <2>2. Len(f) + Len(b) = Len(s) - 1  BY <1>1, <1>2, <1>3
  <2>3. ASSUME NEW j \in 1..Len(s) - 1
        PROVE  r[j] = IF j < i THEN s[j] ELSE s[j + 1]
    <3>1. CASE j < i  BY <3>1, <1>1, <1>2, <2>1, <2>2
    <3>2. CASE j >= i
      <4>1. r[j] = b[j - (i - 1)]  BY <3>2, <1>1, <1>2, <2>1, <2>2
      <4>2. j - (i - 1) \in 1..Len(s) - i /\ i + (j - (i - 1)) = j + 1
        BY <3>2, <1>1
      <4>3. b[j - (i - 1)] = s[i + (j - (i - 1))]  BY <1>3, <4>2
      <4> QED  BY <3>2, <1>1, <4>1, <4>2, <4>3
    <3> QED  BY <1>1, <3>1, <3>2
  <2> QED  BY <2>1, <2>2, <2>3
<1> HIDE DEF f, b, r
<1>6. DOMAIN r = 1..Len(s) - 1
  BY <1>5
<1>7. IsInjective(r)
  <2> DEFINE at(j) == IF j < i THEN j ELSE j + 1
  <2>1. \A j \in 1..Len(s) - 1 : at(j) \in DOMAIN s /\ r[j] = s[at(j)]
    BY <1>1, <1>5
  <2>2. \A j, l \in 1..Len(s) - 1 : at(j) = at(l) => j = l
    BY <1>1
  <2> HIDE DEF at
  <2> QED  BY <1>6, <2>1, <2>2 DEF IsInjective, IsList
<1>8. ToSet(r) = ToSet(s) \ {s[i]}
  <2>1. ToSet(r) \subseteq ToSet(s) \ {s[i]}
    BY <1>1, <1>5, <1>6 DEF ToSet, IsInjective, IsList
  <2>2. ASSUME NEW j \in 1..Len(s), s[j] # s[i] PROVE s[j] \in ToSet(r)
    <3>1. CASE j < i  BY <3>1, <1>1, <1>5, <1>6 DEF ToSet
    <3>2. CASE j > i
      <4>1. r[j - 1] = s[j] /\ j - 1 \in DOMAIN r  BY <3>2, <1>1, <1>5, <1>6
      <4> QED  BY <4>1 DEF ToSet
    <3> QED  BY <2>2, <3>1, <3>2
  <2> QED  BY <1>1, <2>1, <2>2 DEF ToSet
<1> QED  BY <1>5, <1>7, <1>8 DEF IsList, r

(* Putting an entry before the i-th one of a list.                         *)
LEMMA InsertAtList ==
    ASSUME NEW S, NEW s, IsList(s, S), NEW e \in S, e \notin ToSet(s),
           NEW i \in 1..Len(s) + 1
    PROVE  /\ IsList(InsertAt(s, i, e), S)
           /\ ToSet(InsertAt(s, i, e)) = ToSet(s) \cup {e}
           /\ Len(InsertAt(s, i, e)) = Len(s) + 1
           /\ \A j \in 1..Len(s) + 1 :
                 InsertAt(s, i, e)[j] = IF j < i THEN s[j]
                                        ELSE IF j = i THEN e ELSE s[j - 1]
<1> DEFINE f == SubSeq(s, 1, i - 1)
           m == f \o <<e>>
           b == SubSeq(s, i, Len(s))
           r == InsertAt(s, i, e)
<1>1. s \in Seq(S) /\ Len(s) \in Nat /\ DOMAIN s = 1..Len(s)
  BY DEF IsList
<1>2. /\ f \in Seq(S) /\ Len(f) = i - 1
      /\ \A j \in 1..i - 1 : f[j] = s[j]
  <2>1. \A j \in 1..i - 1 : s[j] \in S  BY <1>1
  <2>2. 1 \in Int /\ i - 1 \in Int  BY <1>1
  <2>3. /\ f \in Seq(S)
        /\ Len(f) = IF 1 <= i - 1 THEN i - 1 - 1 + 1 ELSE 0
        /\ \A j \in 1..i - 1 - 1 + 1 : f[j] = s[1 + j - 1]
    BY <2>1, <2>2, SubSeqProperties
  <2> HIDE DEF f
  <2> QED  BY <1>1, <2>3
<1>3. /\ m \in Seq(S) /\ Len(m) = i
      /\ \A j \in 1..i : m[j] = IF j < i THEN s[j] ELSE e
  <2> HIDE DEF f
  <2>1. <<e>> \in Seq(S) /\ Len(<<e>>) = 1 /\ <<e>>[1] = e  OBVIOUS
  <2>2. /\ m \in Seq(S) /\ Len(m) = Len(f) + 1
        /\ \A j \in 1..Len(f) + 1 :
              m[j] = IF j <= Len(f) THEN f[j] ELSE <<e>>[j - Len(f)]
    BY <1>2, <2>1, ConcatProperties
  <2> HIDE DEF m
  <2>3. Len(f) + 1 = i  BY <1>1, <1>2
  <2>4. ASSUME NEW j \in 1..i PROVE m[j] = IF j < i THEN s[j] ELSE e
    <3>1. CASE j < i  BY <3>1, <1>1, <1>2, <2>2, <2>3
    <3>2. CASE j = i
      <4>1. j \in 1..Len(f) + 1 /\ ~(j <= Len(f)) /\ j - Len(f) = 1
        BY <3>2, <1>1, <1>2, <2>3
      <4>2. m[j] = <<e>>[j - Len(f)]  BY <2>2, <4>1
      <4> QED  BY <3>2, <4>1, <4>2, <2>1
    <3> QED  BY <1>1, <3>1, <3>2
  <2> QED  BY <2>2, <2>3, <2>4
<1>4. /\ b \in Seq(S) /\ Len(b) = Len(s) + 1 - i
      /\ \A j \in 1..Len(s) + 1 - i : b[j] = s[i + j - 1]
  <2>1. \A j \in i..Len(s) : s[j] \in S  BY <1>1
  <2>2. i \in Int /\ Len(s) \in Int  BY <1>1
  <2>3. /\ b \in Seq(S)
        /\ Len(b) = IF i <= Len(s) THEN Len(s) - i + 1 ELSE 0
        /\ \A j \in 1..Len(s) - i + 1 : b[j] = s[i + j - 1]
    BY <2>1, <2>2, SubSeqProperties
  <2> HIDE DEF b
  <2>4. Len(s) - i + 1 = Len(s) + 1 - i  BY <1>1
  <2>5. Len(b) = Len(s) + 1 - i
    <3>1. CASE i <= Len(s)  BY <3>1, <2>3, <2>4
    <3>2. CASE ~(i <= Len(s))
      <4>1. Len(b) = 0  BY <3>2, <2>3
      <4>2. Len(s) + 1 - i = 0  BY <3>2, <1>1
      <4> QED  BY <4>1, <4>2
    <3> QED  BY <3>1, <3>2
  <2> QED  BY <2>3, <2>4, <2>5
<1>5. r = m \o b
  BY DEF InsertAt
<1> HIDE DEF f, m, b, r
<1>6. /\ r \in Seq(S) /\ Len(r) = Len(s) + 1
      /\ \A j \in 1..Len(s) + 1 :
            r[j] = IF j < i THEN s[j] ELSE IF j = i THEN e ELSE s[j - 1]
  <2>1. /\ r \in Seq(S) /\ Len(r) = Len(m) + Len(b)
        /\ \A j \in 1..Len(m) + Len(b) :
              r[j] = IF j <= Len(m) THEN m[j] ELSE b[j - Len(m)]
    BY <1>3, <1>4, <1>5, ConcatProperties
  <2>2. Len(m) + Len(b) = Len(s) + 1  BY <1>1, <1>3, <1>4
  <2>3. ASSUME NEW j \in 1..Len(s) + 1
        PROVE  r[j] = IF j < i THEN s[j] ELSE IF j = i THEN e ELSE s[j - 1]
    <3>1. CASE j <= i  BY <3>1, <1>1, <1>3, <2>1, <2>2
    <3>2. CASE j > i
      <4>1. r[j] = b[j - i]  BY <3>2, <1>1, <1>3, <2>1, <2>2
      <4>2. j - i \in 1..Len(s) + 1 - i /\ i + (j - i) - 1 = j - 1
        BY <3>2, <1>1
      <4>3. b[j - i] = s[i + (j - i) - 1]  BY <1>4, <4>2
      <4> QED  BY <3>2, <1>1, <4>1, <4>2, <4>3
    <3> QED  BY <1>1, <3>1, <3>2
  <2> QED  BY <2>1, <2>2, <2>3
<1>7. DOMAIN r = 1..Len(s) + 1
  BY <1>6
<1> DEFINE at(j) == IF j < i THEN j ELSE j - 1
<1>8. \A j \in (1..Len(s) + 1) \ {i} : at(j) \in DOMAIN s /\ r[j] = s[at(j)]
  BY <1>1, <1>6
<1>9. \A j, l \in (1..Len(s) + 1) \ {i} : at(j) = at(l) => j = l
  BY <1>1
<1>10. \A l \in DOMAIN s : \E j \in (1..Len(s) + 1) \ {i} : at(j) = l
  <2> TAKE l \in DOMAIN s
  <2>1. CASE l < i  BY <2>1, <1>1
  <2>2. CASE l >= i
    <3>1. l + 1 \in (1..Len(s) + 1) \ {i} /\ at(l + 1) = l  BY <2>2, <1>1
    <3> QED  BY <3>1
  <2> QED  BY <1>1, <2>1, <2>2
<1>11. r[i] = e /\ i \in DOMAIN r
  BY <1>1, <1>6, <1>7
<1> HIDE DEF at
<1>12. IsInjective(r)
  BY <1>7, <1>8, <1>9, <1>11 DEF IsInjective, IsList, ToSet
<1>13. ToSet(r) = ToSet(s) \cup {e}
  BY <1>7, <1>8, <1>10, <1>11 DEF ToSet
<1> QED  BY <1>6, <1>12, <1>13 DEF IsList, r

(* os_list_remove keeps the order of the others.                           *)
LEMMA WithoutList ==
    ASSUME NEW S, NEW s, IsList(s, S), NEW x
    PROVE  /\ IsList(Without(s, x), S)
           /\ ToSet(Without(s, x)) = ToSet(s) \ {x}
           /\ \A a, b : Before(Without(s, x), a, b)
                        <=> Before(s, a, b) /\ a # x /\ b # x
<1> DEFINE r == Without(s, x)
<1>1. CASE \E i \in DOMAIN s : s[i] = x
  <2> DEFINE i == CHOOSE j \in DOMAIN s : s[j] = x
  <2>1. i \in DOMAIN s /\ s[i] = x  BY <1>1
  <2>2. i \in 1..Len(s) /\ DOMAIN s = 1..Len(s) /\ Len(s) \in Nat
    BY <2>1 DEF IsList
  <2>3. r = RemoveAt(s, i)  BY <1>1 DEF Without
  <2> HIDE DEF i, r
  <2>4. /\ IsList(r, S)
        /\ ToSet(r) = ToSet(s) \ {x}
        /\ Len(r) = Len(s) - 1
        /\ \A j \in 1..Len(s) - 1 : r[j] = IF j < i THEN s[j] ELSE s[j + 1]
    <3>1. /\ IsList(RemoveAt(s, i), S)
          /\ ToSet(RemoveAt(s, i)) = ToSet(s) \ {s[i]}
          /\ Len(RemoveAt(s, i)) = Len(s) - 1
          /\ \A j \in 1..Len(s) - 1 :
                RemoveAt(s, i)[j] = IF j < i THEN s[j] ELSE s[j + 1]
      BY <2>2, RemoveAtList
    <3> QED  BY <2>1, <2>3, <3>1
  <2>5. DOMAIN r = 1..Len(s) - 1
    BY <2>4 DEF IsList
  <2>6. ASSUME NEW a, NEW b, Before(r, a, b)
        PROVE  Before(s, a, b) /\ a # x /\ b # x
    <3>1. PICK p \in DOMAIN r, q \in DOMAIN r : p < q /\ r[p] = a /\ r[q] = b
      BY <2>6 DEF Before
    <3> DEFINE up(j) == IF j < i THEN j ELSE j + 1
    <3>2. /\ up(p) \in DOMAIN s /\ up(q) \in DOMAIN s /\ up(p) < up(q)
          /\ s[up(p)] = a /\ s[up(q)] = b
      BY <2>2, <2>4, <2>5, <3>1
    <3>3. a \in ToSet(r) /\ b \in ToSet(r)
      BY <3>1 DEF ToSet
    <3> HIDE DEF up
    <3> QED  BY <2>4, <3>2, <3>3 DEF Before
  <2>7. ASSUME NEW a, NEW b, Before(s, a, b), a # x, b # x
        PROVE  Before(r, a, b)
    <3>1. PICK p \in DOMAIN s, q \in DOMAIN s : p < q /\ s[p] = a /\ s[q] = b
      BY <2>7 DEF Before
    <3>2. p # i /\ q # i
      BY <2>1, <2>7, <3>1
    <3> DEFINE down(j) == IF j < i THEN j ELSE j - 1
    <3>3. /\ down(p) \in DOMAIN r /\ down(q) \in DOMAIN r /\ down(p) < down(q)
          /\ r[down(p)] = a /\ r[down(q)] = b
      BY <2>2, <2>4, <2>5, <3>1, <3>2
    <3> HIDE DEF down
    <3> QED  BY <3>3 DEF Before
  <2>8. \A a, b : Before(r, a, b) <=> Before(s, a, b) /\ a # x /\ b # x
    BY <2>6, <2>7
  <2> QED  BY <2>4, <2>8 DEF r
<1>2. CASE ~ \E i \in DOMAIN s : s[i] = x
  BY <1>2 DEF Without, ToSet, Before
<1> QED  BY <1>1, <1>2

(* A timer that is started goes to the end of the history.                 *)
LEMMA AppendList ==
    ASSUME NEW S, NEW s, IsList(s, S), NEW x \in S, x \notin ToSet(s)
    PROVE  /\ IsList(Append(s, x), S)
           /\ ToSet(Append(s, x)) = ToSet(s) \cup {x}
           /\ \A a, b : Before(Append(s, x), a, b)
                        <=> Before(s, a, b) \/ (a \in ToSet(s) /\ b = x)
<1> DEFINE r == Append(s, x)
<1>1. /\ s \in Seq(S) /\ Len(s) \in Nat /\ DOMAIN s = 1..Len(s)
      /\ r \in Seq(S) /\ Len(r) = Len(s) + 1 /\ DOMAIN r = 1..Len(s) + 1
      /\ \A i \in 1..Len(s) : r[i] = s[i]
      /\ r[Len(s) + 1] = x
  BY AppendProperties DEF IsList
<1> HIDE DEF r
<1>2. IsList(r, S) /\ ToSet(r) = ToSet(s) \cup {x}
  BY <1>1 DEF IsList, IsInjective, ToSet
<1>3. \A a, b : Before(r, a, b) <=> Before(s, a, b) \/ (a \in ToSet(s) /\ b = x)
  BY <1>1 DEF Before, ToSet
<1> QED  BY <1>2, <1>3 DEF r

(* A timer that is put before the p-th entry comes after those in front of *)
(* that place and before the others.                                       *)
LEMMA InsertList ==
    ASSUME NEW S, NEW s, IsList(s, S), NEW x \in S, x \notin ToSet(s),
           NEW p \in 1..Len(s) + 1
    PROVE  /\ IsList(InsertAt(s, p, x), S)
           /\ ToSet(InsertAt(s, p, x)) = ToSet(s) \cup {x}
           /\ \A a, b : Before(InsertAt(s, p, x), a, b)
                 <=> \/ Before(s, a, b)
                     \/ b = x /\ \E i \in DOMAIN s : i < p /\ s[i] = a
                     \/ a = x /\ \E i \in DOMAIN s : i >= p /\ s[i] = b
<1> DEFINE r == InsertAt(s, p, x)
<1>1. /\ s \in Seq(S) /\ Len(s) \in Nat /\ DOMAIN s = 1..Len(s)
      /\ IsList(r, S) /\ ToSet(r) = ToSet(s) \cup {x}
      /\ Len(r) = Len(s) + 1
      /\ \A j \in 1..Len(s) + 1 :
            r[j] = IF j < p THEN s[j] ELSE IF j = p THEN x ELSE s[j - 1]
  BY InsertAtList DEF IsList
<1> HIDE DEF r
<1>2. DOMAIN r = 1..Len(s) + 1
  BY <1>1 DEF IsList
<1>3. ASSUME NEW a, NEW b, Before(r, a, b)
      PROVE  \/ Before(s, a, b)
             \/ b = x /\ \E i \in DOMAIN s : i < p /\ s[i] = a
             \/ a = x /\ \E i \in DOMAIN s : i >= p /\ s[i] = b
  <2>1. PICK i \in DOMAIN r, j \in DOMAIN r : i < j /\ r[i] = a /\ r[j] = b
    BY <1>3 DEF Before
  <2>2. CASE i < p /\ j < p
    <3>1. i \in DOMAIN s /\ j \in DOMAIN s /\ s[i] = a /\ s[j] = b
      BY <1>1, <1>2, <2>1, <2>2
    <3> QED  BY <2>1, <3>1 DEF Before
  <2>3. CASE i < p /\ j = p
    BY <1>1, <1>2, <2>1, <2>3
  <2>4. CASE i < p /\ j > p
    <3>1. i \in DOMAIN s /\ j - 1 \in DOMAIN s /\ s[i] = a /\ s[j - 1] = b
          /\ i < j - 1
      BY <1>1, <1>2, <2>1, <2>4
    <3> QED  BY <3>1 DEF Before
  <2>5. CASE i = p
    <3>1. j - 1 \in DOMAIN s /\ j - 1 >= p /\ s[j - 1] = b /\ a = x
      BY <1>1, <1>2, <2>1, <2>5
    <3> QED  BY <3>1
  <2>6. CASE i > p
    <3>1. /\ i - 1 \in DOMAIN s /\ j - 1 \in DOMAIN s /\ i - 1 < j - 1
          /\ s[i - 1] = a /\ s[j - 1] = b
      BY <1>1, <1>2, <2>1, <2>6
    <3> QED  BY <3>1 DEF Before
  <2> QED  BY <1>1, <1>2, <2>2, <2>3, <2>4, <2>5, <2>6
<1>4. ASSUME NEW a, NEW b, Before(s, a, b)  PROVE Before(r, a, b)
  <2>1. PICK i \in DOMAIN s, j \in DOMAIN s : i < j /\ s[i] = a /\ s[j] = b
    BY <1>4 DEF Before
  <2> DEFINE up(l) == IF l < p THEN l ELSE l + 1
  <2>2. /\ up(i) \in DOMAIN r /\ up(j) \in DOMAIN r /\ up(i) < up(j)
        /\ r[up(i)] = a /\ r[up(j)] = b
    BY <1>1, <1>2, <2>1
  <2> HIDE DEF up
  <2> QED  BY <2>2 DEF Before
<1>5. r[p] = x /\ p \in DOMAIN r
  BY <1>1, <1>2
<1>6. ASSUME NEW i \in DOMAIN s, i < p  PROVE Before(r, s[i], x)
  <2>1. i \in DOMAIN r /\ r[i] = s[i]  BY <1>1, <1>2, <1>6
  <2> QED  BY <1>5, <1>6, <2>1 DEF Before
<1>7. ASSUME NEW i \in DOMAIN s, i >= p  PROVE Before(r, x, s[i])
  <2>1. i + 1 \in DOMAIN r /\ r[i + 1] = s[i] /\ p < i + 1
    BY <1>1, <1>2, <1>7
  <2> QED  BY <1>5, <2>1 DEF Before
<1> QED  BY <1>1, <1>3, <1>4, <1>6, <1>7 DEF r

(* The entries of a list are totally ordered.                              *)
LEMMA Ordered ==
    ASSUME NEW S, NEW s, IsList(s, S)
    PROVE  /\ \A a, b : Before(s, a, b)
              => a \in ToSet(s) /\ b \in ToSet(s) /\ a # b /\ ~Before(s, b, a)
           /\ \A a, b \in ToSet(s) : a = b \/ Before(s, a, b) \/ Before(s, b, a)
           /\ \A a, b, c : Before(s, a, b) /\ Before(s, b, c) => Before(s, a, c)
<1>1. Len(s) \in Nat /\ DOMAIN s = 1..Len(s)
  BY DEF IsList
<1> QED  BY <1>1 DEF Before, ToSet, IsList, IsInjective


(* The least element of a set of naturals: where the loop of               *)
(* os_timer_start stops.                                                   *)
LEMMA LeastNatural ==
    ASSUME NEW T, T \subseteq Nat, T # {}
    PROVE  \E x \in T : \A y \in T : x <= y
<1> DEFINE R == {ss \in Nat \X Nat : ss[1] < ss[2]}
<1>1. IsWellFoundedOn(R, Nat)
  BY NatLessThanWellFounded DEF OpToRel
<1>2. PICK x \in T : \A y \in T : ~ (<<y, x>> \in R)
  BY <1>1, WFMin, Zenon
<1>3. \A y \in T : ~ (y < x)
  BY <1>2
<1> QED  BY <1>2, <1>3

-----------------------------------------------------------------------------
(* The functions of os_timer.c *)

(* The loop of os_timer_start stops at a place of the list, the first one  *)
(* whose timer is due later.                                               *)
LEMMA PositionExists ==
    ASSUME TypeOK, NEW s \in Seq(Timer), NEW x, NEW at \in 0..W - 1
    PROVE  /\ Position(s, x, at) \in 1..Len(s) + 1
           /\ \A j \in DOMAIN s :
                 j < Position(s, x, at) => Rem(s[j]) <= Diff(at, os_tick)
           /\ Position(s, x, at) <= Len(s)
                 => Rem(s[Position(s, x, at)]) > Diff(at, os_tick)
<1> DEFINE d == Diff(at, os_tick)
           T == {i \in 1..Len(s) : Rem(s[i]) > d} \cup {Len(s) + 1}
           P(i) == /\ \A j \in 1..i - 1 : Diff(timeout[s[j]], os_tick) <= d
                   /\ i <= Len(s) => Diff(timeout[s[i]], os_tick) > d
<1>1. /\ Len(s) \in Nat /\ DOMAIN s = 1..Len(s)
      /\ d \in Int /\ \A i \in DOMAIN s : Rem(s[i]) \in Int
  <2>1. W \in Nat  BY TimerAssumption
  <2>2. os_tick \in 0..W - 1 /\ \A i \in DOMAIN s : timeout[s[i]] \in 0..W - 1
    BY DEF TypeOK
  <2>3. d \in 0..W - 1 /\ \A i \in DOMAIN s : Rem(s[i]) \in 0..W - 1
    BY <2>2, Difference DEF Rem
  <2> QED  BY <2>1, <2>3
<1> HIDE DEF d
<1>2. T \subseteq Nat /\ T # {}
  BY <1>1
<1>3. PICK i \in T : \A j \in T : i <= j
  BY <1>2, LeastNatural
<1>4. i \in 1..Len(s) + 1
  BY <1>1
<1>5. P(i)
  <2>1. ASSUME NEW j \in 1..i - 1 PROVE Rem(s[j]) <= d
    <3>1. j \in 1..Len(s) /\ j < i /\ j \in Nat /\ i \in Nat  BY <1>1, <1>4
    <3>2. j \notin T  BY <1>3, <3>1
    <3> QED  BY <1>1, <3>1, <3>2
  <2>2. i <= Len(s) => Rem(s[i]) > d
    BY <1>1, <1>4
  <2> QED  BY <2>1, <2>2 DEF Rem
<1> HIDE DEF T
<1>6. Position(s, x, at) \in 1..Len(s) + 1 /\ P(Position(s, x, at))
  BY <1>4, <1>5 DEF Position, d
<1>7. \A j \in DOMAIN s : j < Position(s, x, at)
                             => j \in 1..Position(s, x, at) - 1
  BY <1>1, <1>6
<1> QED  BY <1>1, <1>6, <1>7 DEF Rem, d

(* The timeouts that os_timer_start and os_tick_increase compute.          *)
LEMMA TimeoutOfStart ==
    ASSUME NEW tick \in 0..W - 1, NEW d \in 0..W - 1
    PROVE  /\ (tick + d) % W \in 0..W - 1
           /\ Diff((tick + d) % W, tick) = d
           /\ Diff(tick, tick) = 0
<1>1. W \in Nat /\ W > 0
  BY TimerAssumption
<1> DEFINE a == tick + d
           r == a % W
<1>2. a \in Nat /\ a < W + W
  BY <1>1
<1>3. r = IF a < W THEN a ELSE a - W
  BY <1>2, Wrap
<1> HIDE DEF r
<1>4. r \in 0..W - 1
  BY <1>1, <1>3
<1>5. /\ Diff(r, tick) = IF r >= tick THEN r - tick ELSE r + W - tick
      /\ Diff(tick, tick) = IF tick >= tick THEN tick - tick ELSE tick + W - tick
  BY <1>4, Difference
<1> QED  BY <1>1, <1>3, <1>4, <1>5 DEF r

(* A tick brings every timeout one tick nearer and every start one tick    *)
(* further away, modulo W.                                                 *)
LEMMA TickOfClock ==
    ASSUME NEW tick \in 0..W - 1, NEW x \in 0..W - 1, W > 1
    PROVE  /\ (tick + 1) % W \in 0..W - 1
           /\ Diff(x, tick) > 0
                 => Diff(x, (tick + 1) % W) = Diff(x, tick) - 1
           /\ Diff(tick, x) < W - 1
                 => Diff((tick + 1) % W, x) = Diff(tick, x) + 1
<1>1. W \in Nat /\ W > 0
  BY TimerAssumption
<1> DEFINE a == tick + 1
           r == a % W
<1>2. a \in Nat /\ a < W + W
  BY <1>1
<1>3. r = IF a < W THEN a ELSE a - W
  BY <1>2, Wrap
<1> HIDE DEF r
<1>4. r \in 0..W - 1
  BY <1>1, <1>3
<1>5. /\ Diff(x, r) = IF x >= r THEN x - r ELSE x + W - r
      /\ Diff(r, x) = IF r >= x THEN r - x ELSE r + W - x
      /\ Diff(x, tick) = IF x >= tick THEN x - tick ELSE x + W - tick
      /\ Diff(tick, x) = IF tick >= x THEN tick - x ELSE tick + W - x
  BY <1>4, Difference
<1> QED  BY <1>1, <1>3, <1>4, <1>5 DEF r

-----------------------------------------------------------------------------
(* What the functions do to the lists *)

(* _os_timer_remove takes the timer, and only it, out of the list.         *)
LEMMA UnlinkEffect ==
    ASSUME ListsOK, NEW x \in Timer, Unlink(x)
    PROVE  /\ IsList(list', Timer) /\ IsList(order', Timer)
           /\ ToSet(list') = ToSet(list) \ {x}
           /\ ToSet(order') = ToSet(list) \ {x}
           /\ \A a, b : Before(list', a, b)
                        <=> Before(list, a, b) /\ a # x /\ b # x
           /\ \A a, b : Before(order', a, b)
                        <=> Before(order, a, b) /\ a # x /\ b # x
<1>1. IsList(list, Timer) /\ IsList(order, Timer) /\ ToSet(order) = ToSet(list)
  BY DEF ListsOK, TypeOK, IsList
<1>2. list' = Without(list, x) /\ order' = Without(order, x)
  BY DEF Unlink
<1>3. /\ IsList(Without(list, x), Timer)
      /\ ToSet(Without(list, x)) = ToSet(list) \ {x}
      /\ \A a, b : Before(Without(list, x), a, b)
                   <=> Before(list, a, b) /\ a # x /\ b # x
  BY <1>1, WithoutList
<1>4. /\ IsList(Without(order, x), Timer)
      /\ ToSet(Without(order, x)) = ToSet(order) \ {x}
      /\ \A a, b : Before(Without(order, x), a, b)
                   <=> Before(order, a, b) /\ a # x /\ b # x
  BY <1>1, WithoutList
<1> QED  BY <1>1, <1>2, <1>3, <1>4

(* os_timer_start puts the timer, and only it, where its timeout belongs:  *)
(* behind every timer that is due no later, before the first that is.      *)
LEMMA StartEffectOn ==
    ASSUME ListsOK, NEW x \in Timer, StartEffect(x)
    PROVE  \E p \in Nat \ {0} :
           LET s == Without(list, x)
           IN
           /\ IsList(s, Timer) /\ IsList(list', Timer) /\ IsList(order', Timer)
           /\ ToSet(s) = ToSet(list) \ {x}
           /\ ToSet(list') = ToSet(list) \cup {x}
           /\ ToSet(order') = ToSet(list) \cup {x}
           /\ startup' = [startup EXCEPT ![x] = os_tick]
           /\ startup' \in [Timer -> 0..W - 1]
           /\ \E at \in 0..W - 1 :
                 /\ timeout' = [timeout EXCEPT ![x] = at]
                 /\ Diff(at, os_tick) = interval[x]
           /\ timeout' \in [Timer -> 0..W - 1]
           /\ \A a, b : a # x /\ b # x
                 => /\ Before(s, a, b) <=> Before(list, a, b)
                    /\ Before(list', a, b) <=> Before(list, a, b)
           /\ \A a : Before(list', a, x) =>
                 \E i \in DOMAIN s : i < p /\ s[i] = a
           /\ \A b : Before(list', x, b) =>
                 \E i \in DOMAIN s : i >= p /\ s[i] = b
           /\ \A i \in DOMAIN s : i < p => Rem(s[i]) <= interval[x]
           /\ p \in DOMAIN s => Rem(s[p]) > interval[x]
           /\ \A a, b : Before(order', a, b)
                 <=> \/ Before(order, a, b) /\ a # x /\ b # x
                     \/ a \in ToSet(list) \ {x} /\ b = x
<1> DEFINE at == (os_tick + interval[x]) % W
           s == Without(list, x)
           o == Without(order, x)
           p == Position(s, x, at)
<1>1. /\ IsList(list, Timer) /\ IsList(order, Timer)
      /\ ToSet(order) = ToSet(list)
      /\ os_tick \in 0..W - 1 /\ interval[x] \in 0..W - 1
      /\ timeout \in [Timer -> 0..W - 1] /\ startup \in [Timer -> 0..W - 1]
      /\ TypeOK
  BY TimerAssumption DEF ListsOK, TypeOK, IsList
<1>2. /\ list' = InsertAt(s, p, x) /\ order' = Append(o, x)
      /\ startup' = [startup EXCEPT ![x] = os_tick]
      /\ timeout' = [timeout EXCEPT ![x] = at]
  BY DEF StartEffect
<1>3. at \in 0..W - 1 /\ Diff(at, os_tick) = interval[x]
  BY <1>1, TimeoutOfStart
<1>4. /\ IsList(s, Timer) /\ ToSet(s) = ToSet(list) \ {x}
      /\ \A a, b : Before(s, a, b) <=> Before(list, a, b) /\ a # x /\ b # x
  BY <1>1, WithoutList
<1>5. /\ IsList(o, Timer) /\ ToSet(o) = ToSet(order) \ {x}
      /\ \A a, b : Before(o, a, b) <=> Before(order, a, b) /\ a # x /\ b # x
  BY <1>1, WithoutList
<1>6. s \in Seq(Timer) /\ Len(s) \in Nat /\ DOMAIN s = 1..Len(s)
  BY <1>4 DEF IsList
<1> HIDE DEF at, s, o
<1>7. /\ p \in 1..Len(s) + 1
      /\ \A j \in DOMAIN s : j < p => Rem(s[j]) <= Diff(at, os_tick)
      /\ p <= Len(s) => Rem(s[p]) > Diff(at, os_tick)
  BY <1>1, <1>3, <1>6, PositionExists
<1> HIDE DEF p
<1>8. x \notin ToSet(s) /\ x \notin ToSet(o)
  BY <1>4, <1>5
<1>9. /\ IsList(InsertAt(s, p, x), Timer)
      /\ ToSet(InsertAt(s, p, x)) = ToSet(s) \cup {x}
      /\ \A a, b : Before(InsertAt(s, p, x), a, b)
            <=> \/ Before(s, a, b)
                \/ b = x /\ \E i \in DOMAIN s : i < p /\ s[i] = a
                \/ a = x /\ \E i \in DOMAIN s : i >= p /\ s[i] = b
  BY <1>4, <1>7, <1>8, InsertList
<1>10. /\ IsList(Append(o, x), Timer)
       /\ ToSet(Append(o, x)) = ToSet(o) \cup {x}
       /\ \A a, b : Before(Append(o, x), a, b)
                    <=> Before(o, a, b) \/ (a \in ToSet(o) /\ b = x)
  BY <1>5, <1>8, AppendList
<1>11. /\ startup' \in [Timer -> 0..W - 1] /\ timeout' \in [Timer -> 0..W - 1]
  BY <1>1, <1>2, <1>3
<1>12. /\ IsList(list', Timer) /\ IsList(order', Timer)
       /\ ToSet(list') = ToSet(list) \cup {x}
       /\ ToSet(order') = ToSet(list) \cup {x}
  <2>1. ToSet(s) \cup {x} = ToSet(list) \cup {x}
        /\ ToSet(o) \cup {x} = ToSet(list) \cup {x}
    BY <1>1, <1>4, <1>5
  <2> QED  BY <1>2, <1>9, <1>10, <2>1
<1>13. \A a, b : a # x /\ b # x
                 => /\ Before(s, a, b) <=> Before(list, a, b)
                    /\ Before(list', a, b) <=> Before(list, a, b)
  BY <1>2, <1>4, <1>9
<1>14. /\ \A a : Before(list', a, x) => \E i \in DOMAIN s : i < p /\ s[i] = a
       /\ \A b : Before(list', x, b) => \E i \in DOMAIN s : i >= p /\ s[i] = b
  <2>1. \A i \in DOMAIN s : s[i] # x
    BY <1>8 DEF ToSet
  <2> QED  BY <1>2, <1>4, <1>9, <2>1
<1>15. \A a, b : Before(order', a, b)
                 <=> \/ Before(order, a, b) /\ a # x /\ b # x
                     \/ a \in ToSet(list) \ {x} /\ b = x
  BY <1>1, <1>2, <1>5, <1>10
<1>16. p \in Nat \ {0} /\ (p \in DOMAIN s => p <= Len(s))
  BY <1>6, <1>7
<1>17. /\ \A i \in DOMAIN s : i < p => Rem(s[i]) <= interval[x]
       /\ p \in DOMAIN s => Rem(s[p]) > interval[x]
  BY <1>3, <1>7, <1>16
<1>18. \E aa \in 0..W - 1 : /\ timeout' = [timeout EXCEPT ![x] = aa]
                            /\ Diff(aa, os_tick) = interval[x]
  BY <1>2, <1>3
<1>19. startup' = [startup EXCEPT ![x] = os_tick]
  BY <1>2
<1> DEFINE Goal(q) ==
           /\ IsList(s, Timer) /\ IsList(list', Timer) /\ IsList(order', Timer)
           /\ ToSet(s) = ToSet(list) \ {x}
           /\ ToSet(list') = ToSet(list) \cup {x}
           /\ ToSet(order') = ToSet(list) \cup {x}
           /\ startup' = [startup EXCEPT ![x] = os_tick]
           /\ startup' \in [Timer -> 0..W - 1]
           /\ \E aa \in 0..W - 1 :
                 /\ timeout' = [timeout EXCEPT ![x] = aa]
                 /\ Diff(aa, os_tick) = interval[x]
           /\ timeout' \in [Timer -> 0..W - 1]
           /\ \A a, b : a # x /\ b # x
                 => /\ Before(s, a, b) <=> Before(list, a, b)
                    /\ Before(list', a, b) <=> Before(list, a, b)
           /\ \A a : Before(list', a, x) =>
                 \E i \in DOMAIN s : i < q /\ s[i] = a
           /\ \A b : Before(list', x, b) =>
                 \E i \in DOMAIN s : i >= q /\ s[i] = b
           /\ \A i \in DOMAIN s : i < q => Rem(s[i]) <= interval[x]
           /\ q \in DOMAIN s => Rem(s[q]) > interval[x]
           /\ \A a, b : Before(order', a, b)
                 <=> \/ Before(order, a, b) /\ a # x /\ b # x
                     \/ a \in ToSet(list) \ {x} /\ b = x
<1>20. Goal(p)
  BY <1>4, <1>11, <1>12, <1>13, <1>14, <1>15, <1>17, <1>18, <1>19, Zenon
<1> QED  BY <1>16, <1>20 DEF s

-----------------------------------------------------------------------------
(* The list and the flags *)

(* os_timer_check remembers the next node before it calls back: that is    *)
(* the one after n in the list, or the head of the list.                   *)
LEMMA NextNodeIs ==
    ASSUME NEW S, IsList(list, S), NEW x \in ToSet(list), None \notin ToSet(list)
    PROVE  /\ NextNode(x) = None => \A y \in ToSet(list) \ {x} : Before(list, y, x)
           /\ NextNode(x) # None =>
                 /\ NextNode(x) \in ToSet(list) \ {x}
                 /\ \A y \in ToSet(list) : \/ y = x \/ Before(list, y, x)
                                           \/ y = NextNode(x)
                                           \/ Before(list, NextNode(x), y)
<1> DEFINE i == CHOOSE j \in DOMAIN list : list[j] = x
<1>1. /\ Len(list) \in Nat /\ DOMAIN list = 1..Len(list)
      /\ \A a, b \in DOMAIN list : list[a] = list[b] => a = b
  BY DEF IsList, IsInjective
<1>2. i \in DOMAIN list /\ list[i] = x
  BY DEF ToSet
<1>3. NextNode(x) = IF i = Len(list) THEN None ELSE list[i + 1]
  BY DEF NextNode
<1> HIDE DEF i
<1>4. ASSUME NEW y \in ToSet(list), y # x
      PROVE  /\ i = Len(list) => Before(list, y, x)
             /\ i # Len(list) => \/ Before(list, y, x)
                                 \/ y = list[i + 1] \/ Before(list, list[i + 1], y)
  <2>1. PICK j \in DOMAIN list : list[j] = y
    BY DEF ToSet
  <2>2. CASE j < i  BY <1>2, <2>1, <2>2 DEF Before
  <2>3. CASE j = i + 1  BY <1>1, <2>1, <2>3
  <2>4. CASE j > i + 1
    <3>1. i + 1 \in DOMAIN list  BY <1>1, <1>2, <2>4
    <3> QED  BY <1>1, <2>1, <2>4, <3>1 DEF Before
  <2> QED  BY <1>1, <1>2, <1>4, <2>1, <2>2, <2>3, <2>4
<1>5. i # Len(list) => list[i + 1] \in ToSet(list) \ {x}
  <2>1. i # Len(list) => i + 1 \in DOMAIN list /\ i + 1 # i
    BY <1>1, <1>2
  <2> QED  BY <1>1, <1>2, <2>1 DEF ToSet
<1> QED  BY <1>3, <1>4, <1>5

(* The head of a list comes before its other entries.                      *)
LEMMA HeadIs ==
    ASSUME NEW S, IsList(list, S), list # <<>>
    PROVE  /\ Head(list) \in ToSet(list)
           /\ \A y \in ToSet(list) : y = Head(list) \/ Before(list, Head(list), y)
<1>1. /\ Len(list) \in Nat \ {0} /\ DOMAIN list = 1..Len(list)
      /\ Head(list) = list[1]
  BY DEF IsList
<1>2. \A y \in ToSet(list) : \E j \in DOMAIN list : list[j] = y
  BY DEF ToSet
<1> QED  BY <1>1, <1>2 DEF ToSet, Before

(* What every step may use of ListsOK.                                     *)
LEMMA LinkFacts ==
    ASSUME ListsOK
    PROVE  /\ IsList(list, Timer) /\ ToSet(list) \subseteq Timer
           /\ None \notin ToSet(list)
<1>1. ToSet(list) \subseteq Timer
  BY DEF ListsOK, TypeOK, ToSet
<1> QED  BY <1>1, TimerAssumption DEF ListsOK, TypeOK, IsList

(* What _os_timer_remove leaves, seen from ListsOK.                        *)
LEMMA UnlinkLinks ==
    ASSUME ListsOK, NEW x \in Timer, Unlink(x)
    PROVE  /\ list' \in Seq(Timer) /\ order' \in Seq(Timer)
           /\ IsInjective(list') /\ IsInjective(order')
           /\ ToSet(list') = ToSet(list) \ {x} /\ ToSet(order') = ToSet(list')
           /\ UNCHANGED <<startup, timeout>>
BY UnlinkEffect DEF IsList, Unlink

(* os_timer_start links the timer once.                                    *)
LEMMA StartLinks ==
    ASSUME ListsOK, NEW x \in Timer, StartEffect(x)
    PROVE  /\ list' \in Seq(Timer) /\ order' \in Seq(Timer)
           /\ IsInjective(list') /\ IsInjective(order')
           /\ ToSet(list') = ToSet(list) \cup {x} /\ ToSet(order') = ToSet(list')
           /\ startup' \in [Timer -> 0..W - 1]
           /\ timeout' \in [Timer -> 0..W - 1]
<1>1. /\ IsList(list', Timer) /\ IsList(order', Timer)
      /\ ToSet(list') = ToSet(list) \cup {x}
      /\ ToSet(order') = ToSet(list) \cup {x}
      /\ startup' \in [Timer -> 0..W - 1] /\ timeout' \in [Timer -> 0..W - 1]
  BY StartEffectOn
<1> QED  BY <1>1 DEF IsList

(* Every timer in the list can be stopped, and what os_timer_check and     *)
(* os_timer_stop hold on to between their steps stays what it was.         *)
LEMMA StopStep ==
    ASSUME StopInv, Next, {"restartSelf", "stopRace"} \cap Risky = {}
    PROVE  StopInv'
<1>0. /\ ListsOK
      /\ IsList(list, Timer) /\ ToSet(list) \subseteq Timer /\ None \notin ToSet(list)
  BY LinkFacts DEF StopInv
<1>1. ASSUME NEW x \in Timer, Start(x)  PROVE StopInv'
  <2>1. StartEffect(x)  BY <1>1 DEF Start
  <2> QED  BY <1>0, <1>1, <2>1, StartLinks, TimerAssumption
           DEF StopInv, ListsOK, TypeOK, Start, Open, clock, stop
<1>2. ASSUME NEW x \in Timer, Delete(x)  PROVE StopInv'
  <2>1. Unlink(x)  BY <1>2 DEF Delete
  <2> QED  BY <1>0, <1>2, <2>1, UnlinkLinks
           DEF StopInv, ListsOK, TypeOK, Delete, clock, stop
<1>3. ASSUME NEW x \in Timer, CallbackStop(x)  PROVE StopInv'
  <2>1. Unlink(x)  BY <1>3 DEF CallbackStop
  <2> QED  BY <1>0, <1>3, <2>1, UnlinkLinks
           DEF StopInv, ListsOK, TypeOK, CallbackStop, clock, stop
<1>4. ASSUME NEW x \in Timer, StopCheck(x)  PROVE StopInv'
  BY <1>4, TimerAssumption DEF StopInv, ListsOK, TypeOK, StopCheck, clock
<1>5. ASSUME NEW x \in Timer, NEW d \in Interval, TickSet(x, d)  PROVE StopInv'
  BY <1>5 DEF StopInv, ListsOK, TypeOK, TickSet, clock, stop
<1>6. CASE StopRemove
  <2>1. target \in Timer /\ Unlink(target) /\ n = None /\ firing = None
    BY <1>6 DEF StopRemove, StopInv, ListsOK, TypeOK
  <2> QED  BY <1>0, <1>6, <2>1, UnlinkLinks, TimerAssumption
           DEF StopInv, ListsOK, TypeOK, StopRemove, clock
<1>7. CASE StopClear
  BY <1>7 DEF StopInv, ListsOK, TypeOK, StopClear, clock
<1>8. CASE Tick
  <2>1. os_tick' \in 0..W - 1
    <3>1. W \in Nat /\ W > 0 /\ os_tick \in 0..W - 1
      BY <1>0, TimerAssumption DEF ListsOK, TypeOK
    <3> DEFINE a == os_tick + 1
    <3>2. a \in Nat /\ a < W + W /\ os_tick' = a % W
      BY <1>8, <3>1 DEF Tick
    <3> HIDE DEF a
    <3>3. a % W = IF a < W THEN a ELSE a - W
      BY <3>2, Wrap
    <3> QED  BY <3>1, <3>2, <3>3
  <2>2. n' \in ToSet(list) \cup {None}
    BY <1>0, <1>8, HeadIs DEF Tick
  <2> QED  BY <1>0, <1>8, <2>1, <2>2 DEF StopInv, ListsOK, TypeOK, Tick, stop
<1>9. CASE Take
  <2>1. n \in Timer /\ n # None /\ Unlink(n)
    BY <1>0, <1>9 DEF Take, ListsOK, TypeOK
  <2>2. CASE n \in ToSet(list)
    <3>1. n' = None \/ n' \in ToSet(list) \ {n}
      BY <1>0, <1>9, <2>2, NextNodeIs DEF Take
    <3> QED  BY <1>0, <1>9, <2>1, <3>1, UnlinkLinks
             DEF StopInv, ListsOK, TypeOK, Take, stop
  <2>3. CASE n \notin ToSet(list)
    <3>1. n' = n
      BY <1>9, <2>3 DEF Take, NextNode
    <3> QED  BY <1>0, <1>9, <2>1, <3>1, UnlinkLinks
             DEF StopInv, ListsOK, TypeOK, Take, stop
  <2> QED  BY <2>2, <2>3
<1>10. CASE Expire
  <2>1. firing \in Timer
    BY <1>0, <1>10 DEF Expire, ListsOK, TypeOK
  <2>2. CASE firing \in Periodic \cap act
    <3>1. StartEffect(firing) /\ UNCHANGED act
      BY <1>10, <2>2 DEF Expire
    <3> QED  BY <1>0, <1>10, <2>1, <2>2, <3>1, StartLinks, TimerAssumption
             DEF StopInv, ListsOK, TypeOK, Expire, stop
  <2>3. CASE firing \notin Periodic \cap act
    <3>1. /\ act' = act \ {firing}
          /\ UNCHANGED <<startup, timeout, list, order>>
      BY <1>10, <2>3 DEF Expire
    <3> QED  BY <1>0, <1>10, <2>1, <2>3, <3>1, TimerAssumption
             DEF StopInv, ListsOK, TypeOK, Expire, stop
  <2> QED  BY <2>2, <2>3
<1>11. CASE CheckEnd
  BY <1>0, <1>11, TimerAssumption DEF StopInv, ListsOK, TypeOK, CheckEnd, stop
<1> QED  BY <1>1, <1>2, <1>3, <1>4, <1>5, <1>6, <1>7, <1>8, <1>9, <1>10, <1>11
         DEF Next, Call

(* Without any risky usage, what os_timer_check visits next stays in the   *)
(* list, and is not the timer whose callback runs.                         *)
LEMMA LinkStep ==
    ASSUME LinkInv, Next, Risky = {}
    PROVE  LinkInv'
<1>0. /\ StopInv /\ StopInv' /\ ListsOK
      /\ IsList(list, Timer) /\ ToSet(list) \subseteq Timer /\ None \notin ToSet(list)
      /\ n # None => n \in ToSet(list) /\ n # firing
  BY StopStep, LinkFacts DEF LinkInv, StopInv
<1> DEFINE Cursor == n' # None => n' \in ToSet(list') /\ n' # firing'
<1> SUFFICES Cursor  BY <1>0 DEF LinkInv
<1>1. ASSUME NEW x \in Timer, Start(x)  PROVE Cursor
  <2>1. StartEffect(x) /\ UNCHANGED clock  BY <1>1 DEF Start
  <2>2. ToSet(list') = ToSet(list) \cup {x}  BY <1>0, <2>1, StartLinks
  <2> QED  BY <1>0, <2>1, <2>2 DEF clock
<1>2. ASSUME NEW x \in Timer, Delete(x) \/ CallbackStop(x)  PROVE Cursor
  <2>1. Unlink(x) /\ n # x /\ UNCHANGED clock
    BY <1>2 DEF Delete, CallbackStop, NotNext
  <2>2. ToSet(list') = ToSet(list) \ {x}  BY <1>0, <2>1, UnlinkLinks
  <2> QED  BY <1>0, <2>1, <2>2 DEF clock
<1>3. CASE \/ StopRemove \/ CheckEnd
  BY <1>0, <1>3 DEF StopRemove, CheckEnd, clock, StopInv
<1>4. CASE \/ StopClear
           \/ \E x \in Timer : StopCheck(x) \/ \E d \in Interval : TickSet(x, d)
  BY <1>0, <1>4 DEF StopClear, StopCheck, TickSet, clock
<1>5. CASE Tick
  <2>1. n' \in ToSet(list) \cup {None} /\ list' = list /\ firing' = firing
    BY <1>0, <1>5, HeadIs DEF Tick
  <2>2. firing = None
    BY <1>0, <1>5 DEF Tick, StopInv
  <2> QED  BY <1>0, <2>1, <2>2
<1>6. CASE Take
  <2>1. n \in ToSet(list) /\ n \in Timer /\ Unlink(n) /\ firing' = n
    BY <1>0, <1>6 DEF Take
  <2>2. n' = None \/ n' \in ToSet(list) \ {n}
    BY <1>0, <1>6, <2>1, NextNodeIs DEF Take
  <2>3. ToSet(list') = ToSet(list) \ {n}
    BY <1>0, <2>1, UnlinkLinks
  <2> QED  BY <2>1, <2>2, <2>3
<1>7. CASE Expire
  <2>1. firing \in Timer /\ n' = n /\ firing' = None
    BY <1>0, <1>7 DEF Expire, ListsOK, TypeOK
  <2>2. ToSet(list) \subseteq ToSet(list')
    BY <1>0, <1>7, <2>1, StartLinks DEF Expire
  <2> QED  BY <1>0, <2>1, <2>2
<1> QED  BY <1>1, <1>2, <1>3, <1>4, <1>5, <1>6, <1>7 DEF Next, Call

(* LinkInv holds before the first call.                                    *)
LEMMA LinkInit ==
    ASSUME Init
    PROVE  LinkInv
<1>1. ToSet(<<>>) = {} /\ IsInjective(<<>>) /\ <<>> \in Seq(Timer)
  BY DEF ToSet, IsInjective
<1>2. W \in Nat /\ W > 0 /\ 0 \in 0..W - 1
  BY TimerAssumption
<1> QED  BY <1>1, <1>2, TimerAssumption DEF Init, LinkInv, StopInv, ListsOK, TypeOK

(* The list and the flags stay as StopInv says, in every state.            *)
THEOREM StopInductive ==
    {"restartSelf", "stopRace"} \cap Risky = {} /\ Spec => []StopInv
<1>1. Init => StopInv
  BY LinkInit DEF LinkInv
<1>2. {"restartSelf", "stopRace"} \cap Risky = {} /\ StopInv /\ [Next]_vars => StopInv'
  <2> SUFFICES ASSUME {"restartSelf", "stopRace"} \cap Risky = {}, StopInv, [Next]_vars
               PROVE  StopInv'
    OBVIOUS
  <2>1. CASE Next
    BY <2>1, StopStep
  <2>2. CASE UNCHANGED vars
    BY <2>2 DEF StopInv, ListsOK, TypeOK, vars
  <2> QED  BY <2>1, <2>2
<1>3. CASE {"restartSelf", "stopRace"} \cap Risky = {}
  <2> QED  BY <1>1, <1>2, <1>3, PTL DEF Spec
<1>4. CASE {"restartSelf", "stopRace"} \cap Risky # {}
  BY <1>4
<1> QED  BY <1>3, <1>4

(* A timer in os_timer_list always has OS_TIMER_ACTIVATED: os_timer_stop   *)
(* never returns OS_ERROR for a timer that will fire. This holds whatever  *)
(* tasks and callbacks start, stop, delete and set, the timer whose        *)
(* callback runs and the next one included, but for the two usages that    *)
(* break it: a one-shot callback that starts its own timer, and a start    *)
(* between the two critical sections of os_timer_stop on the same timer.   *)
THEOREM LinkedTimersStop ==
    {"restartSelf", "stopRace"} \cap Risky = {} /\ Spec => []LinkedCanBeStopped
<1>1. StopInv => LinkedCanBeStopped
  BY DEF StopInv, LinkedCanBeStopped
<1> QED  BY <1>1, StopInductive, PTL

-----------------------------------------------------------------------------
(* The arithmetic *)

(* What every step may use of TimerInv.                                    *)
LEMMA TimeFacts ==
    ASSUME TimerInv
    PROVE  /\ \A x \in ToSet(list) : /\ Rem(x) \in 0..W - 1 /\ Age(x) \in 0..W - 1
                                     /\ interval[x] \in 0..W - 1
                                     /\ Due(x) <=> Rem(x) = 0
           /\ W \in Nat /\ W > 0
<1>1. W \in Nat /\ W > 0
  BY TimerAssumption
<1>2. ASSUME NEW x \in ToSet(list)
      PROVE  /\ Rem(x) \in 0..W - 1 /\ Age(x) \in 0..W - 1
             /\ interval[x] \in 0..W - 1
             /\ Due(x) <=> Rem(x) = 0
  <2>1. x \in Timer
    BY LinkFacts DEF TimerInv, LinkInv, StopInv
  <2>2. /\ os_tick \in 0..W - 1 /\ startup[x] \in 0..W - 1
        /\ timeout[x] \in 0..W - 1 /\ interval[x] \in 0..W - 1
    BY <2>1, TimerAssumption DEF TimerInv, LinkInv, StopInv, ListsOK, TypeOK
  <2>3. Rem(x) \in 0..W - 1 /\ Age(x) \in 0..W - 1
    BY <2>2, Difference DEF Rem, Age
  <2>4. Rem(x) + Age(x) = interval[x]
    BY DEF TimerInv, Counted
  <2>5. Due(x) <=> Age(x) >= interval[x]
    BY DEF Due, Age
  <2> QED  BY <1>1, <2>2, <2>3, <2>4, <2>5
<1> QED  BY <1>1, <1>2

(* Removing a timer changes nothing about the others.                      *)
LEMMA UnlinkTimes ==
    ASSUME TimerInv, NEW x \in Timer, Unlink(x), UNCHANGED <<os_tick, interval>>
    PROVE  /\ Counted' /\ Sorted'
           /\ n # x /\ n' = n => Passed'
           /\ \A y : Rem(y)' = Rem(y) /\ Age(y)' = Age(y)
<1>1. /\ ToSet(list') = ToSet(list) \ {x}
      /\ \A a, b : Before(list', a, b)
                   <=> Before(list, a, b) /\ a # x /\ b # x
      /\ \A a, b : Before(order', a, b)
                   <=> Before(order, a, b) /\ a # x /\ b # x
  BY UnlinkEffect DEF TimerInv, LinkInv, StopInv
<1>2. \A y : Rem(y)' = Rem(y) /\ Age(y)' = Age(y)
  BY DEF Unlink, Rem, Age
<1>3. Counted'
  BY <1>1, <1>2 DEF TimerInv, Counted
<1>4. Sorted'
  BY <1>1, <1>2 DEF TimerInv, Sorted
<1>5. n # x /\ n' = n => Passed'
  BY <1>1, <1>2 DEF TimerInv, Passed
<1> QED  BY <1>2, <1>3, <1>4, <1>5

(* A timer that is started is due after its interval; it takes its place   *)
(* in the order of the list.                                               *)
LEMMA StartTimes ==
    ASSUME TimerInv, NEW x \in Timer, StartEffect(x), interval[x] # 0,
           UNCHANGED <<os_tick, interval, n>>, n # x
    PROVE  /\ Counted' /\ Sorted' /\ Passed'
           /\ Rem(x)' = interval[x] /\ Age(x)' = 0
           /\ \A y \in Timer \ {x} : Rem(y)' = Rem(y) /\ Age(y)' = Age(y)
<1> DEFINE s == Without(list, x)
<1>1. LinkInv
  BY DEF TimerInv
<1>2. PICK p \in Nat \ {0} :
           /\ IsList(s, Timer) /\ IsList(list', Timer) /\ IsList(order', Timer)
           /\ ToSet(s) = ToSet(list) \ {x}
           /\ ToSet(list') = ToSet(list) \cup {x}
           /\ ToSet(order') = ToSet(list) \cup {x}
           /\ startup' = [startup EXCEPT ![x] = os_tick]
           /\ startup' \in [Timer -> 0..W - 1]
           /\ \E at \in 0..W - 1 :
                 /\ timeout' = [timeout EXCEPT ![x] = at]
                 /\ Diff(at, os_tick) = interval[x]
           /\ timeout' \in [Timer -> 0..W - 1]
           /\ \A a, b : a # x /\ b # x
                 => /\ Before(s, a, b) <=> Before(list, a, b)
                    /\ Before(list', a, b) <=> Before(list, a, b)
           /\ \A a : Before(list', a, x) =>
                 \E i \in DOMAIN s : i < p /\ s[i] = a
           /\ \A b : Before(list', x, b) =>
                 \E i \in DOMAIN s : i >= p /\ s[i] = b
           /\ \A i \in DOMAIN s : i < p => Rem(s[i]) <= interval[x]
           /\ p \in DOMAIN s => Rem(s[p]) > interval[x]
           /\ \A a, b : Before(order', a, b)
                 <=> \/ Before(order, a, b) /\ a # x /\ b # x
                     \/ a \in ToSet(list) \ {x} /\ b = x
  BY <1>1, StartEffectOn, Zenon DEF LinkInv, StopInv
<1> HIDE DEF s
<1>3. /\ startup \in [Timer -> 0..W - 1] /\ timeout \in [Timer -> 0..W - 1]
      /\ os_tick \in 0..W - 1 /\ interval[x] \in 0..W - 1
      /\ W \in Nat /\ W > 0
      /\ ToSet(list) \subseteq Timer
  <2>1. W \in Nat /\ W > 0 /\ interval[x] \in 0..W - 1
    <3>1. interval[x] \in Interval
      BY <1>1 DEF LinkInv, StopInv, ListsOK, TypeOK
    <3>2. interval[x] \in 0..W - 1
      BY <3>1, TimerAssumption, Zenon
    <3>3. W \in Nat /\ W > 0
      BY TimerAssumption
    <3> QED  BY <3>2, <3>3
  <2>2. /\ startup \in [Timer -> 0..W - 1] /\ timeout \in [Timer -> 0..W - 1]
        /\ os_tick \in 0..W - 1
    BY <1>1 DEF LinkInv, StopInv, ListsOK, TypeOK
  <2> QED  BY <1>1, <2>1, <2>2, LinkFacts DEF LinkInv, StopInv
<1>4. PICK at \in 0..W - 1 : /\ timeout' = [timeout EXCEPT ![x] = at]
                             /\ Diff(at, os_tick) = interval[x]
  BY <1>2
<1>5. Rem(x)' = interval[x]
  BY <1>3, <1>4 DEF Rem
<1>6. Age(x)' = 0
  BY <1>2, <1>3, TimeoutOfStart DEF Age
<1>7. \A y \in Timer \ {x} : Rem(y)' = Rem(y) /\ Age(y)' = Age(y)
  BY <1>2, <1>3, <1>4 DEF Rem, Age
<1>8. \A y \in ToSet(list) : Rem(y) \in Int
  BY TimeFacts
<1>9. Counted'
  BY <1>2, <1>3, <1>5, <1>6, <1>7 DEF TimerInv, Counted
<1>10. ASSUME NEW a \in ToSet(list), a # x, Before(list', a, x)
       PROVE  Rem(a) <= interval[x] /\ Before(order', a, x)
  BY <1>2, <1>10
<1>11. ASSUME NEW b \in ToSet(list), b # x, Before(list', x, b)
       PROVE  interval[x] < Rem(b)
  <2>1. PICK i \in DOMAIN s : i >= p /\ s[i] = b
    BY <1>2, <1>11
  <2>2. DOMAIN s = 1..Len(s) /\ Len(s) \in Nat
    BY <1>2 DEF IsList
  <2>3. p \in DOMAIN s /\ Rem(s[p]) > interval[x]
    BY <1>2, <2>1, <2>2
  <2>4. CASE i = p
    BY <2>1, <2>3, <2>4
  <2>5. CASE i > p
    <3>1. Before(s, s[p], b)
      BY <2>1, <2>3, <2>5 DEF Before
    <3>2. s[p] \in ToSet(s)
      BY <2>3 DEF ToSet
    <3>3. Before(list, s[p], b) /\ s[p] \in ToSet(list)
      BY <1>2, <1>11, <3>1, <3>2
    <3>4. Rem(s[p]) <= Rem(b)
      BY <1>8, <3>3 DEF TimerInv, Sorted
    <3> QED  BY <1>3, <1>8, <2>3, <3>3, <3>4
  <2> QED  BY <2>1, <2>2, <2>4, <2>5
<1>12. Sorted'
  <2> SUFFICES ASSUME NEW a \in ToSet(list'), NEW b \in ToSet(list'),
                      Before(list', a, b)
               PROVE  \/ Rem(a)' < Rem(b)'
                      \/ Rem(a)' = Rem(b)' /\ Before(order', a, b)
    BY DEF Sorted
  <2>1. a # b /\ a \in Timer /\ b \in Timer
    BY <1>2, <1>3, Ordered
  <2>2. CASE a # x /\ b # x
    <3>1. a \in ToSet(list) /\ b \in ToSet(list) /\ Before(list, a, b)
      BY <1>2, <2>2
    <3>2. Rem(a) < Rem(b) \/ (Rem(a) = Rem(b) /\ Before(order, a, b))
      BY <3>1 DEF TimerInv, Sorted
    <3> QED  BY <1>2, <1>7, <2>1, <2>2, <3>2
  <2>3. CASE b = x
    <3>1. a \in ToSet(list) /\ a # x /\ Rem(a) <= interval[x] /\ Before(order', a, x)
      BY <1>2, <1>10, <2>1, <2>3
    <3> QED  BY <1>3, <1>5, <1>7, <1>8, <2>1, <2>3, <3>1
  <2>4. CASE a = x
    <3>1. b \in ToSet(list) /\ b # x /\ interval[x] < Rem(b)
      BY <1>2, <1>11, <2>1, <2>4
    <3> QED  BY <1>5, <1>7, <2>1, <2>4, <3>1
  <2> QED  BY <2>2, <2>3, <2>4
<1>13. Passed'
  <2> SUFFICES ASSUME NEW y \in ToSet(list'), Rem(y)' = 0
               PROVE  n # None /\ (y = n \/ Before(list', n, y))
    BY DEF Passed
  <2>1. y # x
    BY <1>3, <1>5
  <2>2. y \in ToSet(list) /\ Rem(y) = 0
    BY <1>2, <1>3, <1>7, <2>1
  <2>3. n # None /\ (y = n \/ Before(list, n, y))
    BY <2>2 DEF TimerInv, Passed
  <2> QED  BY <1>2, <2>1, <2>3
<1> QED  BY <1>5, <1>6, <1>7, <1>9, <1>12, <1>13

(* The clock takes one tick from every timer in the list.                  *)
LEMMA TickCounts ==
    ASSUME TimerInv, n = None, os_tick' = (os_tick + 1) % W,
           UNCHANGED <<startup, timeout>>, NEW x \in ToSet(list)
    PROVE  Rem(x)' = Rem(x) - 1 /\ Age(x)' = Age(x) + 1
<1>1. /\ Rem(x) \in 0..W - 1 /\ Age(x) \in 0..W - 1
      /\ interval[x] \in 0..W - 1 /\ W \in Nat
      /\ Rem(x) # 0 /\ Rem(x) + Age(x) = interval[x]
  BY TimeFacts DEF TimerInv, Passed, Counted
<1>2. W > 1 /\ Rem(x) > 0 /\ Age(x) < W - 1
  BY <1>1
<1>3. /\ os_tick \in 0..W - 1 /\ startup[x] \in 0..W - 1
      /\ timeout[x] \in 0..W - 1
  BY LinkFacts DEF TimerInv, LinkInv, StopInv, ListsOK, TypeOK
<1>4. Diff(timeout[x], (os_tick + 1) % W) = Diff(timeout[x], os_tick) - 1
  BY <1>2, <1>3, TickOfClock DEF Rem
<1>5. Diff((os_tick + 1) % W, startup[x]) = Diff(os_tick, startup[x]) + 1
  BY <1>2, <1>3, TickOfClock DEF Age
<1> QED  BY <1>4, <1>5 DEF Rem, Age

(* Each step keeps the arithmetic, when no interval is 0.                  *)
LEMMA TimeStep ==
    ASSUME TimerInv, Next, Risky = {}, 0 \notin Interval
    PROVE  Counted' /\ Sorted' /\ Passed'
<1>0. /\ LinkInv /\ IsList(list, Timer) /\ ToSet(list) \subseteq Timer
      /\ None \notin ToSet(list)
  BY LinkFacts DEF TimerInv, LinkInv, StopInv
<1>1. ASSUME NEW x \in Timer  PROVE interval[x] # 0
  BY <1>0 DEF LinkInv, StopInv, ListsOK, TypeOK
<1>2. ASSUME NEW x \in Timer, Start(x)  PROVE Counted' /\ Sorted' /\ Passed'
  <2>1. /\ StartEffect(x) /\ n # x
        /\ UNCHANGED <<os_tick, interval, n>>
    BY <1>2 DEF Start, NotNext, clock
  <2> QED  BY <1>1, <2>1, StartTimes
<1>3. ASSUME NEW x \in Timer, Delete(x) \/ CallbackStop(x)
      PROVE  Counted' /\ Sorted' /\ Passed'
  <2>1. Unlink(x) /\ n # x /\ n' = n /\ UNCHANGED <<os_tick, interval>>
    BY <1>3 DEF Delete, CallbackStop, NotNext, clock
  <2> QED  BY <2>1, UnlinkTimes
<1>4. ASSUME NEW x \in Timer, NEW d \in Interval, TickSet(x, d)
      PROVE  Counted' /\ Sorted' /\ Passed'
  <2>1. /\ UNCHANGED <<os_tick, startup, timeout, list, n, order>>
        /\ x \notin ToSet(list) /\ interval' = [interval EXCEPT ![x] = d]
    BY <1>4 DEF TickSet, clock
  <2>2. \A y \in ToSet(list) : interval'[y] = interval[y]
    BY <1>0, <2>1 DEF LinkInv, StopInv, ListsOK, TypeOK
  <2> QED  BY <2>1, <2>2 DEF TimerInv, Counted, Sorted, Passed, Rem, Age
<1>5. CASE StopRemove
  <2>1. /\ target \in Timer /\ Unlink(target) /\ n # target /\ n' = n
        /\ UNCHANGED <<os_tick, interval>>
    BY <1>0, <1>5 DEF StopRemove, LinkInv, StopInv, ListsOK, TypeOK, clock
  <2> QED  BY <2>1, UnlinkTimes
<1>6. CASE StopClear \/ \E x \in Timer : StopCheck(x)
  <2>1. UNCHANGED <<os_tick, startup, timeout, interval, list, n, order>>
    BY <1>6 DEF StopClear, StopCheck, clock
  <2> QED  BY <2>1 DEF TimerInv, Counted, Sorted, Passed, Rem, Age
<1>7. CASE Tick
  <2>1. /\ os_tick' = (os_tick + 1) % W /\ n = None
        /\ n' = IF list = <<>> THEN None ELSE Head(list)
        /\ UNCHANGED <<startup, timeout, interval, list, order>>
    BY <1>0, <1>7 DEF Tick, LinkInv, StopInv, ListsOK
  <2>2. ASSUME NEW x \in ToSet(list)
        PROVE  Rem(x)' = Rem(x) - 1 /\ Age(x)' = Age(x) + 1
    BY <2>1, TickCounts
  <2>3. \A x \in ToSet(list) : /\ Rem(x) \in Int /\ Age(x) \in Int
                               /\ interval[x] \in Int
    BY TimeFacts
  <2>4. Counted' /\ Sorted'
    BY <2>1, <2>2, <2>3 DEF TimerInv, Counted, Sorted
  <2>5. Passed'
    BY <1>0, <2>1, HeadIs DEF Passed, ToSet
  <2> QED  BY <2>4, <2>5
<1>8. CASE Take
  <2>1. /\ n \in ToSet(list) /\ n \in Timer /\ Unlink(n) /\ n' = NextNode(n)
        /\ UNCHANGED <<os_tick, interval>>
    BY <1>0, <1>8 DEF Take, LinkInv, StopInv, ListsOK
  <2>2. Counted' /\ Sorted' /\ \A y : Rem(y)' = Rem(y)
    BY <2>1, UnlinkTimes
  <2>3. /\ ToSet(list') = ToSet(list) \ {n}
        /\ \A a, b : Before(list', a, b)
                     <=> Before(list, a, b) /\ a # n /\ b # n
    BY <1>0, <2>1, UnlinkEffect DEF LinkInv, StopInv
  <2>4. ASSUME NEW y \in ToSet(list'), Rem(y)' = 0
        PROVE  n' # None /\ (y = n' \/ Before(list', n', y))
    <3>1. y \in ToSet(list) /\ y # n /\ Before(list, n, y)
      BY <2>2, <2>3, <2>4 DEF TimerInv, Passed
    <3>2. ~Before(list, y, n)
      BY <1>0, <3>1, Ordered
    <3>3. /\ n' # None /\ n' \in ToSet(list) \ {n}
          /\ y = n' \/ Before(list, n', y)
      BY <1>0, <2>1, <3>1, <3>2, NextNodeIs
    <3> QED  BY <2>3, <3>1, <3>3
  <2> QED  BY <2>2, <2>4 DEF Passed
<1>9. CASE Expire
  <2>1. CASE firing \in Periodic \cap act
    <3>1. /\ StartEffect(firing) /\ firing \in Timer /\ n # firing
          /\ UNCHANGED <<os_tick, interval, n>>
      BY <1>0, <1>9, <2>1 DEF Expire, LinkInv, StopInv, ListsOK, TypeOK
    <3> QED  BY <1>1, <3>1, StartTimes
  <2>2. CASE firing \notin Periodic \cap act
    <3>1. UNCHANGED <<os_tick, startup, timeout, interval, list, n, order>>
      BY <1>9, <2>2 DEF Expire
    <3> QED  BY <3>1 DEF TimerInv, Counted, Sorted, Passed, Rem, Age
  <2> QED  BY <2>1, <2>2
<1>10. CASE CheckEnd
  <2>1. /\ UNCHANGED <<os_tick, startup, timeout, interval, list, order>>
        /\ n # None => ~Due(n)
    BY <1>10 DEF CheckEnd
  <2>2. ASSUME NEW x \in ToSet(list)  PROVE Rem(x) # 0
    <3>1. Rem(x) = 0 => n # None /\ (x = n \/ Before(list, n, x))
      BY DEF TimerInv, Passed
    <3>2. n # None => n \in ToSet(list) /\ Rem(n) # 0 /\ Rem(n) \in 0..W - 1
      BY <1>0, <2>1, TimeFacts DEF LinkInv, StopInv, ListsOK
    <3>3. n # None /\ Before(list, n, x) => Rem(n) <= Rem(x)
      BY <3>2, TimeFacts DEF TimerInv, Sorted
    <3>4. Rem(x) \in 0..W - 1 /\ W \in Nat
      BY TimeFacts
    <3> QED  BY <3>1, <3>2, <3>3, <3>4
  <2> QED  BY <2>1, <2>2 DEF TimerInv, Counted, Sorted, Passed, Rem, Age
<1> QED  BY <1>2, <1>3, <1>4, <1>5, <1>6, <1>7, <1>8, <1>9, <1>10
         DEF Next, Call

(* TimerInv holds before the first call.                                   *)
LEMMA TimeInit ==
    ASSUME Init
    PROVE  TimerInv
<1>1. ToSet(<<>>) = {}
  BY DEF ToSet
<1> QED  BY <1>1, LinkInit DEF Init, TimerInv, Counted, Sorted, Passed

(* Each step keeps TimerInv: one case for each action.                     *)
LEMMA TimerStep ==
    ASSUME TimerInv, [Next]_vars, Risky = {}, 0 \notin Interval
    PROVE  TimerInv'
<1>1. CASE Next
  BY <1>1, LinkStep, TimeStep DEF TimerInv
<1>2. CASE UNCHANGED vars
  BY <1>2 DEF TimerInv, Counted, Sorted, Passed, LinkInv, StopInv, ListsOK, TypeOK, Rem, Age, vars
<1> QED  BY <1>1, <1>2

-----------------------------------------------------------------------------
(* The service *)

(* The ticks a timer has left are what Diff makes of its timeout_tick.     *)
LeftIsRem == /\ Left \in [Timer -> Nat]
             /\ \A x \in Timer :
                   Left[x] = IF x \in ToSet(list) THEN Rem(x) ELSE 0

(* The countdown of the abstract service is what is left in the code.      *)
LEMMA LeftOfTimers == TimerInv => LeftIsRem
<1> SUFFICES ASSUME TimerInv  PROVE LeftIsRem
  OBVIOUS
<1>1. ASSUME NEW x \in Timer
      PROVE  /\ Left[x] = IF x \in ToSet(list) THEN Rem(x) ELSE 0
             /\ Left[x] \in Nat
  <2>1. Left[x] = IF x \in ToSet(list) /\ ~Due(x)
                  THEN interval[x] - Diff(os_tick, startup[x]) ELSE 0
    BY DEF Left
  <2>2. CASE x \in ToSet(list)
    <3>1. /\ Rem(x) \in 0..W - 1 /\ Age(x) \in 0..W - 1
          /\ interval[x] \in 0..W - 1
          /\ Due(x) <=> Rem(x) = 0
          /\ W \in Nat /\ Rem(x) + Age(x) = interval[x]
      BY <2>2, TimeFacts DEF TimerInv, Counted
    <3>2. Left[x] = IF Rem(x) = 0 THEN 0 ELSE interval[x] - Age(x)
      BY <2>1, <2>2, <3>1 DEF Age
    <3> QED  BY <2>2, <3>1, <3>2
  <2>3. CASE x \notin ToSet(list)
    BY <2>1, <2>3
  <2> QED  BY <2>2, <2>3
<1>2. Left = [x \in Timer |-> Left[x]]
  BY DEF Left
<1> QED  BY <1>1, <1>2 DEF LeftIsRem

(* The ticks left after a step, from those of each timer.                  *)
LEMMA LeftAfter ==
    ASSUME LeftIsRem', NEW f,
           \A x \in Timer : f[x] = IF x \in ToSet(list') THEN Rem(x)' ELSE 0,
           f = [x \in Timer |-> f[x]]
    PROVE  Left' = f
<1>1. Left' = [x \in Timer |-> Left'[x]]
  BY DEF Left
<1>2. \A x \in Timer : Left'[x] = f[x]
  BY DEF LeftIsRem
<1> QED  BY <1>1, <1>2

(* Switching off a timer of the service takes it out of the order.         *)
LEMMA OffIs == \A x : Service!Off(x) = Without(order, x)
BY DEF Service!Off, Without, RemoveAt, Service!RemoveAt

(* Starting a timer, by a task, a callback or os_timer_check.              *)
LEMMA StartRefines ==
    ASSUME TimerInv, LeftIsRem, LeftIsRem', NEW x \in Timer, StartEffect(x),
           interval[x] # 0, UNCHANGED <<os_tick, interval, n>>, n # x
    PROVE  /\ order' = Append(Service!Off(x), x)
           /\ Left' = [Left EXCEPT ![x] = interval[x]]
           /\ interval[x] \in Interval
<1>1. order' = Append(Service!Off(x), x)
  BY OffIs DEF StartEffect
<1>2. /\ ToSet(list') = ToSet(list) \cup {x}
      /\ Rem(x)' = interval[x]
      /\ \A y \in Timer \ {x} : Rem(y)' = Rem(y)
  BY StartTimes, StartLinks DEF TimerInv, LinkInv, StopInv
<1> DEFINE f == [Left EXCEPT ![x] = interval[x]]
<1>3. /\ f = [y \in Timer |-> f[y]]
      /\ \A y \in Timer : f[y] = IF y \in ToSet(list') THEN Rem(y)' ELSE 0
  BY <1>2 DEF LeftIsRem
<1> HIDE DEF f
<1>4. Left' = f
  BY <1>3, LeftAfter
<1>5. interval[x] \in Interval
  BY DEF TimerInv, LinkInv, StopInv, ListsOK, TypeOK
<1> QED  BY <1>1, <1>4, <1>5 DEF f

(* Stopping or deleting one, or taking one out that is due.                *)
LEMMA UnlinkRefines ==
    ASSUME TimerInv, LeftIsRem, LeftIsRem', NEW x \in Timer, Unlink(x),
           UNCHANGED <<os_tick, interval>>
    PROVE  /\ order' = Service!Off(x)
           /\ Left' = [Left EXCEPT ![x] = 0]
<1>1. order' = Service!Off(x)
  BY OffIs DEF Unlink
<1>2. /\ ToSet(list') = ToSet(list) \ {x}
      /\ \A y : Rem(y)' = Rem(y)
  BY UnlinkTimes, UnlinkLinks DEF TimerInv, LinkInv, StopInv
<1> DEFINE f == [Left EXCEPT ![x] = 0]
<1>3. /\ f = [y \in Timer |-> f[y]]
      /\ \A y \in Timer : f[y] = IF y \in ToSet(list') THEN Rem(y)' ELSE 0
  BY <1>2 DEF LeftIsRem
<1> HIDE DEF f
<1>4. Left' = f
  BY <1>3, LeftAfter
<1> QED  BY <1>1, <1>4 DEF f

(* Nothing that Left depends on changes.                                   *)
LEMMA SameLeft ==
    ASSUME LeftIsRem, LeftIsRem',
           ToSet(list') = ToSet(list), \A x \in Timer : Rem(x)' = Rem(x)
    PROVE  Left' = Left
<1>1. /\ Left = [y \in Timer |-> Left[y]]
      /\ \A y \in Timer : Left[y] = IF y \in ToSet(list') THEN Rem(y)' ELSE 0
  BY DEF LeftIsRem
<1> QED  BY <1>1, LeftAfter

(* The first of the due timers, in terms of which was started before which.*)
LEMMA FirstDueIs ==
    ASSUME IsList(order, Timer), NEW x \in ToSet(order), Left[x] = 0,
           \A y \in ToSet(order) : Left[y] = 0 /\ y # x => Before(order, x, y)
    PROVE  Service!FirstDue(x)
<1>1. /\ Len(order) \in Nat /\ DOMAIN order = 1..Len(order)
      /\ \A a, b \in DOMAIN order : order[a] = order[b] => a = b
  BY DEF IsList, IsInjective
<1>2. PICK i \in DOMAIN order : order[i] = x
  BY DEF ToSet
<1>3. i \in Service!DueNow
  BY <1>2 DEF Service!DueNow
<1>4. ASSUME NEW j \in Service!DueNow  PROVE i <= j
  <2>1. j \in DOMAIN order /\ Left[order[j]] = 0 /\ order[j] \in ToSet(order)
    BY DEF Service!DueNow, ToSet
  <2>2. CASE order[j] = x
    BY <1>1, <1>2, <2>1, <2>2
  <2>3. CASE order[j] # x
    <3>1. PICK a, b \in DOMAIN order : a < b /\ order[a] = x /\ order[b] = order[j]
      BY <2>1, <2>3 DEF Before
    <3> QED  BY <1>1, <1>2, <2>1, <3>1
  <2> QED  BY <2>2, <2>3
<1> QED  BY <1>2, <1>3, <1>4 DEF Service!FirstDue

(* Each step of os_timer.c is one of the service, or nothing it tells.     *)
LEMMA TimerStepRefines ==
    ASSUME TimerInv, TimerInv', Next, Risky = {}, 0 \notin Interval
    PROVE  Service!Next \/ UNCHANGED Service!svars
<1> DEFINE again == firing \in Periodic \cap act
<1>0. /\ LinkInv /\ IsList(list, Timer) /\ IsList(order, Timer)
      /\ ToSet(list) \subseteq Timer /\ ToSet(order) = ToSet(list)
      /\ None \notin Timer /\ Periodic \subseteq Timer
      /\ LeftIsRem /\ LeftIsRem'
  <2>1. LinkInv /\ IsList(list, Timer) /\ ToSet(list) \subseteq Timer
    BY LinkFacts DEF TimerInv, LinkInv, StopInv
  <2>2. LeftIsRem /\ LeftIsRem'
    BY LeftOfTimers, PTL
  <2> QED  BY <2>1, <2>2, TimerAssumption DEF LinkInv, StopInv, ListsOK, TypeOK, IsList
<1>1. ASSUME NEW x \in Timer  PROVE interval[x] # 0
  BY <1>0 DEF LinkInv, StopInv, ListsOK, TypeOK
<1>2. ASSUME NEW x \in Timer, Start(x)  PROVE Service!Start(x)
  <2>1. /\ StartEffect(x) /\ n # x /\ act' = act \cup {x}
        /\ firing # x \/ x \in Periodic
        /\ ~checking \/ firing # None
        /\ UNCHANGED <<os_tick, interval, checking, n, firing>>
    BY <1>2 DEF Start, NotNext, Open, clock
  <2>2. /\ order' = Append(Service!Off(x), x)
        /\ Left' = [Left EXCEPT ![x] = interval[x]]
        /\ interval[x] \in Interval
    BY <1>0, <1>1, <2>1, StartRefines
  <2>3. again' = (again \/ x = firing)
    BY <2>1
  <2> QED  BY <2>1, <2>2, <2>3 DEF Service!Start, Service!Open
<1>3. ASSUME NEW x \in Timer, Delete(x) \/ CallbackStop(x)
      PROVE  Service!Stop(x)
  <2>1. /\ Unlink(x)
        /\ ~checking \/ firing # None
        /\ UNCHANGED <<os_tick, interval, checking, firing>>
    BY <1>3 DEF Delete, CallbackStop, Open, clock
  <2>2. order' = Service!Off(x) /\ Left' = [Left EXCEPT ![x] = 0]
    BY <1>0, <2>1, UnlinkRefines
  <2>3. again' = (again /\ x # firing)
    BY <1>3 DEF Delete, CallbackStop, clock
  <2> QED  BY <2>1, <2>2, <2>3 DEF Service!Stop, Service!Open
<1>4. CASE StopRemove
  <2>1. /\ target \in Timer /\ Unlink(target) /\ ~checking /\ firing = None
        /\ UNCHANGED <<os_tick, interval, checking, firing, act>>
    BY <1>0, <1>4 DEF StopRemove, LinkInv, StopInv, ListsOK, TypeOK, clock
  <2>2. order' = Service!Off(target) /\ Left' = [Left EXCEPT ![target] = 0]
    <3>1. PICK x \in Timer : x = target
      BY <2>1
    <3>2. Unlink(x) /\ UNCHANGED <<os_tick, interval>>
      BY <2>1, <3>1
    <3>3. order' = Service!Off(x) /\ Left' = [Left EXCEPT ![x] = 0]
      BY <1>0, <3>2, UnlinkRefines
    <3> QED  BY <3>1, <3>3
  <2>3. again' = (again /\ target # firing)
    BY <1>0, <2>1
  <2>4. Service!Stop(target)
    BY <2>1, <2>2, <2>3 DEF Service!Stop, Service!Open
  <2> QED  BY <2>1, <2>4 DEF Service!Next
<1>5. ASSUME NEW x \in Timer, NEW d \in Interval, TickSet(x, d)
      PROVE  UNCHANGED Service!svars
  <2>1. UNCHANGED <<os_tick, startup, timeout, list, act, checking, firing, order>>
    BY <1>5 DEF TickSet, clock
  <2>2. Left' = Left
    BY <1>0, <2>1, SameLeft DEF Rem
  <2> QED  BY <2>1, <2>2 DEF Service!svars
<1>6. CASE StopClear \/ \E x \in Timer : StopCheck(x)
  <2>1. /\ UNCHANGED <<os_tick, startup, timeout, list, checking, firing, order>>
        /\ firing = None
    BY <1>0, <1>6 DEF StopClear, StopCheck, clock, LinkInv, StopInv, ListsOK
  <2>2. Left' = Left
    BY <1>0, <2>1, SameLeft DEF Rem
  <2>3. again' = again
    BY <1>0, <2>1
  <2> QED  BY <2>1, <2>2, <2>3 DEF Service!svars
<1>7. CASE Tick
  <2>1. /\ ~checking /\ checking' = TRUE /\ n = None
        /\ os_tick' = (os_tick + 1) % W
        /\ UNCHANGED <<startup, timeout, interval, list, act, firing, order>>
    BY <1>0, <1>7 DEF Tick, LinkInv, StopInv, ListsOK
  <2> DEFINE f == [x \in Timer |-> IF x \in ToSet(order) THEN Left[x] - 1 ELSE 0]
  <2>2. ASSUME NEW x \in Timer
        PROVE  f[x] = IF x \in ToSet(list') THEN Rem(x)' ELSE 0
    <3>1. CASE x \in ToSet(list)
      <4>1. Rem(x)' = Rem(x) - 1
        BY <2>1, <3>1, TickCounts
      <4> QED  BY <1>0, <2>1, <3>1, <4>1 DEF LeftIsRem
    <3>2. CASE x \notin ToSet(list)
      BY <1>0, <2>1, <3>2
    <3> QED  BY <3>1, <3>2
  <2>3. f = [x \in Timer |-> f[x]]
    OBVIOUS
  <2> HIDE DEF f
  <2>4. Left' = f
    BY <1>0, <2>2, <2>3, LeftAfter
  <2>5. Service!Tick
    BY <2>1, <2>4 DEF Service!Tick, f, ToSet, Service!ToSet
  <2> QED  BY <2>5 DEF Service!Next
<1>8. CASE Take
  <2>1. /\ checking /\ firing = None /\ n \in ToSet(list) /\ n \in Timer
        /\ Due(n) /\ Unlink(n) /\ firing' = n
        /\ UNCHANGED <<os_tick, interval, act, checking>>
    BY <1>0, <1>8 DEF Take, LinkInv, StopInv, ListsOK
  <2>2. order' = Service!Off(n) /\ Left' = [Left EXCEPT ![n] = 0]
    BY <1>0, <2>1, UnlinkRefines
  <2>3. Rem(n) = 0 /\ Left[n] = 0
    BY <1>0, <2>1, TimeFacts DEF LeftIsRem
  <2>4. Left' = Left
    BY <1>0, <2>2, <2>3 DEF LeftIsRem
  <2>5. ASSUME NEW y \in ToSet(list), Left[y] = 0, y # n
        PROVE  Before(order, n, y)
    <3>1. Rem(y) = 0
      BY <1>0, <2>5 DEF LeftIsRem
    <3>2. Before(list, n, y)
      BY <2>5, <3>1 DEF TimerInv, Passed
    <3> QED  BY <2>1, <2>3, <2>5, <3>1, <3>2 DEF TimerInv, Sorted
  <2>6. Service!FirstDue(n)
    BY <1>0, <2>1, <2>3, <2>5, FirstDueIs
  <2>7. again' = (n \in Periodic)
    BY <1>0, <2>1 DEF LinkInv, StopInv, ListsOK
  <2>8. Service!Fire(n)
    BY <2>1, <2>2, <2>4, <2>6, <2>7 DEF Service!Fire
  <2> QED  BY <2>1, <2>8 DEF Service!Next
<1>9. CASE Expire
  <2>1. /\ firing \in Timer /\ firing # None /\ n # firing /\ firing' = None
        /\ UNCHANGED <<os_tick, interval, checking, n>>
    BY <1>0, <1>9 DEF Expire, LinkInv, StopInv, ListsOK, TypeOK
  <2>2. again' = FALSE
    BY <1>0, <2>1
  <2>3. CASE again
    <3>1. StartEffect(firing)
      BY <1>9, <2>3 DEF Expire
    <3>2. /\ order' = Append(Service!Off(firing), firing)
          /\ Left' = [Left EXCEPT ![firing] = interval[firing]]
          /\ interval[firing] \in Interval
      BY <1>0, <1>1, <2>1, <3>1, StartRefines
    <3>3. Service!Return
      BY <2>1, <2>2, <2>3, <3>2 DEF Service!Return
    <3> QED  BY <3>3 DEF Service!Next
  <2>4. CASE ~again
    <3>1. UNCHANGED <<startup, timeout, list, order>>
      BY <1>9, <2>4 DEF Expire
    <3>2. Left' = Left
      BY <1>0, <2>1, <3>1, SameLeft DEF Rem
    <3>3. Service!Return
      BY <2>1, <2>2, <2>4, <3>1, <3>2 DEF Service!Return
    <3> QED  BY <3>3 DEF Service!Next
  <2> QED  BY <2>3, <2>4
<1>10. CASE CheckEnd
  <2>1. /\ checking /\ firing = None /\ checking' = FALSE
        /\ UNCHANGED <<os_tick, startup, timeout, list, act, firing, order>>
    BY <1>10 DEF CheckEnd
  <2>2. Left' = Left
    BY <1>0, <2>1, SameLeft DEF Rem
  <2>3. \A x \in ToSet(list) : Left[x] # 0
    <3>1. \A x \in ToSet(list) : Rem(x)' # 0 /\ Rem(x)' = Rem(x)
      BY <1>0, <1>10, <2>1 DEF CheckEnd, TimerInv, Passed, Rem
    <3> QED  BY <1>0, <3>1 DEF LeftIsRem
  <2>4. Service!DueNow = {}
    BY <1>0, <2>3 DEF Service!DueNow, ToSet
  <2>5. Service!Done
    BY <2>1, <2>2, <2>4 DEF Service!Done
  <2> QED  BY <2>5 DEF Service!Next
<1> QED  BY <1>2, <1>3, <1>4, <1>5, <1>6, <1>7, <1>8, <1>9, <1>10
         DEF Next, Call, Service!Next

(* The arithmetic modulo W keeps the list ordered by the ticks left.       *)
THEOREM TimerInductive ==
    Risky = {} /\ 0 \notin Interval /\ Spec => []TimerInv
<1>1. Init => TimerInv
  BY TimeInit
<1>2. Risky = {} /\ 0 \notin Interval /\ TimerInv /\ [Next]_vars => TimerInv'
  BY TimerStep
<1>3. CASE Risky = {} /\ 0 \notin Interval
  <2> QED  BY <1>1, <1>2, <1>3, PTL DEF Spec
<1>4. CASE ~(Risky = {} /\ 0 \notin Interval)
  BY <1>4
<1> QED  BY <1>3, <1>4

(* When os_timer_check has returned, no timer is due: every timer that was *)
(* has fired.                                                              *)
THEOREM TimersFireOnTime ==
    Risky = {} /\ 0 \notin Interval /\ Spec => []OnTime
<1>1. TimerInv => OnTime
  <2> SUFFICES ASSUME TimerInv, ~checking, NEW x \in ToSet(list), Due(x)
               PROVE  FALSE
    BY DEF OnTime
  <2>1. Rem(x) = 0
    BY TimeFacts
  <2> QED  BY <2>1 DEF TimerInv, LinkInv, StopInv, ListsOK, Passed
<1> QED  BY <1>1, TimerInductive, PTL

(* os_timer.c implements the service: a timer fires exactly as many ticks  *)
(* after its start as its interval says, in the order of the starts among  *)
(* those due together, for every width of os_tick and across its overflow. *)
THEOREM TimerImplemented ==
    Risky = {} /\ 0 \notin Interval /\ Spec => ImplementsTimerService
<1>1. Init => Service!Init
  <2> SUFFICES ASSUME Init  PROVE Service!Init
    OBVIOUS
  <2>1. ToSet(<<>>) = {}
    BY DEF ToSet
  <2>2. Left = [x \in Timer |-> 0]
    BY <2>1 DEF Init, Left
  <2>3. (firing \in Periodic \cap act) = FALSE
    BY DEF Init
  <2> QED  BY <2>2, <2>3 DEF Init, Service!Init
<1>2. Risky = {} /\ 0 \notin Interval /\ TimerInv /\ TimerInv' /\ [Next]_vars
         => [Service!Next]_(Service!svars)
  <2> SUFFICES ASSUME Risky = {}, 0 \notin Interval, TimerInv, TimerInv',
                      [Next]_vars
               PROVE  [Service!Next]_(Service!svars)
    OBVIOUS
  <2>1. CASE Next
    BY <2>1, TimerStepRefines
  <2>2. CASE UNCHANGED vars
    BY <2>2 DEF vars, Service!svars, Left, Due
  <2> QED  BY <2>1, <2>2
<1>3. CASE Risky = {} /\ 0 \notin Interval
  <2> QED  BY <1>1, <1>2, <1>3, TimerInductive, PTL
           DEF Spec, Service!Spec, ImplementsTimerService
<1>4. CASE ~(Risky = {} /\ 0 \notin Interval)
  BY <1>4
<1> QED  BY <1>3, <1>4
=============================================================================
