---------------------------- MODULE OsHeapProofs ----------------------------
(***************************************************************************)
(* HeapInv of OsHeap is an invariant for every heap, header, set of tasks  *)
(* and set of sizes: the blocks always tile the heap, each in use belongs  *)
(* to one task with the room it asked for, and one task at a time is       *)
(* between os_sem_take and os_sem_give of heap_sem.  lfree is the lowest   *)
(* free block, free neighbours are united, and used_mem is the sum of what *)
(* the blocks in use take.                                                 *)
(***************************************************************************)
EXTENDS OsHeap, SequenceTheorems, FiniteSetTheorems, WellFoundedInduction, TLAPS

-----------------------------------------------------------------------------
(* What the functions do to a tiled memory *)

LEMMA OffsetFacts ==
    /\ Size \in Nat /\ MinSize \in Nat \ {0} /\ MinSize <= Size
    /\ Header \in Nat \ {0} /\ End \in Nat /\ End > 0 /\ 0 \in Offset /\ End \in Offset
    /\ \A p \in Offset : p \in Nat /\ p <= End
    /\ NoBlock \notin Offset
BY HeapAssumption DEF End, Offset

(* Setting one field of a header leaves the others.                        *)
LEMMA FieldSet ==
    ASSUME NEW b \in MemBlock, NEW o \in Offset
    PROVE  /\ NextSet(b, o) \in MemBlock /\ NextSet(b, o).next = o
           /\ NextSet(b, o).prev = b.prev /\ NextSet(b, o).used = b.used
           /\ PrevSet(b, o) \in MemBlock /\ PrevSet(b, o).prev = o
           /\ PrevSet(b, o).next = b.next /\ PrevSet(b, o).used = b.used
BY DEF MemBlock, NextSet, PrevSet

LEMMA UsedFieldSet ==
    ASSUME NEW b \in MemBlock, NEW u \in BOOLEAN
    PROVE  /\ UsedSet(b, u) \in MemBlock /\ UsedSet(b, u).used = u
           /\ UsedSet(b, u).next = b.next /\ UsedSet(b, u).prev = b.prev
BY DEF MemBlock, UsedSet

Tiles(m) == Memory(m) /\ TiledMem(m)

(* Header q cuts block p; what it keeps and what it leaves have their      *)
(* headers inside the block.                                               *)
LEMMA SplitTiles ==
    ASSUME NEW m, Tiles(m), NEW p \in DOMAIN m \ {End}, NEW n \in Nat,
           n + Header <= Room(m, p)
    PROVE  LET q == p + Header + n
               s == Split(m, p, n)
           IN  /\ Tiles(s) /\ DOMAIN s = DOMAIN m \cup {q}
               /\ q \in Offset /\ q \notin DOMAIN m /\ q # End
               /\ ~s[q].used /\ s[p].next = q /\ s[q].next = m[p].next
               /\ \A x \in DOMAIN m : s[x].used = m[x].used
               /\ \A x \in DOMAIN m \ {p} : s[x].next = m[x].next
<1> DEFINE q == p + Header + n
           s == Split(m, p, n)
<1> USE OffsetFacts
<1>1. /\ p \in Offset /\ p \in Nat /\ m[p].next \in DOMAIN m /\ m[p].next \in Offset
      /\ m[p].next \in Nat /\ p < m[p].next
      /\ \A x \in DOMAIN m : x <= p \/ m[p].next <= x
  BY DEF Tiles, Memory, TiledMem
<1>2. q \in Nat /\ p + Header <= q /\ q + Header <= m[p].next
  BY <1>1 DEF Room
<1>3. q \in Offset /\ q \notin DOMAIN m /\ q # End
  <2>1. q < m[p].next /\ m[p].next <= End  BY <1>1, <1>2
  <2>2. \A x \in DOMAIN m : x \in Nat  BY DEF Tiles, Memory
  <2> QED  BY <1>1, <1>2, <2>1, <2>2 DEF Offset
<1>5. \A x \in DOMAIN m : m[x] \in MemBlock
  BY DEF Tiles, Memory
<1>4. /\ DOMAIN s = DOMAIN m \cup {q}
      /\ s[p] = NextSet(m[p], q)
      /\ s[q] = [next |-> m[p].next, prev |-> p, used |-> FALSE]
      /\ m[p].next # End => s[m[p].next] = PrevSet(m[m[p].next], q)
      /\ \A x \in DOMAIN m \ {p} : x # m[p].next \/ x = End => s[x] = m[x]
  BY <1>1, <1>3 DEF Split
<1>a. /\ s[p] \in MemBlock /\ s[p].next = q
      /\ s[p].prev = m[p].prev /\ s[p].used = m[p].used
  <2>1. m[p] \in MemBlock /\ q \in Offset /\ s[p] = NextSet(m[p], q)
    BY <1>3, <1>4, <1>5
  <2> HIDE DEF q, s
  <2> QED  BY <2>1, FieldSet
<1>b. ASSUME NEW x \in DOMAIN m, x = m[p].next, x # End
      PROVE  /\ s[x] \in MemBlock /\ s[x].next = m[x].next
             /\ s[x].prev = q /\ s[x].used = m[x].used
  <2>1. s[x] = PrevSet(m[x], q)  BY <1>4, <1>b
  <2>2. m[x] \in MemBlock /\ q \in Offset  BY <1>3, <1>5
  <2> HIDE DEF q, s
  <2> QED  BY <2>1, <2>2, FieldSet
<1>c. s[q] \in MemBlock /\ s[q].next = m[p].next /\ s[q].prev = p /\ ~s[q].used
  BY <1>1, <1>4 DEF MemBlock
<1>6. /\ \A x \in DOMAIN m : s[x].used = m[x].used
      /\ \A x \in DOMAIN m \ {p} : s[x].next = m[x].next
      /\ \A x \in DOMAIN m : s[x] \in MemBlock
  <2>1. ASSUME NEW x \in DOMAIN m, x # p
        PROVE  s[x].used = m[x].used /\ s[x].next = m[x].next /\ s[x] \in MemBlock
    <3>1. CASE x = m[p].next /\ x # End  BY <3>1, <1>b
    <3>2. CASE x # m[p].next \/ x = End
      <4>1. s[x] = m[x]  BY <2>1, <3>2, <1>4
      <4> QED  BY <4>1, <1>5
    <3> QED  BY <3>1, <3>2
  <2> QED  BY <2>1, <1>a
<1>7. Memory(s)
  <2>1. \A x \in DOMAIN s : s[x] \in MemBlock
    BY <1>3, <1>4, <1>6, <1>c
  <2>2. s \in [DOMAIN s -> MemBlock]
    BY <2>1 DEF Split
  <2> QED  BY <2>2, <1>3, <1>4 DEF Memory, Tiles
<1> HIDE DEF q, s
<1>8. TiledMem(s)
  <2>1. {0, End} \subseteq DOMAIN s /\ s[0].prev = 0 /\ s[End].used /\ s[End].next = End
    <3>1. /\ {0, End} \subseteq DOMAIN m /\ m[0].prev = 0
          /\ m[End].used /\ m[End].next = End
      BY DEF Tiles, TiledMem
    <3>2. s[0].prev = 0
      <4>1. 0 # m[p].next  BY <1>1
      <4> QED  BY <3>1, <4>1, <1>4, <1>a
    <3> QED  BY <3>1, <3>2, <1>4, <1>6
  <2> SUFFICES ASSUME NEW x \in DOMAIN s \ {End}
               PROVE  /\ s[x].next \in DOMAIN s /\ s[x].next >= x + Header
                      /\ \A y \in DOMAIN s : y <= x \/ s[x].next <= y
                      /\ x # 0 => s[x].prev \in DOMAIN s /\ s[s[x].prev].next = x
    BY <2>1 DEF TiledMem
  <2>2. \A y \in DOMAIN m : y \in Nat  BY DEF Tiles, Memory
  <2>3. CASE x = p
    <3>1. s[x].next = q /\ s[x].prev = m[p].prev  BY <2>3, <1>a
    <3>2. \A y \in DOMAIN s : y <= x \/ q <= y
      BY <2>3, <1>1, <1>2, <1>4, <2>2
    <3>3. x # 0 => m[p].prev \in DOMAIN m \ {p} /\ m[m[p].prev].next = p
      BY <2>3, <1>1 DEF Tiles, TiledMem
    <3> QED  BY <2>3, <3>1, <3>2, <3>3, <1>2, <1>4, <1>6
  <2>4. CASE x = q
    <3>1. s[x].next = m[p].next /\ s[x].prev = p  BY <2>4, <1>c
    <3>2. \A y \in DOMAIN s : y <= x \/ m[p].next <= y
      BY <2>4, <1>1, <1>2, <1>4, <2>2
    <3> QED  BY <2>4, <3>1, <3>2, <1>1, <1>2, <1>4, <1>a
  <2>5. CASE x # p /\ x # q
    <3>1. x \in DOMAIN m \ {p, End}  BY <2>5, <1>4
    <3>2. /\ m[x].next \in DOMAIN m /\ m[x].next >= x + Header
          /\ \A y \in DOMAIN m : y <= x \/ m[x].next <= y
          /\ x # 0 => m[x].prev \in DOMAIN m /\ m[m[x].prev].next = x
      BY <3>1 DEF Tiles, TiledMem
    <3>3. s[x].next = m[x].next  BY <3>1, <1>6
    <3>4. q <= x \/ m[x].next <= q
      <4>1. CASE x < p
        <5>1. m[x].next <= p  BY <3>1, <3>2, <4>1, <1>1, <2>2
        <5> QED  BY <5>1, <1>1, <1>2, <3>2, <2>2
      <4>2. CASE p < x
        <5>1. m[p].next <= x  BY <3>1, <4>2, <1>1, <2>2
        <5> QED  BY <5>1, <1>2, <1>1, <3>1, <2>2
      <4> QED  BY <4>1, <4>2, <3>1, <2>2, <2>5, <1>1
    <3>5. x # 0 => s[x].prev \in DOMAIN s /\ s[s[x].prev].next = x
      <4>1. CASE x = m[p].next
        <5>1. s[x].prev = q  BY <4>1, <3>1, <1>b
        <5> QED  BY <5>1, <4>1, <1>4, <1>c
      <4>2. CASE x # m[p].next
        <5>1. s[x] = m[x]  BY <4>2, <3>1, <1>4
        <5>2. x # 0 => m[x].prev # p  BY <4>2, <3>2
        <5> QED  BY <5>1, <5>2, <3>2, <1>4, <1>6
      <4> QED  BY <4>1, <4>2
    <3> QED  BY <3>1, <3>2, <3>3, <3>4, <3>5, <1>4
  <2> QED  BY <2>3, <2>4, <2>5
<1> QED  BY <1>3, <1>4, <1>6, <1>7, <1>8, <1>a, <1>c DEF Tiles, q, s

(* Block p takes over the next one, which is not heap_end. *)
LEMMA AbsorbTiles ==
    ASSUME NEW m, Tiles(m), NEW p \in DOMAIN m \ {End}, m[p].next # End
    PROVE  LET n == m[p].next
               s == Absorb(m, p, n)
           IN  /\ Tiles(s) /\ DOMAIN s = DOMAIN m \ {n} /\ p # n
               /\ \A x \in DOMAIN s : s[x].used = m[x].used
               /\ \A x \in DOMAIN s \ {p} : s[x].next = m[x].next
               /\ p # 0 => s[p].prev = m[p].prev
<1> DEFINE n == m[p].next
           o == m[n].next
           s == Absorb(m, p, n)
<1> USE OffsetFacts
<1>1. /\ p \in Nat /\ n \in DOMAIN m \ {End} /\ n \in Nat /\ n >= p + Header /\ n # 0
      /\ o \in DOMAIN m /\ o \in Offset /\ o \in Nat /\ o >= n + Header
      /\ \A x \in DOMAIN m : x \in Nat /\ (x <= p \/ n <= x) /\ (x <= n \/ o <= x)
  BY DEF Tiles, Memory, TiledMem
<1>2. \A x \in DOMAIN m : m[x] \in MemBlock
  BY DEF Tiles, Memory
<1>3. /\ DOMAIN s = DOMAIN m \ {n} /\ p \in DOMAIN s /\ o \in DOMAIN s /\ o # p
      /\ s[p] = NextSet(m[p], o) /\ s[o] = PrevSet(m[o], p)
      /\ \A x \in DOMAIN s : x # p /\ x # o => s[x] = m[x]
  BY <1>1 DEF Absorb
<1>4. s = [x \in DOMAIN s |-> s[x]]
  BY <1>3 DEF Absorb
<1>6. /\ s[p] \in MemBlock /\ s[p].next = o
      /\ s[p].prev = m[p].prev /\ s[p].used = m[p].used
  <2>1. m[p] \in MemBlock /\ o \in Offset /\ s[p] = NextSet(m[p], o)
    BY <1>1, <1>2, <1>3
  <2> HIDE DEF n, o, s
  <2> QED  BY <2>1, FieldSet
<1>7. /\ s[o] \in MemBlock /\ s[o].next = m[o].next
      /\ s[o].prev = p /\ s[o].used = m[o].used
  <2>1. m[o] \in MemBlock /\ p \in Offset /\ s[o] = PrevSet(m[o], p)
    BY <1>1, <1>2, <1>3 DEF Tiles, Memory
  <2> HIDE DEF n, o, s
  <2>2. /\ PrevSet(m[o], p) \in MemBlock /\ PrevSet(m[o], p).next = m[o].next
        /\ PrevSet(m[o], p).prev = p /\ PrevSet(m[o], p).used = m[o].used
    BY <2>1, FieldSet
  <2> QED  BY <2>1, <2>2
<1> HIDE DEF s
<1>8. ASSUME NEW x \in DOMAIN s
      PROVE  /\ s[x] \in MemBlock /\ s[x].used = m[x].used
             /\ x # p => s[x].next = m[x].next
  <2>1. CASE x = p  BY <2>1, <1>6
  <2>2. CASE x = o  BY <2>2, <1>7, <1>3
  <2>3. CASE x # p /\ x # o
    <3>1. s[x] = m[x] /\ x \in DOMAIN m  BY <2>3, <1>3
    <3> QED  BY <3>1, <1>2
  <2> QED  BY <2>1, <2>2, <2>3
<1>9. Memory(s)
  <2>1. s \in [DOMAIN s -> MemBlock]  BY <1>4, <1>8
  <2> QED  BY <2>1, <1>3 DEF Memory, Tiles
<1>10. TiledMem(s)
  <2>1. {0, End} \subseteq DOMAIN s /\ s[0].prev = 0 /\ s[End].used /\ s[End].next = End
    <3>1. /\ {0, End} \subseteq DOMAIN m /\ m[0].prev = 0
          /\ m[End].used /\ m[End].next = End
      BY DEF Tiles, TiledMem
    <3>2. s[0].prev = 0
      <4>1. 0 # o  BY <1>1
      <4> QED  BY <3>1, <4>1, <1>1, <1>3, <1>6
    <3> QED  BY <3>1, <3>2, <1>1, <1>3, <1>8
  <2> SUFFICES ASSUME NEW x \in DOMAIN s \ {End}
               PROVE  /\ s[x].next \in DOMAIN s /\ s[x].next >= x + Header
                      /\ \A y \in DOMAIN s : y <= x \/ s[x].next <= y
                      /\ x # 0 => s[x].prev \in DOMAIN s /\ s[s[x].prev].next = x
    BY <2>1 DEF TiledMem
  <2>2. /\ x \in DOMAIN m /\ x # n /\ m[x].next \in DOMAIN m /\ m[x].next >= x + Header
        /\ \A y \in DOMAIN m : y <= x \/ m[x].next <= y
        /\ x # 0 => m[x].prev \in DOMAIN m /\ m[m[x].prev].next = x
    BY <1>3 DEF Tiles, TiledMem
  <2>3. CASE x = p
    <3>1. s[x].next = o /\ s[x].prev = m[p].prev  BY <2>3, <1>6
    <3>2. \A y \in DOMAIN s : y <= x \/ o <= y
      BY <2>3, <1>1, <1>3
    <3>3. x # 0 => m[p].prev \in DOMAIN s \ {p} /\ s[m[p].prev].next = p
      <4> SUFFICES ASSUME x # 0 PROVE m[p].prev \in DOMAIN s \ {p} /\ s[m[p].prev].next = p
        OBVIOUS
      <4>1. m[p].prev \in DOMAIN m /\ m[m[p].prev].next = p  BY <2>2, <2>3
      <4>2. m[p].prev # n /\ m[p].prev # p  BY <4>1, <1>1
      <4> QED  BY <4>1, <4>2, <1>3, <1>8
    <3> QED  BY <2>3, <3>1, <3>2, <3>3, <1>1, <1>3
  <2>4. CASE x = o
    <3>1. s[x].next = m[o].next /\ s[x].prev = p  BY <2>4, <1>7
    <3>2. m[o].next # n  BY <2>2, <2>4, <1>1
    <3> QED  BY <2>2, <2>4, <3>1, <3>2, <1>3, <1>6
  <2>5. CASE x # p /\ x # o
    <3>1. s[x] = m[x] /\ s[x].next = m[x].next  BY <2>5, <1>3
    <3>2. m[x].next # n
      <4> SUFFICES ASSUME m[x].next = n PROVE FALSE  OBVIOUS
      <4>1. x < n /\ x \in Nat /\ p < n /\ p \in DOMAIN m  BY <2>2, <1>1
      <4>2. p <= x  BY <2>2, <4>1, <1>1
      <4>3. x <= p  BY <2>2, <4>1, <1>1
      <4> QED  BY <4>1, <4>2, <4>3, <2>5, <1>1
    <3>3. x # 0 => m[x].prev # p /\ m[x].prev # n
      BY <2>2, <2>5
    <3>4. x # 0 => s[x].prev \in DOMAIN s /\ s[s[x].prev].next = x
      BY <2>2, <3>1, <3>3, <1>3, <1>8
    <3> QED  BY <2>2, <3>1, <3>2, <3>4, <1>3
  <2> QED  BY <2>3, <2>4, <2>5
<1> QED  BY <1>1, <1>3, <1>6, <1>8, <1>9, <1>10 DEF Tiles, s

-----------------------------------------------------------------------------
(* Block p of m takes over the free block n behind it. *)
Absorbed(m, s, p, n) ==
    /\ Tiles(s) /\ DOMAIN s = DOMAIN m \ {n} /\ p \in DOMAIN s \ {End}
    /\ n \in DOMAIN m \ {End} /\ ~m[n].used /\ m[p].next = n
    /\ s[p].next = m[n].next
    /\ \A x \in DOMAIN s : s[x].used = m[x].used
    /\ \A x \in DOMAIN s \ {p} : s[x].next = m[x].next

(* What Absorb does to the links and to used.                              *)
LEMMA AbsorbIs ==
    ASSUME NEW m, Tiles(m), NEW p \in DOMAIN m \ {End}, NEW n,
           n = m[p].next, n # End, ~m[n].used
    PROVE  Absorbed(m, Absorb(m, p, n), p, n)
<1> DEFINE s == Absorb(m, p, m[p].next)
<1>1. /\ Tiles(s) /\ DOMAIN s = DOMAIN m \ {m[p].next} /\ p # m[p].next
      /\ \A x \in DOMAIN s : s[x].used = m[x].used
      /\ \A x \in DOMAIN s \ {p} : s[x].next = m[x].next
  <2>1. m[p].next # End  OBVIOUS
  <2> HIDE DEF s
  <2> QED  BY <2>1, AbsorbTiles DEF s
<1>2. n \in DOMAIN m \ {End} /\ p \in DOMAIN s \ {End}
  <2>1. n \in DOMAIN m  BY DEF Tiles, TiledMem
  <2> HIDE DEF s
  <2> QED  BY <2>1, <1>1
<1>3. s[p].next = m[n].next
  <2>1. m[p] \in MemBlock /\ m[n].next \in Offset
    BY <1>2 DEF Tiles, Memory, MemBlock
  <2>2. s[p] = NextSet(m[p], m[n].next)
    <3>1. p \in Nat /\ n \in Nat /\ m[n].next \in Nat /\ p < n /\ n < m[n].next
      BY <1>2, OffsetFacts DEF Tiles, TiledMem, Memory
    <3>2. p # m[n].next
      <4> HIDE DEF s
      <4> QED  BY <3>1
    <3> QED  BY <1>1, <1>2, <3>2 DEF Absorb
  <2> HIDE DEF s
  <2> QED  BY <2>1, <2>2, FieldSet
<1>4. s = Absorb(m, p, n)  OBVIOUS
<1> HIDE DEF s
<1> QED  BY <1>1, <1>2, <1>3, <1>4 DEF Absorbed

(* The first half of plug_holes merges p with the next block when that is  *)
(* free.                                                                   *)
LEMMA ForwardIs ==
    ASSUME NEW m, Tiles(m), NEW p \in DOMAIN m \ {End}, NEW l
    PROVE  LET h == PlugForward([mem |-> m, lfree |-> l], p)
               n == m[p].next
           IN  /\ h = [mem |-> h.mem, lfree |-> h.lfree]
               /\ \/ h.mem = m /\ h.lfree = l /\ (n = End \/ m[n].used)
                  \/ /\ Absorbed(m, h.mem, p, n)
                     /\ h.lfree = IF l = n THEN p ELSE l
<1> DEFINE n == m[p].next
           h == PlugForward([mem |-> m, lfree |-> l], p)
<1>1. p # n
  <2>1. n >= p + Header /\ p \in Nat /\ Header \in Nat \ {0}
    BY OffsetFacts DEF Tiles, TiledMem, Memory
  <2> QED  BY <2>1
<1>2. CASE ~m[n].used /\ n # End
  <2> DEFINE s == Absorb(m, p, n)
  <2>1. h = [mem |-> s, lfree |-> IF l = n THEN p ELSE l]
    BY <1>1, <1>2 DEF PlugForward
  <2>2. Absorbed(m, s, p, n)  BY <1>2, AbsorbIs
  <2> HIDE DEF s, h, n
  <2>3. h.mem = s /\ h.lfree = (IF l = n THEN p ELSE l)  BY <2>1
  <2> QED  BY <2>1, <2>2, <2>3 DEF h, n
<1>3. CASE ~(~m[n].used /\ n # End)
  <2>1. h = [mem |-> m, lfree |-> l]
    BY <1>3 DEF PlugForward
  <2> HIDE DEF h
  <2>2. h.mem = m /\ h.lfree = l  BY <2>1
  <2> QED  BY <2>1, <2>2, <1>3 DEF h
<1> QED  BY <1>2, <1>3

(* Block p is merged with the one before it when that is free. *)
MergedBack(m, l, p, h) ==
    \/ /\ h.mem = m /\ h.lfree = l
       /\ \A x \in DOMAIN m \ {End} : m[x].next = p => m[x].used
    \/ /\ Absorbed(m, h.mem, m[p].prev, p) /\ ~m[m[p].prev].used
       /\ h.lfree = IF l = p THEN m[p].prev ELSE l

(* The second half merges p with the block before it.                      *)
LEMMA BackwardIs ==
    ASSUME NEW m, Tiles(m), NEW p \in DOMAIN m \ {End}, ~m[p].used, NEW l
    PROVE  LET h == PlugBackward([mem |-> m, lfree |-> l], p)
           IN  /\ h = [mem |-> h.mem, lfree |-> h.lfree]
               /\ MergedBack(m, l, p, h)
<1> DEFINE q == m[p].prev
           h == PlugBackward([mem |-> m, lfree |-> l], p)
<1>1. CASE q # p /\ ~m[q].used
  <2> DEFINE s == Absorb(m, q, p)
  <2>1. /\ q \in DOMAIN m \ {End} /\ m[q].next = p
    <3>1. p # 0 /\ m[End].used  BY <1>1 DEF Tiles, TiledMem
    <3> QED  BY <1>1, <3>1 DEF Tiles, TiledMem
  <2>2. h = [mem |-> s, lfree |-> IF l = p THEN q ELSE l]
    BY <1>1 DEF PlugBackward
  <2>3. Absorbed(m, s, q, p)  BY <2>1, AbsorbIs
  <2> HIDE DEF s, h, q
  <2>4. h.mem = s /\ h.lfree = (IF l = p THEN q ELSE l)  BY <2>2
  <2>5. MergedBack(m, l, p, h)
    BY <1>1, <2>3, <2>4 DEF q, MergedBack
  <2> QED  BY <2>2, <2>4, <2>5 DEF h
<1>2. CASE ~(q # p /\ ~m[q].used)
  <2>1. h = [mem |-> m, lfree |-> l]
    BY <1>2 DEF PlugBackward
  <2>2. ASSUME NEW x \in DOMAIN m \ {End}, m[x].next = p PROVE m[x].used
    <3>1. x < p /\ x \in Nat /\ p \in Nat
      BY <2>2, OffsetFacts DEF Tiles, TiledMem, Memory
    <3>2. p # 0  BY <3>1
    <3>3. q \in DOMAIN m /\ m[q].next = p  BY <3>2 DEF Tiles, TiledMem
    <3>4. q # End
      <4>1. m[End].next = End /\ p # End  BY DEF Tiles, TiledMem
      <4> QED  BY <3>3, <4>1
    <3>5. q < p /\ q \in Nat
      BY <3>3, <3>4, OffsetFacts DEF Tiles, TiledMem, Memory
    <3>6. (q <= x \/ p <= q) /\ (x <= q \/ p <= x)
      BY <2>2, <3>3, <3>4 DEF Tiles, TiledMem
    <3>7. x = q
      <4> HIDE DEF q
      <4> QED  BY <3>1, <3>5, <3>6
    <3> QED  BY <3>5, <3>7, <1>2
  <2> HIDE DEF h
  <2>3. h.mem = m /\ h.lfree = l  BY <2>1
  <2>4. MergedBack(m, l, p, h)  BY <2>2, <2>3 DEF MergedBack
  <2> QED  BY <2>1, <2>3, <2>4 DEF h
<1> QED  BY <1>1, <1>2

(* The blocks in use are the same in s as in m. *)
Keeps(m, s) ==
    /\ DOMAIN s \subseteq DOMAIN m
    /\ \A x \in DOMAIN m : m[x].used => x \in DOMAIN s /\ s[x].next = m[x].next
    /\ \A x \in DOMAIN s : s[x].used = m[x].used

(* Either half keeps the blocks in use, the tiling and lfree in the heap.  *)
LEMMA ForwardTiles ==
    ASSUME NEW m, Tiles(m), NEW p \in DOMAIN m \ {End}, ~m[p].used, NEW l \in DOMAIN m
    PROVE  LET h == PlugForward([mem |-> m, lfree |-> l], p)
           IN  /\ h = [mem |-> h.mem, lfree |-> h.lfree]
               /\ Tiles(h.mem) /\ Keeps(m, h.mem) /\ h.lfree \in DOMAIN h.mem
               /\ p \in DOMAIN h.mem
<1> DEFINE h == PlugForward([mem |-> m, lfree |-> l], p)
           n == m[p].next
<1>1. /\ h = [mem |-> h.mem, lfree |-> h.lfree]
      /\ \/ h.mem = m /\ h.lfree = l
         \/ Absorbed(m, h.mem, p, n) /\ h.lfree = IF l = n THEN p ELSE l
  BY ForwardIs
<1> HIDE DEF h
<1>2. CASE h.mem = m /\ h.lfree = l  BY <1>1, <1>2 DEF h, Keeps
<1>3. CASE Absorbed(m, h.mem, p, n) /\ h.lfree = IF l = n THEN p ELSE l
  BY <1>1, <1>3 DEF h, Absorbed, Keeps
<1> QED  BY <1>1, <1>2, <1>3

LEMMA BackwardTiles ==
    ASSUME NEW m, Tiles(m), NEW p \in DOMAIN m \ {End}, ~m[p].used, NEW l \in DOMAIN m
    PROVE  LET h == PlugBackward([mem |-> m, lfree |-> l], p)
           IN  /\ h = [mem |-> h.mem, lfree |-> h.lfree]
               /\ Tiles(h.mem) /\ Keeps(m, h.mem) /\ h.lfree \in DOMAIN h.mem
<1> DEFINE h == PlugBackward([mem |-> m, lfree |-> l], p)
<1>1. h = [mem |-> h.mem, lfree |-> h.lfree] /\ MergedBack(m, l, p, h)
  BY BackwardIs
<1> HIDE DEF h
<1>2. Tiles(h.mem) /\ Keeps(m, h.mem) /\ h.lfree \in DOMAIN h.mem
  BY <1>1 DEF MergedBack, Absorbed, Keeps
<1> QED  BY <1>1, <1>2 DEF h

LEMMA PlugTiles ==
    ASSUME NEW m, Tiles(m), NEW p \in DOMAIN m \ {End}, ~m[p].used, NEW l \in DOMAIN m
    PROVE  LET h == PlugHoles([mem |-> m, lfree |-> l], p)
           IN  Tiles(h.mem) /\ Keeps(m, h.mem) /\ h.lfree \in DOMAIN h.mem
<1> DEFINE f == PlugForward([mem |-> m, lfree |-> l], p)
           h == PlugBackward(f, p)
<1>1. /\ f = [mem |-> f.mem, lfree |-> f.lfree]
      /\ Tiles(f.mem) /\ Keeps(m, f.mem) /\ f.lfree \in DOMAIN f.mem
      /\ p \in DOMAIN f.mem
  BY ForwardTiles
<1>2. p \in DOMAIN f.mem \ {End} /\ ~f.mem[p].used
  BY <1>1 DEF Keeps
<1> HIDE DEF f
<1>3. Tiles(h.mem) /\ Keeps(f.mem, h.mem) /\ h.lfree \in DOMAIN h.mem
  BY <1>1, <1>2, BackwardTiles
<1>4. PlugHoles([mem |-> m, lfree |-> l], p) = h
  BY DEF PlugHoles, f
<1> HIDE DEF h
<1>5. Keeps(m, h.mem)
  BY <1>1, <1>3 DEF Keeps
<1> QED  BY <1>3, <1>4, <1>5

-----------------------------------------------------------------------------
(* heap_sem *)

Steps == {"app", "copy"} \cup Taking \cup Inside

SemOK == /\ value \in 0..1 /\ queue \in Seq(Task)
         /\ outcome \in [Task -> {"none", "waiting", "OS_OK"}]
         /\ pc \in [Task -> Steps]
         /\ Exclusive

LEMMA InsertType ==
    ASSUME NEW q \in Seq(Task), NEW t \in Task, NEW i \in 1..Len(q) + 1
    PROVE  S!InsertAt(q, i, t) \in Seq(Task)
<1>1. SubSeq(q, 1, i - 1) \in Seq(Task) /\ SubSeq(q, i, Len(q)) \in Seq(Task)
  BY SubSeqProperties
<1>2. <<t>> \in Seq(Task)  OBVIOUS
<1> DEFINE f == SubSeq(q, 1, i - 1)
           b == SubSeq(q, i, Len(q))
<1> HIDE DEF f, b
<1>3. f \o <<t>> \in Seq(Task)  BY <1>1, <1>2, ConcatProperties DEF f
<1>4. (f \o <<t>>) \o b \in Seq(Task)  BY <1>1, <1>3, ConcatProperties DEF b
<1> QED  BY <1>4 DEF S!InsertAt, f, b

(* A step that neither takes nor gives the semaphore. *)
LEMMA SemSame ==
    ASSUME SemOK, NEW t \in Task, NEW s \in Steps, UNCHANGED sem, Goto(t, s),
           pc[t] \in Inside <=> s \in Inside
    PROVE  SemOK'
<1>1. pc' \in [Task -> Steps] /\ \A u \in Task : pc'[u] \in Inside <=> pc[u] \in Inside
  BY DEF SemOK, Goto
<1>2. Exclusive'
  BY <1>1 DEF SemOK, Exclusive, Inner, sem
<1> QED  BY <1>1, <1>2 DEF SemOK, sem

(* A task that gets the semaphore finds nobody inside.                     *)
LEMMA SemTake ==
    ASSUME SemOK, NEW t \in Task, NEW s \in Inside, pc[t] \in Taking, Take(t, s)
    PROVE  SemOK' /\ pc' \in [Task -> Steps] /\ \A u \in Task \ {t} : pc'[u] = pc[u]
<1> USE DEF SemOK
<1>0. pc[t] \notin Inside /\ s \in Steps  BY DEF Taking, Inside, Steps
<1>1. CASE outcome[t] = "none" /\ S!TakeNow /\ Goto(t, s)
  <2>1. /\ value = 1 /\ value' = 0 /\ queue' = queue /\ outcome' = outcome
        /\ pc' = [pc EXCEPT ![t] = s]
    BY <1>1 DEF S!TakeNow, Goto
  <2>2. \A u \in Task : ~Inner(u)  BY <2>1 DEF Exclusive
  <2>3. \A u \in Task : Inner(u)' => u = t
    BY <2>1, <2>2 DEF Inner
  <2>4. Exclusive'  BY <2>1, <2>2, <2>3, <1>1 DEF Exclusive, Inner
  <2> QED  BY <2>1, <2>4, <1>0
<1>2. CASE S!Wait(t) /\ UNCHANGED pc
  <2>1. /\ value = 0 /\ value' = 0 /\ pc' = pc
        /\ outcome' = [outcome EXCEPT ![t] = "waiting"]
    BY <1>2 DEF S!Wait
  <2>2. queue' \in Seq(Task)
    <3>1. PICK i \in 1..Len(queue) + 1 : queue' = S!InsertAt(queue, i, t)
      BY <1>2 DEF S!Wait
    <3> QED  BY <3>1, InsertType
  <2>3. \A u \in Task : Inner(u)' => Inner(u)  BY <2>1 DEF Inner
  <2>4. Exclusive'  BY <2>1, <2>3 DEF Exclusive
  <2> QED  BY <2>1, <2>2, <2>4
<1>3. CASE outcome[t] = "OS_OK" /\ S!Return(t) /\ Goto(t, s)
  <2>1. /\ value' = value /\ queue' = queue
        /\ outcome' = [outcome EXCEPT ![t] = "none"]
        /\ pc' = [pc EXCEPT ![t] = s]
    BY <1>3 DEF S!Return, Goto
  <2>2. Inner(t)  BY <1>3 DEF Inner
  <2>3. \A u \in Task : Inner(u)' => Inner(u)  BY <2>1, <2>2 DEF Inner
  <2>4. Exclusive'
    BY <2>1, <2>2, <2>3 DEF Exclusive
  <2> QED  BY <2>1, <2>4, <1>0
<1> QED  BY <1>1, <1>2, <1>3 DEF Take

(* The one inside gives it back, to the one that has waited longest.       *)
LEMMA SemGive ==
    ASSUME SemOK, NEW t \in Task, NEW s \in Steps \ Inside, pc[t] \in Inside, GiveAnd(t, s)
    PROVE  SemOK'
<1> USE DEF SemOK
<1>1. pc' = [pc EXCEPT ![t] = s]  BY DEF GiveAnd, Goto
<1>2. /\ value = 0 /\ outcome[t] # "OS_OK"
      /\ \A u \in Task : Inner(u) => u = t
  BY DEF Exclusive, Inner
<1>3. CASE queue # <<>>
  <2> DEFINE h == Head(queue)
  <2>1. /\ h \in Task /\ queue' = Tail(queue) /\ value' = value
        /\ outcome' = [outcome EXCEPT ![h] = "OS_OK"]
    BY <1>3 DEF GiveAnd, S!Give
  <2> HIDE DEF h
  <2>2. \A u \in Task : Inner(u)' => u = h
    BY <2>1, <1>1, <1>2 DEF Inner
  <2>3. \A u \in Task : pc'[u] \notin Inside
    BY <1>1, <1>2 DEF Inner
  <2>4. Exclusive'  BY <2>1, <2>2, <2>3, <1>2 DEF Exclusive
  <2>5. queue' \in Seq(Task)  BY <2>1, <1>3
  <2> QED  BY <2>1, <2>4, <2>5, <1>1
<1>4. CASE queue = <<>>
  <2>1. value' = 1 /\ queue' = queue /\ outcome' = outcome
    BY <1>2, <1>4 DEF GiveAnd, S!Give
  <2>2. \A u \in Task : ~Inner(u)'
    BY <2>1, <1>1, <1>2 DEF Inner
  <2>3. Exclusive'  BY <2>2 DEF Exclusive, Inner
  <2> QED  BY <2>1, <2>3, <1>1
<1> QED  BY <1>3, <1>4

-----------------------------------------------------------------------------
(* The parts of HeapInv *)

HeapOK ==
    /\ Tiles(mem) /\ lfree \in Headers /\ used_mem \in Int
    /\ owner \in [Offset -> Task \cup {NoTask}] /\ asked \in [Offset -> 0..Size]
    /\ \A p \in Offset :
          /\ owner[p] # NoTask <=> p \in Headers \ {End} /\ mem[p].used
          /\ owner[p] # NoTask => Room(mem, p) >= asked[p]

CallOK == /\ size \in [Task -> 0..Size]
          /\ ptr \in [Task -> Offset \cup {NoBlock}]
          /\ old \in [Task -> Offset \cup {NoBlock}]
          /\ ops \in Uses

Inv == SemOK /\ HeapOK /\ CallOK /\ \A t \in Task : Progress(t)

USE DEF Headers

(* Inv says what HeapInv says, in the parts in which it is proved.         *)
LEMMA InvIsHeapInv == HeapInv <=> Inv
<1>1. HeapInv => Inv
  <2> SUFFICES ASSUME HeapInv PROVE Inv  OBVIOUS
  <2>1. HeapOK
    <3>1. Headers \subseteq Offset  BY DEF HeapInv, TypeOK, Memory
    <3>2. \A p \in Offset : owner[p] # NoTask <=> p \in Headers \ {End} /\ mem[p].used
      BY <3>1 DEF HeapInv, BlocksOwned
    <3> QED  BY <3>2 DEF HeapInv, TypeOK, HeapOK, BlocksOwned, Tiled, Tiles
  <2> QED  BY <2>1 DEF HeapInv, Inv, SemOK, CallOK, TypeOK, Steps
<1>2. Inv => HeapInv
  <2> SUFFICES ASSUME Inv PROVE HeapInv  OBVIOUS
  <2>1. BlocksOwned
    <3>1. Headers \subseteq Offset  BY DEF Inv, HeapOK, Tiles, Memory
    <3> QED  BY <3>1 DEF Inv, HeapOK, BlocksOwned
  <2> QED  BY <2>1 DEF HeapInv, Inv, SemOK, CallOK, HeapOK, TypeOK, Steps, Tiles, Tiled
<1> QED  BY <1>1, <1>2

LEMMA InitInv == Init => Inv
<1> SUFFICES ASSUME Init PROVE Inv  OBVIOUS
<1> USE OffsetFacts DEF Init
<1>1. SemOK
  BY DEF SemOK, S!Init, Exclusive, Inner, Steps, Inside, Taking
<1>2. CallOK  BY DEF CallOK
<1>3. HeapOK
  <2>1. /\ Headers = {0, End}
        /\ mem[0] = [next |-> End, prev |-> 0, used |-> FALSE]
        /\ mem[End] = [next |-> End, prev |-> End, used |-> TRUE]
    <3>1. (0 = End) = FALSE /\ (End = End) = TRUE  OBVIOUS
    <3>2. /\ Headers = {0, End}
          /\ mem[0] = [next |-> End, prev |-> 0, used |-> 0 = End]
          /\ mem[End] = [next |-> End, prev |-> End, used |-> End = End]
      BY Zenon
    <3> QED  BY <3>1, <3>2, Zenon
  <2>2. mem \in [Headers -> MemBlock]
    BY <2>1 DEF MemBlock
  <2>3. Memory(mem)  BY <2>1, <2>2 DEF Memory
  <2>4. TiledMem(mem)  BY <2>1 DEF TiledMem, End
  <2> QED  BY <2>1, <2>3, <2>4, HeapAssumption DEF HeapOK, Tiles
<1>4. \A t \in Task : Progress(t)
  BY DEF Progress, Taking
<1> QED  BY <1>1, <1>2, <1>3, <1>4 DEF Inv

(* A step of t that leaves the heap alone. *)
LEMMA SameHeap ==
    ASSUME Inv, UNCHANGED <<heap, owner, asked>>, NEW t \in Task, Progress(t)',
           \A u \in Task \ {t} : /\ pc'[u] = pc[u] /\ size'[u] = size[u]
                                 /\ ptr'[u] = ptr[u] /\ old'[u] = old[u]
    PROVE  HeapOK' /\ \A u \in Task : Progress(u)'
<1>1. HeapOK'  BY DEF Inv, HeapOK, heap
<1>2. ASSUME NEW u \in Task \ {t} PROVE Progress(u)'
  <2>1. Progress(u)  BY DEF Inv
  <2> QED  BY <2>1 DEF Progress, FreeAt, Has, heap
<1> QED  BY <1>1, <1>2

(* A step of t, inside, that changes no other task's blocks. *)
LEMMA OthersOutside ==
    ASSUME Inv, NEW t \in Task, pc[t] \in Inside, NEW s \in Steps, Goto(t, s),
           \A p \in Offset : owner[p] \in Task \ {t} => owner'[p] = owner[p],
           \A u \in Task \ {t} : /\ size'[u] = size[u]
                                 /\ ptr'[u] = ptr[u] /\ old'[u] = old[u],
           Progress(t)'
    PROVE  \A u \in Task : Progress(u)'
<1> SUFFICES ASSUME NEW u \in Task \ {t} PROVE Progress(u)'
  OBVIOUS
<1>1. pc'[u] = pc[u]  BY DEF Goto, Inv, SemOK
<1>2. pc[u] \notin Inside  BY DEF Inv, SemOK, Exclusive, Inner
<1>3. \A p \in Offset : owner[p] = u => owner'[p] = u
  OBVIOUS
<1>4. Progress(u)  BY DEF Inv
<1> QED  BY <1>1, <1>2, <1>3, <1>4 DEF Progress, Has, Inside

-----------------------------------------------------------------------------
(* The steps that leave the heap alone *)

LEMMA EnterInv ==
    ASSUME Inv, NEW t \in Task, Enter(t) PROVE Inv'
<1> PICK s \in {"scan", "mark", "measure"} :
        /\ Take(t, s) /\ pc[t] \in Taking
        /\ s = "scan" => pc[t] = "takeScan"
        /\ s = "mark" => pc[t] = "takeMark"
        /\ s = "measure" => pc[t] = "takeMeasure"
  BY DEF Enter, Taking
<1>1. UNCHANGED <<heap, size, ptr, old, owner, asked, ops>>  BY DEF Enter
<1>2. SemOK' /\ pc' \in [Task -> Steps] /\ \A u \in Task \ {t} : pc'[u] = pc[u]
  <2>1. s \in Inside  BY DEF Inside
  <2> QED  BY <2>1, SemTake DEF Inv
<1>3. pc'[t] = s \/ pc'[t] = pc[t]
  BY DEF Take, Goto, Inv, SemOK
<1>4. Progress(t)'
  <2>1. Progress(t) /\ FreeAt(t)' = FreeAt(t)  BY <1>1 DEF Inv, heap, FreeAt
  <2> QED  BY <1>1, <1>3, <2>1 DEF Progress, Has, Taking, heap
<1>5. CallOK'  BY <1>1 DEF Inv, CallOK
<1>6. HeapOK' /\ \A u \in Task : Progress(u)'
  BY <1>1, <1>2, <1>4, SameHeap
<1> QED  BY <1>2, <1>5, <1>6 DEF Inv

(* A step of t to s that is no os_sem_take and leaves the heap alone. *)
LEMMA QuietStep ==
    ASSUME Inv, NEW t \in Task, NEW s \in Steps, Goto(t, s),
           UNCHANGED <<heap, owner, asked>>, CallOK',
           \A u \in Task \ {t} : size'[u] = size[u] /\ ptr'[u] = ptr[u] /\ old'[u] = old[u],
           \/ UNCHANGED sem /\ (pc[t] \in Inside <=> s \in Inside)
           \/ GiveAnd(t, s) /\ pc[t] \in Inside /\ s \notin Inside,
           pc'[t] = s => Progress(t)'
    PROVE  Inv'
<1>1. SemOK'  BY SemSame, SemGive DEF Inv
<1>2. pc'[t] = s /\ \A u \in Task \ {t} : pc'[u] = pc[u]
  BY DEF Goto, Inv, SemOK
<1>3. HeapOK' /\ \A u \in Task : Progress(u)'
  BY <1>2, SameHeap
<1> QED  BY <1>1, <1>3 DEF Inv

LEMMA CallInv ==
    ASSUME Inv, NEW t \in Task,
           \/ \E n \in Ask : Malloc(t, n)
           \/ \E p \in Headers : Free(t, p) \/ \E n \in Ask : Realloc(t, p, n)
    PROVE  Inv'
<1> USE OffsetFacts, HeapAssumption
<1>0. Progress(t) /\ CallOK /\ pc \in [Task -> Steps] /\ Headers \subseteq Offset
  BY DEF Inv, SemOK, HeapOK, Tiles, Memory
<1>1. ASSUME NEW n \in Ask, Malloc(t, n) PROVE Inv'
  <2>1. Rounded(n) \in 0..Size  BY <1>1 DEF Malloc, Rounded
  <2>2. CallOK'  BY <1>0, <1>1, <2>1 DEF CallOK, Malloc
  <2>3. "takeScan" \in Steps \ Inside /\ pc[t] \notin Inside
    BY <1>1 DEF Malloc, Inside, Steps, Taking
  <2>4. pc'[t] = "takeScan" => Progress(t)'
    BY <1>0, <1>1 DEF Malloc, Progress
  <2>5. \A u \in Task \ {t} : size'[u] = size[u] /\ ptr'[u] = ptr[u] /\ old'[u] = old[u]
    BY <1>0, <1>1 DEF Malloc, CallOK
  <2>6. Goto(t, "takeScan") /\ UNCHANGED <<heap, owner, asked>> /\ UNCHANGED sem
    BY <1>1 DEF Malloc
  <2> QED  BY <2>2, <2>3, <2>4, <2>5, <2>6, QuietStep
<1>2. ASSUME NEW p \in Headers, Free(t, p) PROVE Inv'
  <2>2. CallOK'  BY <1>0, <1>2 DEF CallOK, Free
  <2>3. "takeMark" \in Steps \ Inside /\ pc[t] \notin Inside
    BY <1>2 DEF Free, Inside, Steps, Taking
  <2>4. pc'[t] = "takeMark" => Progress(t)'
    BY <1>0, <1>2 DEF Free, Progress, Has, CallOK
  <2>5. \A u \in Task \ {t} : size'[u] = size[u] /\ ptr'[u] = ptr[u] /\ old'[u] = old[u]
    BY <1>0, <1>2 DEF Free, CallOK
  <2>6. Goto(t, "takeMark") /\ UNCHANGED <<heap, owner, asked>> /\ UNCHANGED sem
    BY <1>2 DEF Free
  <2> QED  BY <2>2, <2>3, <2>4, <2>5, <2>6, QuietStep
<1>3. ASSUME NEW p \in Headers, NEW n \in Ask, Realloc(t, p, n) PROVE Inv'
  <2>2. CallOK'  BY <1>0, <1>3 DEF CallOK, Realloc
  <2>3. "takeMeasure" \in Steps \ Inside /\ pc[t] \notin Inside
    BY <1>3 DEF Realloc, Inside, Steps, Taking
  <2>4. pc'[t] = "takeMeasure" => Progress(t)'
    BY <1>0, <1>3 DEF Realloc, Progress, Has, CallOK
  <2>5. \A u \in Task \ {t} : size'[u] = size[u] /\ ptr'[u] = ptr[u] /\ old'[u] = old[u]
    BY <1>0, <1>3 DEF Realloc, CallOK
  <2>6. Goto(t, "takeMeasure") /\ UNCHANGED <<heap, owner, asked>> /\ UNCHANGED sem
    BY <1>3 DEF Realloc
  <2> QED  BY <2>2, <2>3, <2>4, <2>5, <2>6, QuietStep
<1> QED  BY <1>1, <1>2, <1>3

LEMMA ScanInv ==
    ASSUME Inv, NEW t \in Task, Scan(t) PROVE Inv'
<1> USE OffsetFacts
<1>0. /\ Progress(t) /\ CallOK /\ pc \in [Task -> Steps] /\ Headers \subseteq Offset
      /\ pc[t] = "scan"
  BY DEF Inv, SemOK, HeapOK, Tiles, Memory, Scan
<1>1. /\ UNCHANGED <<heap, owner, asked>> /\ UNCHANGED sem
      /\ \A u \in Task \ {t} : size'[u] = size[u] /\ ptr'[u] = ptr[u] /\ old'[u] = old[u]
  BY <1>0 DEF Scan, CallOK, heap
<1>2. {"cut", "giveNew"} \subseteq Steps \cap Inside /\ pc[t] \in Inside
  BY <1>0 DEF Inside, Steps
<1>3. CASE \E p \in Fits(size[t]) : ptr' = [ptr EXCEPT ![t] = p] /\ Goto(t, "cut")
  <2>1. PICK p \in Fits(size[t]) : ptr' = [ptr EXCEPT ![t] = p] /\ Goto(t, "cut")
    BY <1>3
  <2>2. p \in Headers /\ ~mem[p].used /\ Room(mem, p) >= size[t] /\ lfree <= p
    BY DEF Fits, FitsAnywhere
  <2>3. p # End  BY <2>2 DEF Inv, HeapOK, Tiles, TiledMem
  <2>4. CallOK'  BY <1>0, <2>1, <2>2 DEF CallOK, Scan
  <2>5. pc'[t] = "cut" => Progress(t)'
    BY <1>0, <1>1, <2>1, <2>2, <2>3 DEF Progress, FreeAt, Scan, CallOK, Has, heap
  <2> QED  BY <1>1, <1>2, <2>1, <2>4, <2>5, QuietStep
<1>4. CASE ptr' = [ptr EXCEPT ![t] = NoBlock] /\ Goto(t, "giveNew")
  <2>1. CallOK'  BY <1>0, <1>4 DEF CallOK, Scan
  <2>2. pc'[t] = "giveNew" => Progress(t)'
    BY <1>0, <1>1, <1>4 DEF Progress, Scan, CallOK, Has
  <2> QED  BY <1>1, <1>2, <1>4, <2>1, <2>2, QuietStep
<1> QED  BY <1>3, <1>4 DEF Scan

LEMMA ReturnCallOK ==
    ASSUME CallOK, NEW t \in Task, Return(t), UNCHANGED ops
    PROVE  /\ CallOK' /\ old'[t] = NoBlock
           /\ \A u \in Task \ {t} : size'[u] = size[u] /\ ptr'[u] = ptr[u] /\ old'[u] = old[u]
BY HeapAssumption DEF CallOK, Return

(* A call that gives the semaphore back for the last time. *)
LEMMA LastGiveInv ==
    ASSUME Inv, NEW t \in Task, pc[t] \in Inside, GiveAnd(t, "app"), Return(t),
           UNCHANGED <<heap, owner, asked, ops>>
    PROVE  Inv'
<1>1. /\ CallOK' /\ old'[t] = NoBlock
      /\ \A u \in Task \ {t} : size'[u] = size[u] /\ ptr'[u] = ptr[u] /\ old'[u] = old[u]
  BY ReturnCallOK DEF Inv
<1>2. "app" \in Steps \ Inside  BY DEF Steps, Inside
<1>3. pc'[t] = "app" => Progress(t)'  BY <1>1 DEF Progress
<1>4. Goto(t, "app")  BY DEF GiveAnd
<1> QED  BY <1>1, <1>2, <1>3, <1>4, QuietStep

LEMMA GiveInv ==
    ASSUME Inv, NEW t \in Task, GiveNew(t) \/ GiveEnd(t) \/ Expand(t) PROVE Inv'
<1> USE OffsetFacts
<1>0. /\ Progress(t) /\ CallOK /\ pc \in [Task -> Steps]
      /\ pc[t] \in {"giveNew", "giveEnd", "giveMore"} /\ pc[t] \in Inside
      /\ UNCHANGED <<heap, owner, asked, ops>>
  BY DEF Inv, SemOK, GiveNew, GiveEnd, Expand, Inside
<1>1. CASE GiveAnd(t, "app") /\ Return(t)
  BY <1>0, <1>1, LastGiveInv
<1>2. CASE /\ pc[t] = "giveNew" /\ NoBlock \notin {ptr[t], old[t]}
           /\ GiveAnd(t, "copy") /\ UNCHANGED <<size, ptr, old>>
  <2>1. CallOK' /\ Goto(t, "copy") /\ "copy" \in Steps \ Inside
    BY <1>0, <1>2 DEF CallOK, GiveAnd, Steps, Inside
  <2>2. pc'[t] = "copy" => Progress(t)'
    BY <1>0, <1>2 DEF Progress, Has
  <2> QED  BY <1>0, <1>2, <2>1, <2>2, QuietStep
<1>3. CASE /\ pc[t] = "giveMore" /\ GiveAnd(t, "takeScan")
           /\ size' = [size EXCEPT ![t] = Rounded(@)] /\ UNCHANGED <<ptr, old>>
  <2>1. Rounded(size[t]) \in 0..Size  BY <1>0, HeapAssumption DEF Rounded, CallOK
  <2>2. /\ CallOK' /\ Goto(t, "takeScan") /\ "takeScan" \in Steps \ Inside
        /\ \A u \in Task \ {t} : size'[u] = size[u]
    BY <1>0, <1>3, <2>1 DEF CallOK, GiveAnd, Steps, Inside, Taking
  <2>3. pc'[t] = "takeScan" => Progress(t)'
    BY <1>0, <1>3 DEF Progress, Has
  <2> QED  BY <1>0, <1>3, <2>2, <2>3, QuietStep
<1> QED  BY <1>1, <1>2, <1>3 DEF GiveNew, GiveEnd, Expand

LEMMA MeasureInv ==
    ASSUME Inv, NEW t \in Task, Measure(t) PROVE Inv'
<1> USE OffsetFacts
<1>0. /\ Progress(t) /\ CallOK /\ pc \in [Task -> Steps] /\ pc[t] = "measure"
      /\ Has(t, old[t]) /\ UNCHANGED <<heap, sem, size, ptr, old, owner, asked, ops>>
  BY DEF Inv, SemOK, Measure, Progress
<1>1. PICK s \in {"giveEnd", "split", "giveMore"} :
          /\ Goto(t, s)
          /\ s = "split" => size[t] + Header + MinSize < Room(mem, old[t])
  BY DEF Measure
<1>2. s \in Steps \cap Inside /\ pc[t] \in Inside  BY <1>0 DEF Inside, Steps
<1>3. pc'[t] = s => Progress(t)'
  BY <1>0, <1>1 DEF Progress, Has, heap
<1>4. CallOK'  BY <1>0 DEF CallOK
<1> QED  BY <1>0, <1>1, <1>2, <1>3, <1>4, QuietStep

LEMMA CopyInv ==
    ASSUME Inv, NEW t \in Task, Copy(t) PROVE Inv'
<1>0. /\ Progress(t) /\ CallOK /\ pc \in [Task -> Steps] /\ pc[t] = "copy"
      /\ Has(t, old[t]) /\ UNCHANGED <<heap, sem, size, owner, asked, ops>>
      /\ ptr' = [ptr EXCEPT ![t] = old[t]] /\ old' = [old EXCEPT ![t] = NoBlock]
      /\ Goto(t, "takeMark")
  BY DEF Inv, SemOK, Copy, Progress
<1>1. "takeMark" \in Steps \ Inside /\ pc[t] \notin Inside
  BY <1>0 DEF Inside, Steps, Taking
<1>2. CallOK'  BY <1>0 DEF CallOK
<1>3. pc'[t] = "takeMark" => Progress(t)'
  BY <1>0 DEF Progress, Has, CallOK
<1>4. \A u \in Task \ {t} : size'[u] = size[u] /\ ptr'[u] = ptr[u] /\ old'[u] = old[u]
  BY <1>0 DEF CallOK
<1> QED  BY <1>0, <1>1, <1>2, <1>3, <1>4, QuietStep

-----------------------------------------------------------------------------
(* The steps that change the heap *)

LEMMA UsedTiles ==
    ASSUME NEW m, Tiles(m), NEW p \in DOMAIN m \ {End}, NEW u \in BOOLEAN
    PROVE  LET s == [m EXCEPT ![p] = UsedSet(m[p], u)]
           IN  /\ Tiles(s) /\ DOMAIN s = DOMAIN m
               /\ \A x \in DOMAIN m : s[x].next = m[x].next
               /\ s[p].used = u /\ \A x \in DOMAIN m \ {p} : s[x].used = m[x].used
<1> DEFINE s == [m EXCEPT ![p] = UsedSet(m[p], u)]
<1>1. \A x \in DOMAIN m : m[x] \in MemBlock  BY DEF Tiles, Memory
<1>2. DOMAIN s = DOMAIN m /\ s[p] = UsedSet(m[p], u)
      /\ \A x \in DOMAIN m \ {p} : s[x] = m[x]
  OBVIOUS
<1>3. /\ s[p] \in MemBlock /\ s[p].next = m[p].next /\ s[p].prev = m[p].prev
      /\ s[p].used = u
  <2>1. m[p] \in MemBlock  BY <1>1
  <2>2. /\ UsedSet(m[p], u) \in MemBlock /\ UsedSet(m[p], u).used = u
        /\ UsedSet(m[p], u).next = m[p].next /\ UsedSet(m[p], u).prev = m[p].prev
    BY <2>1, UsedFieldSet
  <2> QED  BY <1>2, <2>2
<1>4. \A x \in DOMAIN m : s[x] \in MemBlock /\ s[x].next = m[x].next /\ s[x].prev = m[x].prev
  BY <1>1, <1>2, <1>3
<1>5. s \in [DOMAIN s -> MemBlock]  BY <1>2, <1>4
<1> HIDE DEF s
<1>6. Memory(s)  BY <1>2, <1>5 DEF Memory, Tiles
<1>7. TiledMem(s)  BY <1>2, <1>4 DEF Tiles, TiledMem
<1> QED  BY <1>2, <1>3, <1>4, <1>6, <1>7 DEF Tiles, s

(* What a step does to the blocks, and then that it keeps Inv.             *)
LEMMA CutMemory ==
    ASSUME Inv, NEW t \in Task, Cut(t)
    PROVE  LET p == ptr[t]
           IN  /\ p \in Headers \ {End} /\ ~mem[p].used /\ lfree <= p
               /\ Tiles(mem) /\ Tiles(mem') /\ Headers \subseteq DOMAIN mem' /\ mem'[p].used
               /\ Room(mem', p) >= size[t] /\ used_mem' = used_mem + (mem'[p].next - p)
               /\ \A x \in Headers \ {p} :
                     mem'[x].used = mem[x].used /\ mem'[x].next = mem[x].next
               /\ \A x \in DOMAIN mem' \ Headers :
                     ~mem'[x].used /\ x > p /\ mem'[p].next = x /\ mem'[x].next = mem[p].next
               /\ DOMAIN mem' = Headers => mem'[p].next = mem[p].next
<1> USE OffsetFacts
<1> DEFINE p == ptr[t]
           n == size[t]
           m == IF Splits(p, n) THEN Split(mem, p, n) ELSE mem
<1>0. /\ Progress(t) /\ CallOK /\ pc \in [Task -> Steps] /\ pc[t] = "cut"
      /\ p \in Headers \ {End} /\ ~mem[p].used /\ Room(mem, p) >= n /\ n \in 0..Size
      /\ Tiles(mem) /\ Headers \subseteq Offset
  BY DEF Inv, SemOK, HeapOK, Tiles, Memory, Cut, Progress, FreeAt, CallOK
<1>1. /\ mem' = [m EXCEPT ![p] = UsedSet(m[p], TRUE)]
      /\ used_mem' = used_mem + (m[p].next - p)
      /\ IF p = lfree THEN \E f \in Offset : FirstFree(mem', p, f) /\ lfree' = f
                      ELSE UNCHANGED lfree
      /\ owner' = [owner EXCEPT ![p] = t] /\ asked' = [asked EXCEPT ![p] = n]
      /\ Goto(t, "giveNew") /\ UNCHANGED <<sem, size, ptr, old, ops>>
  BY DEF Cut
<1>2. /\ Tiles(m) /\ Headers \subseteq DOMAIN m /\ p \in DOMAIN m \ {End}
      /\ \A x \in Headers : m[x].used = mem[x].used
      /\ \A x \in DOMAIN m \ Headers :
            ~m[x].used /\ x > p /\ m[p].next = x /\ m[x].next = mem[p].next
      /\ DOMAIN m = Headers => m[p].next = mem[p].next
      /\ \A x \in Headers \ {p} : m[x].next = mem[x].next
      /\ Room(m, p) >= n
  <2>1. CASE Splits(p, n)
    <3> DEFINE q == p + Header + n
               s == Split(mem, p, n)
    <3>1. n + Header <= Room(mem, p)
      <4>1. Room(mem, p) \in Int  BY <1>0 DEF Room, Tiles, Memory, MemBlock
      <4> QED  BY <2>1, <4>1, <1>0 DEF Splits
    <3>2. /\ Tiles(s) /\ DOMAIN s = Headers \cup {q} /\ ~s[q].used /\ s[p].next = q
          /\ q \notin Headers /\ s[q].next = mem[p].next
          /\ \A x \in Headers : s[x].used = mem[x].used
          /\ \A x \in Headers \ {p} : s[x].next = mem[x].next
      <4>1. Tiles(mem) /\ p \in DOMAIN mem \ {End} /\ n \in Nat  BY <1>0
      <4> HIDE DEF p, n
      <4>2. /\ Tiles(s) /\ DOMAIN s = DOMAIN mem \cup {q}
            /\ q \in Offset /\ q \notin DOMAIN mem /\ q # End
            /\ ~s[q].used /\ s[p].next = q /\ s[q].next = mem[p].next
            /\ \A x \in DOMAIN mem : s[x].used = mem[x].used
            /\ \A x \in DOMAIN mem \ {p} : s[x].next = mem[x].next
        BY ONLY <4>1, <3>1, SplitTiles
      <4> HIDE DEF s, q
      <4> QED  BY <4>2
    <3>3. m = s  BY <2>1
    <3> HIDE DEF s, m, p, n
    <3>5. p \in Nat /\ n \in Nat
      <4>1. p \in Offset /\ n \in 0..Size  BY <1>0 DEF p, n
      <4> QED  BY <4>1
    <3>6. q = p + Header + n  OBVIOUS
    <3> HIDE DEF q
    <3>4. Room(m, p) >= n
      <4>1. m[p].next = q  BY <3>2, <3>3
      <4> QED  BY <4>1, <3>5, <3>6 DEF Room
    <3>7. q > p  BY <3>5, <3>6, <1>0
    <3> QED  BY <3>2, <3>3, <3>4, <3>7, <1>0
  <2>2. CASE ~Splits(p, n)
    <3>1. m = mem  BY <2>2
    <3> HIDE DEF m
    <3> QED  BY <3>1, <1>0
  <2> QED  BY <2>1, <2>2
<1> HIDE DEF m, p, n
<1>3. /\ Tiles(mem') /\ DOMAIN mem' = DOMAIN m
      /\ \A x \in DOMAIN m : mem'[x].next = m[x].next
      /\ mem'[p].used = TRUE /\ \A x \in DOMAIN m \ {p} : mem'[x].used = m[x].used
  <2>1. Tiles(m) /\ p \in DOMAIN m \ {End} /\ TRUE \in BOOLEAN  BY <1>2
  <2>2. mem' = [m EXCEPT ![p] = UsedSet(m[p], TRUE)]  BY <1>1
  <2> DEFINE s == [m EXCEPT ![p] = UsedSet(m[p], TRUE)]
  <2>3. /\ Tiles(s) /\ DOMAIN s = DOMAIN m
        /\ \A x \in DOMAIN m : s[x].next = m[x].next
        /\ s[p].used = TRUE /\ \A x \in DOMAIN m \ {p} : s[x].used = m[x].used
    BY <2>1, UsedTiles
  <2> HIDE DEF s
  <2>4. mem' = s  BY <2>2 DEF s
  <2> QED  BY <2>3, <2>4
<1>4. lfree <= p
  BY <1>0 DEF Progress, p
<1>5. Room(mem', p) = Room(m, p)  BY <1>2, <1>3 DEF Room
<1>6. used_mem' = used_mem + (mem'[p].next - p)  BY <1>1, <1>2, <1>3
<1> QED  BY <1>0, <1>2, <1>3, <1>4, <1>5, <1>6 DEF p, n

LEMMA CutInv ==
    ASSUME Inv, NEW t \in Task, Cut(t) PROVE Inv'
<1> USE OffsetFacts
<1> DEFINE p == ptr[t]
           n == size[t]
<1>0. /\ Progress(t) /\ CallOK /\ pc \in [Task -> Steps] /\ pc[t] = "cut"
      /\ n \in 0..Size /\ Headers \subseteq Offset
  BY DEF Inv, SemOK, HeapOK, Tiles, Memory, Cut, CallOK
<1>1. /\ IF p = lfree THEN \E f \in Offset : FirstFree(mem', p, f) /\ lfree' = f
                      ELSE UNCHANGED lfree
      /\ owner' = [owner EXCEPT ![p] = t] /\ asked' = [asked EXCEPT ![p] = n]
      /\ Goto(t, "giveNew") /\ UNCHANGED <<sem, size, ptr, old, ops>>
  BY DEF Cut
<1>2. /\ p \in Headers \ {End} /\ ~mem[p].used
      /\ Tiles(mem') /\ Headers \subseteq DOMAIN mem' /\ mem'[p].used
      /\ Room(mem', p) >= n /\ used_mem' = used_mem + (mem'[p].next - p)
      /\ \A x \in Headers \ {p} :
            mem'[x].used = mem[x].used /\ mem'[x].next = mem[x].next
      /\ \A x \in DOMAIN mem' \ Headers : ~mem'[x].used
  BY CutMemory
<1> HIDE DEF p, n
<1>4. HeapOK'
  <2>1. lfree' \in DOMAIN mem'
    BY <1>1, <1>2 DEF FirstFree, Inv, HeapOK
  <2>2. used_mem' \in Int
    <3>1. mem'[p].next \in Int /\ p \in Int
      BY <1>2, <1>0 DEF Tiles, Memory, MemBlock
    <3> QED  BY <3>1, <1>2 DEF Inv, HeapOK
  <2>3. /\ owner' \in [Offset -> Task \cup {NoTask}] /\ asked' \in [Offset -> 0..Size]
        /\ owner'[p] = t /\ asked'[p] = n
        /\ \A x \in Offset \ {p} : owner'[x] = owner[x] /\ asked'[x] = asked[x]
    BY <1>0, <1>1, <1>2 DEF Inv, HeapOK
  <2>4. ASSUME NEW x \in Offset
        PROVE  /\ owner'[x] # NoTask <=> x \in DOMAIN mem' \ {End} /\ mem'[x].used
               /\ owner'[x] # NoTask => Room(mem', x) >= asked'[x]
    <3>1. CASE x = p
      <4>1. t # NoTask  BY HeapAssumption
      <4> QED  BY <3>1, <4>1, <2>3, <1>0, <1>2
    <3>2. CASE x # p
      <4>1. /\ owner[x] # NoTask <=> x \in Headers \ {End} /\ mem[x].used
            /\ owner[x] # NoTask => Room(mem, x) >= asked[x]
        BY DEF Inv, HeapOK
      <4>2. x \in DOMAIN mem' /\ mem'[x].used <=> x \in Headers /\ mem[x].used
        BY <3>2, <1>2
      <4>3. x \in Headers => Room(mem', x) = Room(mem, x)
        BY <3>2, <1>2 DEF Room
      <4> QED  BY <3>2, <4>1, <4>2, <4>3, <2>3
    <3> QED  BY <3>1, <3>2
  <2> QED  BY <2>1, <2>2, <2>3, <2>4, <1>2 DEF HeapOK
<1>5. CallOK'  BY <1>0, <1>1 DEF CallOK
<1>6. "giveNew" \in Steps \cap Inside /\ pc[t] \in Inside
  BY <1>0 DEF Inside, Steps
<1>7. SemOK'  BY <1>1, <1>6, SemSame DEF Inv
<1>8. owner[p] = NoTask /\ owner'[p] = t /\ \A x \in Offset \ {p} : owner'[x] = owner[x]
  BY <1>0, <1>1, <1>2 DEF Inv, HeapOK
<1>9. Progress(t)'
  <2>1. pc'[t] = "giveNew"  BY <1>0, <1>1 DEF Goto
  <2>2. old[t] # NoBlock => Has(t, old[t]) /\ old[t] # p
    BY <1>0, <1>8, HeapAssumption DEF Progress, Has
  <2> QED  BY <2>1, <2>2, <1>0, <1>1, <1>2, <1>8 DEF Progress, Has, p
<1>10. \A u \in Task : Progress(u)'
  <2>1. \A x \in Offset : owner[x] \in Task \ {t} => owner'[x] = owner[x]
    BY <1>8, HeapAssumption
  <2> QED  BY <1>1, <1>6, <1>9, <2>1, OthersOutside
<1> QED  BY <1>4, <1>5, <1>7, <1>10 DEF Inv

LEMMA MarkMemory ==
    ASSUME Inv, NEW t \in Task, Mark(t)
    PROVE  LET p == ptr[t]
           IN  /\ p \in Headers \ {End} /\ mem[p].used /\ lfree' = Lower(p)
               /\ Tiles(mem) /\ Tiles(mem') /\ DOMAIN mem' = Headers /\ ~mem'[p].used
               /\ used_mem' = used_mem - (mem[p].next - p)
               /\ \A x \in Headers : mem'[x].next = mem[x].next
               /\ \A x \in Headers \ {p} : mem'[x].used = mem[x].used
<1> USE OffsetFacts
<1> DEFINE p == ptr[t]
<1>0. /\ Progress(t) /\ CallOK /\ pc \in [Task -> Steps] /\ pc[t] = "mark"
      /\ p \in Offset /\ owner[p] = t /\ owner[p] # NoTask
      /\ Tiles(mem) /\ Headers \subseteq Offset
  BY HeapAssumption
     DEF Inv, SemOK, HeapOK, Tiles, Memory, Mark, Progress, Has
<1>1. /\ mem' = [mem EXCEPT ![p] = UsedSet(mem[p], FALSE)]
      /\ lfree' = Lower(p) /\ used_mem' = used_mem - (mem[p].next - p)
      /\ owner' = [owner EXCEPT ![p] = NoTask] /\ asked' = [asked EXCEPT ![p] = 0]
      /\ Goto(t, "plug") /\ UNCHANGED <<sem, size, ptr, old, ops>>
  BY DEF Mark
<1>2. p \in Headers \ {End} /\ mem[p].used
  BY <1>0 DEF Inv, HeapOK
<1>3. /\ Tiles(mem') /\ DOMAIN mem' = Headers
      /\ \A x \in Headers : mem'[x].next = mem[x].next
      /\ mem'[p].used = FALSE /\ \A x \in Headers \ {p} : mem'[x].used = mem[x].used
  <2> DEFINE s == [mem EXCEPT ![p] = UsedSet(mem[p], FALSE)]
  <2>1. /\ Tiles(s) /\ DOMAIN s = Headers
        /\ \A x \in Headers : s[x].next = mem[x].next
        /\ s[p].used = FALSE /\ \A x \in Headers \ {p} : s[x].used = mem[x].used
    BY <1>0, <1>2, UsedTiles
  <2> HIDE DEF s
  <2>2. mem' = s  BY <1>1 DEF s
  <2> QED  BY <2>1, <2>2
<1> QED  BY <1>0, <1>1, <1>2, <1>3

LEMMA MarkInv ==
    ASSUME Inv, NEW t \in Task, Mark(t) PROVE Inv'
<1> USE OffsetFacts
<1> DEFINE p == ptr[t]
<1>0. /\ CallOK /\ pc \in [Task -> Steps] /\ pc[t] = "mark" /\ Headers \subseteq Offset
  BY DEF Inv, SemOK, HeapOK, Tiles, Memory, Mark
<1>1. /\ owner' = [owner EXCEPT ![p] = NoTask] /\ asked' = [asked EXCEPT ![p] = 0]
      /\ Goto(t, "plug") /\ UNCHANGED <<sem, size, ptr, old, ops>>
  BY DEF Mark
<1>2. /\ p \in Headers \ {End} /\ mem[p].used /\ lfree' = Lower(p)
      /\ Tiles(mem) /\ Tiles(mem') /\ DOMAIN mem' = Headers /\ ~mem'[p].used
      /\ used_mem' = used_mem - (mem[p].next - p)
      /\ \A x \in Headers : mem'[x].next = mem[x].next
      /\ \A x \in Headers \ {p} : mem'[x].used = mem[x].used
  BY MarkMemory
<1>3. p \in Offset /\ owner[p] = t
  <2>1. Progress(t)  BY DEF Inv
  <2> QED  BY <2>1, <1>0 DEF Progress, Has
<1> HIDE DEF p
<1>4. HeapOK'
  <2>1. lfree' \in DOMAIN mem'
    BY <1>2 DEF Lower, Inv, HeapOK
  <2>2. used_mem' \in Int
    <3>1. mem[p].next \in Int /\ p \in Int  BY <1>0, <1>2 DEF Tiles, Memory, MemBlock
    <3> QED  BY <3>1, <1>2 DEF Inv, HeapOK
  <2>3. /\ owner' \in [Offset -> Task \cup {NoTask}] /\ asked' \in [Offset -> 0..Size]
        /\ owner'[p] = NoTask
        /\ \A x \in Offset \ {p} : owner'[x] = owner[x] /\ asked'[x] = asked[x]
    BY <1>0, <1>1, <1>3 DEF Inv, HeapOK
  <2>4. ASSUME NEW x \in Offset
        PROVE  /\ owner'[x] # NoTask <=> x \in DOMAIN mem' \ {End} /\ mem'[x].used
               /\ owner'[x] # NoTask => Room(mem', x) >= asked'[x]
    <3>1. CASE x = p  BY <3>1, <1>2, <2>3
    <3>2. CASE x # p
      <4>1. /\ owner[x] # NoTask <=> x \in Headers \ {End} /\ mem[x].used
            /\ owner[x] # NoTask => Room(mem, x) >= asked[x]
        BY DEF Inv, HeapOK
      <4>2. x \in Headers => Room(mem', x) = Room(mem, x)
        BY <1>2 DEF Room
      <4> QED  BY <3>2, <4>1, <4>2, <2>3, <1>2
    <3> QED  BY <3>1, <3>2
  <2> QED  BY <2>1, <2>2, <2>3, <2>4, <1>2 DEF HeapOK
<1>5. CallOK'  BY <1>0, <1>1 DEF CallOK
<1>6. "plug" \in Steps \cap Inside /\ pc[t] \in Inside
  BY <1>0 DEF Inside, Steps
<1>7. SemOK'  BY <1>1, <1>6, SemSame DEF Inv
<1>8. Progress(t)'
  <2>1. pc'[t] = "plug"  BY <1>0, <1>1 DEF Goto
  <2>2. FreeAt(t)'  BY <1>1, <1>2 DEF FreeAt, p
  <2> QED  BY <2>1, <2>2 DEF Progress
<1>9. \A u \in Task : Progress(u)'
  <2>1. \A x \in Offset : owner[x] \in Task \ {t} => owner'[x] = owner[x]
    BY <1>0, <1>1, <1>3 DEF Inv, HeapOK
  <2> QED  BY <1>1, <1>6, <1>8, <2>1, OthersOutside
<1> QED  BY <1>4, <1>5, <1>7, <1>9 DEF Inv

LEMMA PlugMemory ==
    ASSUME Inv, NEW t \in Task, Plug(t)
    PROVE  LET p == ptr[t]
               h == PlugHoles([mem |-> mem, lfree |-> lfree], p)
           IN  /\ p \in Headers \ {End} /\ ~mem[p].used /\ lfree \in Headers
               /\ mem' = h.mem /\ lfree' = h.lfree
               /\ Tiles(mem) /\ Tiles(mem') /\ Keeps(mem, mem') /\ lfree' \in DOMAIN mem'
<1> USE OffsetFacts
<1> DEFINE p == ptr[t]
           h == PlugHoles([mem |-> mem, lfree |-> lfree], p)
<1>0. /\ Progress(t) /\ CallOK /\ pc \in [Task -> Steps] /\ pc[t] = "plug"
      /\ p \in Headers \ {End} /\ ~mem[p].used /\ lfree \in Headers
      /\ Tiles(mem) /\ Headers \subseteq Offset
  BY DEF Inv, SemOK, HeapOK, Tiles, Memory, Plug, Progress, FreeAt
<1>1. mem' = h.mem /\ lfree' = h.lfree
  BY DEF Plug
<1>2. Tiles(mem') /\ Keeps(mem, mem') /\ lfree' \in DOMAIN mem'
  <2> HIDE DEF p
  <2>1. Tiles(h.mem) /\ Keeps(mem, h.mem) /\ h.lfree \in DOMAIN h.mem
    BY <1>0, PlugTiles
  <2> HIDE DEF h
  <2> QED  BY <2>1, <1>1
<1> HIDE DEF h
<1> QED  BY <1>0, <1>1, <1>2 DEF h

LEMMA PlugInv ==
    ASSUME Inv, NEW t \in Task, Plug(t) PROVE Inv'
<1> USE OffsetFacts
<1>0. CallOK /\ pc \in [Task -> Steps] /\ pc[t] = "plug"
  BY DEF Inv, SemOK, Plug
<1>1. /\ ptr' = [ptr EXCEPT ![t] = NoBlock]
      /\ Goto(t, "giveEnd") /\ UNCHANGED <<used_mem, sem, size, old, owner, asked, ops>>
  BY DEF Plug
<1>2. Tiles(mem') /\ Keeps(mem, mem') /\ lfree' \in DOMAIN mem'
  BY PlugMemory
<1>3. HeapOK'
  <2>1. ASSUME NEW x \in Offset
        PROVE  /\ owner[x] # NoTask <=> x \in DOMAIN mem' \ {End} /\ mem'[x].used
               /\ owner[x] # NoTask => Room(mem', x) >= asked[x]
    <3>1. /\ owner[x] # NoTask <=> x \in Headers \ {End} /\ mem[x].used
          /\ owner[x] # NoTask => Room(mem, x) >= asked[x]
      BY DEF Inv, HeapOK
    <3>2. /\ x \in Headers /\ mem[x].used => x \in DOMAIN mem' /\ mem'[x].next = mem[x].next
          /\ x \in DOMAIN mem' => x \in Headers /\ mem'[x].used = mem[x].used
      BY <1>2 DEF Keeps
    <3> QED  BY <3>1, <3>2 DEF Room
  <2>2. used_mem' \in Int /\ owner' = owner /\ asked' = asked
    BY <1>1 DEF Inv, HeapOK
  <2> QED  BY <2>1, <2>2, <1>2 DEF Inv, HeapOK
<1>4. CallOK'  BY <1>0, <1>1 DEF CallOK
<1>5. "giveEnd" \in Steps \cap Inside /\ pc[t] \in Inside
  BY <1>0 DEF Inside, Steps
<1>6. SemOK'  BY <1>1, <1>5, SemSame DEF Inv
<1>7. Progress(t)'
  <2>1. pc'[t] = "giveEnd"  BY <1>0, <1>1 DEF Goto
  <2> QED  BY <2>1 DEF Progress
<1>8. \A u \in Task \ {t} : size'[u] = size[u] /\ ptr'[u] = ptr[u] /\ old'[u] = old[u]
  BY <1>0, <1>1 DEF CallOK
<1>9. \A u \in Task : Progress(u)'
  BY <1>1, <1>5, <1>7, <1>8, OthersOutside
<1> QED  BY <1>3, <1>4, <1>6, <1>9 DEF Inv

LEMMA ShrinkMemory ==
    ASSUME Inv, NEW t \in Task, ShrinkInPlace(t)
    PROVE  LET p == old[t]
               n == size[t]
               q == p + Header + n
           IN  /\ p \in Headers \ {End} /\ mem[p].used /\ owner[p] = t /\ n \in Nat
               /\ Tiles(mem) /\ Tiles(mem') /\ DOMAIN mem' = Headers \cup {q}
               /\ q \in Offset /\ q \notin Headers /\ q # End /\ ptr'[t] = q
               /\ ~mem'[q].used /\ mem'[p].next = q /\ mem'[q].next = mem[p].next
               /\ used_mem' = used_mem - (Room(mem, p) - n) /\ Room(mem', p) = n
               /\ \A x \in Headers : mem'[x].used = mem[x].used
               /\ \A x \in Headers \ {p} : mem'[x].next = mem[x].next
<1> USE OffsetFacts
<1> DEFINE p == old[t]
           n == size[t]
           q == p + Header + n
<1>0. /\ Progress(t) /\ CallOK /\ pc \in [Task -> Steps] /\ pc[t] = "split"
      /\ p \in Offset /\ owner[p] = t /\ owner[p] # NoTask /\ n \in 0..Size
      /\ n + Header + MinSize < Room(mem, p)
      /\ Tiles(mem) /\ Headers \subseteq Offset
  <2>1. Progress(t) /\ CallOK /\ pc \in [Task -> Steps] /\ Tiles(mem)
    BY DEF Inv, SemOK, HeapOK
  <2>2. pc[t] = "split"  BY DEF ShrinkInPlace
  <2>3. Has(t, p) /\ n + Header + MinSize < Room(mem, p)
    BY <2>1, <2>2 DEF Progress
  <2>4. p \in Offset /\ owner[p] = t /\ owner[p] # NoTask
    BY <2>3, HeapAssumption DEF Has
  <2>5. n \in 0..Size  BY <2>1 DEF CallOK
  <2>6. Headers \subseteq Offset  BY <2>1 DEF Tiles, Memory
  <2> QED  BY <2>1, <2>2, <2>3, <2>4, <2>5, <2>6
<1>1. /\ used_mem' = used_mem - (Room(mem, p) - n)
      /\ mem' = Split(mem, p, n) /\ asked' = [asked EXCEPT ![p] = n]
      /\ ptr' = [ptr EXCEPT ![t] = q] /\ Goto(t, "plug")
      /\ UNCHANGED <<lfree, sem, size, old, owner, ops>>
  BY DEF ShrinkInPlace
<1>2. p \in Headers \ {End} /\ mem[p].used
  BY <1>0 DEF Inv, HeapOK
<1>3. Room(mem, p) \in Int
  BY <1>0, <1>2 DEF Room, Tiles, Memory, MemBlock
<1>4. p \in Nat /\ n \in Nat /\ n + Header <= Room(mem, p)
  <2>1. p \in Offset /\ n \in 0..Size  BY <1>0
  <2> HIDE DEF p, n
  <2> QED  BY <2>1, <1>0, <1>3
<1> HIDE DEF p, n
<1>5. /\ Tiles(mem') /\ DOMAIN mem' = Headers \cup {q}
      /\ q \in Offset /\ q \notin Headers /\ q # End
      /\ ~mem'[q].used /\ mem'[p].next = q /\ mem'[q].next = mem[p].next
      /\ \A x \in Headers : mem'[x].used = mem[x].used
      /\ \A x \in Headers \ {p} : mem'[x].next = mem[x].next
  <2> DEFINE s == Split(mem, p, n)
  <2>1. /\ Tiles(s) /\ DOMAIN s = Headers \cup {q}
        /\ q \in Offset /\ q \notin Headers /\ q # End
        /\ ~s[q].used /\ s[p].next = q /\ s[q].next = mem[p].next
        /\ \A x \in Headers : s[x].used = mem[x].used
        /\ \A x \in Headers \ {p} : s[x].next = mem[x].next
    <3>1. /\ Tiles(mem) /\ p \in DOMAIN mem \ {End} /\ n \in Nat
          /\ n + Header <= Room(mem, p)
      BY <1>0, <1>2, <1>4
    <3> QED  BY ONLY <3>1, SplitTiles
  <2> HIDE DEF s, q
  <2>2. mem' = s  BY <1>1 DEF s
  <2> QED  BY <2>1, <2>2
<1>6. Room(mem', p) = n
  <2>1. Room(mem', p) = q - (p + Header)  BY <1>5 DEF Room
  <2> QED  BY <2>1, <1>4
<1>7. ptr'[t] = q  BY <1>0, <1>1 DEF CallOK
<1> HIDE DEF q
<1> QED  BY <1>0, <1>1, <1>2, <1>4, <1>5, <1>6, <1>7 DEF p, n, q

LEMMA ShrinkInv ==
    ASSUME Inv, NEW t \in Task, ShrinkInPlace(t) PROVE Inv'
<1> USE OffsetFacts
<1> DEFINE p == old[t]
           n == size[t]
           q == p + Header + n
<1>0. CallOK /\ pc \in [Task -> Steps] /\ pc[t] = "split"
  BY DEF Inv, SemOK, ShrinkInPlace
<1>1. /\ asked' = [asked EXCEPT ![p] = n]
      /\ ptr' = [ptr EXCEPT ![t] = q] /\ Goto(t, "plug")
      /\ UNCHANGED <<lfree, sem, size, old, owner, ops>>
  BY DEF ShrinkInPlace
<1>2. /\ p \in Headers \ {End} /\ mem[p].used /\ owner[p] = t /\ n \in Nat
      /\ Tiles(mem) /\ Tiles(mem') /\ DOMAIN mem' = Headers \cup {q}
      /\ q \in Offset /\ q \notin Headers /\ q # End
      /\ ~mem'[q].used /\ used_mem' = used_mem - (Room(mem, p) - n)
      /\ Room(mem', p) = n
      /\ \A x \in Headers : mem'[x].used = mem[x].used
      /\ \A x \in Headers \ {p} : mem'[x].next = mem[x].next
  BY ShrinkMemory
<1>3. n \in 0..Size /\ p \in Offset /\ Room(mem, p) \in Int
  BY <1>0, <1>2 DEF CallOK, Room, Tiles, Memory, MemBlock
<1> HIDE DEF p, n, q
<1>7. HeapOK'
  <2>1. used_mem' \in Int  BY <1>2, <1>3 DEF Inv, HeapOK
  <2>2. /\ owner' = owner /\ owner \in [Offset -> Task \cup {NoTask}]
        /\ asked' \in [Offset -> 0..Size] /\ asked'[p] = n
        /\ \A x \in Offset \ {p} : asked'[x] = asked[x]
    BY <1>0, <1>1, <1>3 DEF Inv, HeapOK
  <2>3. ASSUME NEW x \in Offset
        PROVE  /\ owner[x] # NoTask <=> x \in DOMAIN mem' \ {End} /\ mem'[x].used
               /\ owner[x] # NoTask => Room(mem', x) >= asked'[x]
    <3>1. /\ owner[x] # NoTask <=> x \in Headers \ {End} /\ mem[x].used
          /\ owner[x] # NoTask => Room(mem, x) >= asked[x]
      BY DEF Inv, HeapOK
    <3>2. x \in DOMAIN mem' /\ mem'[x].used <=> x \in Headers /\ mem[x].used
      BY <1>2
    <3>3. owner[x] # NoTask => Room(mem', x) >= asked'[x]
      <4>1. CASE x = p  BY <4>1, <2>2, <1>2
      <4>2. CASE x # p
        <5>1. x \in Headers => Room(mem', x) = Room(mem, x)
          BY <4>2, <1>2 DEF Room
        <5> QED  BY <4>2, <5>1, <3>1, <2>2
      <4> QED  BY <4>1, <4>2
    <3> QED  BY <3>1, <3>2, <3>3
  <2>4. lfree' \in DOMAIN mem'  BY <1>1, <1>2 DEF Inv, HeapOK
  <2> QED  BY <2>1, <2>2, <2>3, <2>4, <1>2 DEF HeapOK
<1>8. CallOK'  BY <1>0, <1>1, <1>2 DEF CallOK
<1>9. "plug" \in Steps \cap Inside /\ pc[t] \in Inside
  BY <1>0 DEF Inside, Steps
<1>10. SemOK'  BY <1>1, <1>9, SemSame DEF Inv
<1>11. Progress(t)'
  <2>1. pc'[t] = "plug" /\ ptr'[t] = q  BY <1>0, <1>1 DEF Goto, CallOK
  <2>2. FreeAt(t)'  BY <2>1, <1>2 DEF FreeAt
  <2> QED  BY <2>1, <2>2 DEF Progress
<1>12. \A u \in Task \ {t} : size'[u] = size[u] /\ ptr'[u] = ptr[u] /\ old'[u] = old[u]
  BY <1>0, <1>1 DEF CallOK
<1>13. \A u \in Task : Progress(u)'
  BY <1>1, <1>9, <1>11, <1>12, OthersOutside
<1> QED  BY <1>7, <1>8, <1>10, <1>13 DEF Inv

-----------------------------------------------------------------------------
LEMMA NextInv == Inv /\ [Next]_vars => Inv'
<1> SUFFICES ASSUME Inv, [Next]_vars PROVE Inv'  OBVIOUS
<1>1. ASSUME NEW t \in Task, Step(t) PROVE Inv'
  BY <1>1, EnterInv, ScanInv, CutInv, GiveInv, MarkInv, PlugInv, MeasureInv,
     ShrinkInv, CopyInv DEF Step
<1>2. ASSUME NEW t \in Task, Call(t) PROVE Inv'
  BY <1>2, CallInv DEF Call
<1>3. CASE UNCHANGED vars
  <2>1. SemOK' /\ HeapOK' /\ CallOK'
    BY <1>3 DEF Inv, SemOK, Exclusive, Inner, HeapOK, CallOK, vars, heap, sem
  <2>2. \A t \in Task : Progress(t)'
    BY <1>3 DEF Inv, Progress, FreeAt, Has, vars, heap, sem
  <2> QED  BY <2>1, <2>2 DEF Inv
<1> QED  BY <1>1, <1>2, <1>3 DEF Next

(* HeapInv is an invariant: with any number of tasks in os_malloc, os_free *)
(* and os_realloc, one at a time is between os_sem_take and os_sem_give,   *)
(* and the block it found, frees or shrinks is still what it was.          *)
THEOREM HeapIsSafe == Spec => []HeapInv
<1>1. Spec => []Inv
  BY InitInv, NextInv, PTL DEF Spec
<1>2. Inv => HeapInv  BY InvIsHeapInv
<1> QED  BY <1>1, <1>2, PTL

(* The blocks of the heap tile the memory given to os_heap_init, without a *)
(* gap or an overlap, before and after every step of the functions of      *)
(* os_heap.c.                                                              *)
THEOREM HeapIsTiled == Spec => []Tiled
<1>1. HeapInv => Tiled  BY DEF HeapInv
<1> QED  BY <1>1, HeapIsSafe, PTL

(* The blocks in use are those that tasks own, each with the room that its *)
(* task asked os_malloc or os_realloc for.                                 *)
THEOREM HeapBlocksOwned == Spec => []BlocksOwned
<1>1. HeapInv => BlocksOwned  BY DEF HeapInv
<1> QED  BY <1>1, HeapIsSafe, PTL

-----------------------------------------------------------------------------
(* Where the steps are *)

(* The steps that leave the blocks alone. *)
Elsewhere(t) == \/ Enter(t) \/ Scan(t) \/ GiveNew(t) \/ GiveEnd(t) \/ Measure(t)
                \/ Expand(t) \/ Copy(t) \/ Call(t)

Shrinking == {"takeMeasure", "measure", "split"}

(* Only the task that steps goes on.                                       *)
LEMMA PcStep ==
    ASSUME Inv, NEW t \in Task, NEW s, Goto(t, s)
    PROVE  pc'[t] = s /\ \A u \in Task \ {t} : pc'[u] = pc[u]
BY DEF Inv, SemOK, Goto

LEMMA EnterElsewhere ==
    ASSUME Inv, NEW t \in Task, Enter(t)
    PROVE  /\ UNCHANGED <<mem, lfree, used_mem, owner, ops>>
           /\ \A u \in Task : pc[u] = "plug" => pc'[u] = "plug" /\ ptr'[u] = ptr[u]
           /\ \A u \in Task : pc'[u] \in Shrinking => pc[u] \in Shrinking
<1>1. UNCHANGED <<mem, lfree, used_mem, owner, ops, ptr>>  BY DEF Enter, heap
<1>2. pc[t] \in Taking  BY DEF Enter, Taking
<1>3. \/ UNCHANGED pc
      \/ \E s : Goto(t, s) /\ (s \in Shrinking => pc[t] \in Shrinking)
  <2>1. ASSUME NEW s, Take(t, s) PROVE UNCHANGED pc \/ Goto(t, s)
    BY <2>1 DEF Take
  <2> QED  BY <2>1 DEF Enter, Shrinking
<1> QED  BY <1>1, <1>2, <1>3, PcStep DEF Taking

(* The others change neither blocks nor lfree, nobody at "plug" moves, and *)
(* only os_realloc goes to its own steps.                                  *)
LEMMA ElsewhereStep ==
    ASSUME Inv, NEW t \in Task, Elsewhere(t)
    PROVE  /\ UNCHANGED <<mem, lfree, used_mem, owner, ops>>
           /\ \A u \in Task : pc[u] = "plug" => pc'[u] = "plug" /\ ptr'[u] = ptr[u]
           /\ \A u \in Task : pc'[u] \in Shrinking =>
                 pc[u] \in Shrinking \/ "realloc" \in ops
<1> DEFINE Same == UNCHANGED <<mem, lfree, used_mem, owner, ops>>
           Jump(s) == /\ Same /\ Goto(t, s) /\ pc[t] # "plug"
                      /\ \A u \in Task \ {t} : ptr'[u] = ptr[u]
                      /\ s \in Shrinking => pc[t] \in Shrinking \/ "realloc" \in ops
<1>1. ASSUME NEW s, Jump(s)
      PROVE  /\ Same
             /\ \A u \in Task : pc[u] = "plug" => pc'[u] = "plug" /\ ptr'[u] = ptr[u]
             /\ \A u \in Task : pc'[u] \in Shrinking =>
                   pc[u] \in Shrinking \/ "realloc" \in ops
  BY <1>1, PcStep
<1>2. ptr \in [Task -> Offset \cup {NoBlock}]  BY DEF Inv, CallOK
<1>3. CASE Enter(t)  BY <1>3, EnterElsewhere
<1>4. ASSUME Scan(t) PROVE \E s : Jump(s)
  <2>1. Jump("cut") \/ Jump("giveNew")
    BY <1>2, <1>4 DEF Scan, Shrinking
  <2> QED  BY <2>1
<1>5. ASSUME GiveNew(t) PROVE \E s : Jump(s)
  <2>1. Jump("app") \/ Jump("copy")
    BY <1>2, <1>5 DEF GiveNew, GiveAnd, Return, heap, Shrinking
  <2> QED  BY <2>1
<1>6. ASSUME GiveEnd(t) PROVE \E s : Jump(s)
  <2>1. Jump("app")
    BY <1>2, <1>6 DEF GiveEnd, GiveAnd, Return, heap, Shrinking
  <2> QED  BY <2>1
<1>7. ASSUME Measure(t) PROVE \E s : Jump(s)
  <2> DEFINE s == CASE size[t] = Room(mem, old[t]) -> "giveEnd"
                    [] size[t] + Header + MinSize < Room(mem, old[t]) -> "split"
                    [] OTHER -> "giveMore"
  <2>1. Goto(t, s) /\ pc[t] = "measure" /\ Same /\ UNCHANGED ptr
    BY <1>7 DEF Measure, heap
  <2> HIDE DEF s
  <2>2. Jump(s)  BY <2>1 DEF Shrinking
  <2> QED  BY <2>2
<1>8. ASSUME Expand(t) PROVE \E s : Jump(s)
  <2>1. Jump("app") \/ Jump("takeScan")
    BY <1>2, <1>8 DEF Expand, GiveAnd, Return, heap, Shrinking
  <2> QED  BY <2>1
<1>9. ASSUME Copy(t) PROVE \E s : Jump(s)
  <2>1. Jump("takeMark")
    BY <1>2, <1>9 DEF Copy, heap, Shrinking
  <2> QED  BY <2>1
<1>10. ASSUME Call(t) PROVE \E s : Jump(s)
  <2>1. Jump("takeScan") \/ Jump("takeMark") \/ Jump("takeMeasure")
    BY <1>2, <1>10 DEF Call, Malloc, Free, Realloc, heap, Shrinking
  <2> QED  BY <2>1
<1> HIDE DEF Jump
<1> QED  BY <1>1, <1>3, <1>4, <1>5, <1>6, <1>7, <1>8, <1>9, <1>10 DEF Elsewhere

LEMMA NextIs ==
    ASSUME Next
    PROVE  \E t \in Task : Elsewhere(t) \/ Cut(t) \/ Mark(t) \/ Plug(t) \/ ShrinkInPlace(t)
BY DEF Next, Step, Elsewhere

(* A step of t that is at a block. *)
LEMMA BlockStep ==
    ASSUME Inv, NEW t \in Task, Cut(t) \/ Mark(t) \/ Plug(t) \/ ShrinkInPlace(t)
    PROVE  /\ \A u \in Task : pc'[u] \in Shrinking => pc[u] \in Shrinking
           /\ \A u \in Task : pc[u] = "plug" => u = t /\ Plug(t)
           /\ Mark(t) \/ ShrinkInPlace(t) => pc'[t] = "plug"
           /\ UNCHANGED ops
<1>1. PICK s \in {"giveNew", "plug", "giveEnd"} :
           Goto(t, s) /\ (Mark(t) \/ ShrinkInPlace(t) => s = "plug")
  <2>1. CASE Cut(t)  BY <2>1 DEF Cut, Mark, ShrinkInPlace
  <2>2. CASE Mark(t)  BY <2>2 DEF Mark
  <2>3. CASE Plug(t)  BY <2>3 DEF Plug, Mark, ShrinkInPlace
  <2>4. CASE ShrinkInPlace(t)  BY <2>4 DEF ShrinkInPlace
  <2> QED  BY <2>1, <2>2, <2>3, <2>4
<1>2. pc[t] \in Inside /\ UNCHANGED ops
  BY DEF Cut, Mark, Plug, ShrinkInPlace, Inside
<1>3. \A u \in Task : pc[u] = "plug" => u = t
  BY <1>2 DEF Inv, SemOK, Exclusive, Inner, Inside
<1>4. pc[t] = "plug" => Plug(t)
  BY DEF Cut, Mark, Plug, ShrinkInPlace
<1> QED  BY <1>1, <1>2, <1>3, <1>4, PcStep DEF Shrinking

-----------------------------------------------------------------------------
(* lfree *)

(* l is the lowest free block of m, or none is free. *)
Lowest(m, l) == (l = End \/ ~m[l].used) /\ \A p \in DOMAIN m : m[p].used \/ l <= p

(* A merge keeps the lowest free block lowest.                             *)
LEMMA AbsorbLowest ==
    ASSUME NEW m, NEW s, NEW p, NEW n, Absorbed(m, s, p, n), ~m[p].used, Tiles(m),
           NEW l \in DOMAIN m, Lowest(m, l)
    PROVE  LET f == IF l = n THEN p ELSE l IN f \in DOMAIN s /\ Lowest(s, f)
<1>1. p \in DOMAIN m /\ n \in DOMAIN m /\ p < n /\ p \in Nat /\ n \in Nat /\ l \in Nat
  BY OffsetFacts DEF Absorbed, Tiles, TiledMem, Memory
<1>2. l <= p  BY <1>1 DEF Lowest
<1>3. l # n  BY <1>1, <1>2
<1>4. l \in DOMAIN s  BY <1>3 DEF Absorbed
<1> QED  BY <1>3, <1>4 DEF Absorbed, Lowest

(* So does plug_holes.                                                     *)
LEMMA PlugLowest ==
    ASSUME NEW m, Tiles(m), NEW p \in DOMAIN m \ {End}, ~m[p].used,
           NEW l \in DOMAIN m, Lowest(m, l)
    PROVE  LET h == PlugHoles([mem |-> m, lfree |-> l], p)
           IN  Lowest(h.mem, h.lfree)
<1> DEFINE f == PlugForward([mem |-> m, lfree |-> l], p)
           h == PlugBackward(f, p)
<1>1. /\ f = [mem |-> f.mem, lfree |-> f.lfree]
      /\ \/ f.mem = m /\ f.lfree = l
         \/ /\ Absorbed(m, f.mem, p, m[p].next)
            /\ f.lfree = IF l = m[p].next THEN p ELSE l
  BY ForwardIs
<1>2. PlugHoles([mem |-> m, lfree |-> l], p) = h
  BY DEF PlugHoles
<1> HIDE DEF f
<1>3. /\ Tiles(f.mem) /\ p \in DOMAIN f.mem \ {End} /\ ~f.mem[p].used
      /\ f.lfree \in DOMAIN f.mem /\ Lowest(f.mem, f.lfree)
  <2>1. CASE f.mem = m /\ f.lfree = l  BY <2>1
  <2>2. CASE /\ Absorbed(m, f.mem, p, m[p].next)
             /\ f.lfree = IF l = m[p].next THEN p ELSE l
    <3>1. f.lfree \in DOMAIN f.mem /\ Lowest(f.mem, f.lfree)
      BY <2>2, AbsorbLowest
    <3> QED  BY <2>2, <3>1 DEF Absorbed
  <2> QED  BY <1>1, <2>1, <2>2
<1>4. \/ h.mem = f.mem /\ h.lfree = f.lfree
      \/ /\ Absorbed(f.mem, h.mem, f.mem[p].prev, p) /\ ~f.mem[f.mem[p].prev].used
         /\ h.lfree = IF f.lfree = p THEN f.mem[p].prev ELSE f.lfree
  <2> DEFINE g == f.mem
             l1 == f.lfree
             z == PlugBackward([mem |-> g, lfree |-> l1], p)
  <2>1. h = z  BY <1>1
  <2> HIDE DEF h, g, l1
  <2>2. Tiles(g) /\ p \in DOMAIN g \ {End} /\ ~g[p].used  BY <1>3 DEF g
  <2>3. MergedBack(g, l1, p, z)  BY <2>2, BackwardIs
  <2> QED  BY <2>1, <2>3 DEF g, l1, MergedBack
<1> HIDE DEF h
<1>5. Lowest(h.mem, h.lfree)
  BY <1>3, <1>4, AbsorbLowest
<1> QED  BY <1>2, <1>5

(* os_malloc looks for the next free block when it takes the lowest, and   *)
(* os_free lowers lfree.                                                   *)
LEMMA LowNext ==
    ASSUME Inv, LowInv, [Next]_vars PROVE LowInv'
<1> USE OffsetFacts
<1> SUFFICES ASSUME "realloc" \notin ops'
             PROVE  Lowest(mem, lfree)' /\ \A u \in Task : pc'[u] \notin Shrinking
  BY DEF LowInv, LowestFree, Lowest, Shrinking
<1>0. /\ HeapOK /\ lfree \in Headers /\ Tiles(mem) /\ \A x \in Headers : x \in Nat
  BY DEF Inv, HeapOK, Tiles, Memory
<1>1. CASE UNCHANGED vars
  BY <1>1 DEF vars, heap, LowInv, LowestFree, Lowest, Shrinking
<1>2. ASSUME NEW t \in Task, Elsewhere(t)
      PROVE  Lowest(mem, lfree)' /\ \A u \in Task : pc'[u] \notin Shrinking
  BY <1>2, ElsewhereStep DEF LowInv, LowestFree, Lowest, Shrinking
<1>3. ASSUME NEW t \in Task, Cut(t) \/ Mark(t) \/ Plug(t) \/ ShrinkInPlace(t)
      PROVE  Lowest(mem, lfree)' /\ \A u \in Task : pc'[u] \notin Shrinking
  <2>1. /\ "realloc" \notin ops /\ \A u \in Task : pc'[u] \notin Shrinking
        /\ Lowest(mem, lfree) /\ \A u \in Task : pc[u] \notin Shrinking
    BY <1>3, BlockStep DEF LowInv, LowestFree, Lowest, Shrinking
  <2> DEFINE p == ptr[t]
  <2>2. CASE Cut(t)
    <3>1. /\ p \in Headers \ {End} /\ ~mem[p].used /\ lfree <= p
          /\ Tiles(mem') /\ Headers \subseteq DOMAIN mem' /\ mem'[p].used
          /\ \A x \in Headers \ {p} : mem'[x].used = mem[x].used
          /\ \A x \in DOMAIN mem' \ Headers : ~mem'[x].used /\ x > p
      BY <2>2, CutMemory
    <3>2. IF p = lfree THEN \E f \in Offset : FirstFree(mem', p, f) /\ lfree' = f
                       ELSE UNCHANGED lfree
      BY <2>2 DEF Cut
    <3>3. \A x \in DOMAIN mem' : x \in Nat  BY <3>1 DEF Tiles, Memory
    <3> HIDE DEF p
    <3>4. \A x \in DOMAIN mem' : mem'[x].used \/ lfree <= x
      BY <3>1, <3>3, <2>1, <1>0 DEF Lowest
    <3>5. CASE p = lfree
      <4>1. PICK f \in Offset : FirstFree(mem', p, f) /\ lfree' = f
        BY <3>2, <3>5
      <4>2. \A x \in DOMAIN mem' : mem'[x].used \/ f <= x
        BY <4>1, <3>3, <3>4, <3>5, <1>0 DEF FirstFree
      <4> QED  BY <4>1, <4>2, <2>1 DEF Lowest, FirstFree
    <3>6. CASE p # lfree
      <4>1. lfree' = lfree  BY <3>2, <3>6
      <4> QED  BY <4>1, <3>1, <3>4, <3>6, <2>1, <1>0 DEF Lowest
    <3> QED  BY <3>5, <3>6, <2>1
  <2>3. CASE Mark(t)
    <3>1. /\ p \in Headers \ {End} /\ lfree' = Lower(p)
          /\ DOMAIN mem' = Headers /\ ~mem'[p].used
          /\ \A x \in Headers \ {p} : mem'[x].used = mem[x].used
      BY <2>3, MarkMemory
    <3> HIDE DEF p
    <3> QED  BY <3>1, <2>1, <1>0 DEF Lowest, Lower
  <2>4. CASE Plug(t)
    <3>1. LET h == PlugHoles([mem |-> mem, lfree |-> lfree], p)
          IN  /\ p \in Headers \ {End} /\ ~mem[p].used
              /\ mem' = h.mem /\ lfree' = h.lfree
      BY <2>4, PlugMemory
    <3> HIDE DEF p
    <3> QED  BY <3>1, <2>1, <1>0, PlugLowest
  <2>5. CASE ShrinkInPlace(t)
    BY <2>1, <2>5 DEF ShrinkInPlace, Shrinking
  <2> QED  BY <1>3, <2>1, <2>2, <2>3, <2>4, <2>5
<1> QED  BY <1>1, <1>2, <1>3, NextIs

(* os_heap_init makes one free block.                                      *)
LEMMA InitMemory ==
    ASSUME Init
    PROVE  /\ Headers = {0, End} /\ mem[0].next = End /\ ~mem[0].used
           /\ mem[End].used /\ lfree = 0 /\ used_mem = 0 /\ Tiles(mem)
<1> USE OffsetFacts DEF Init
<1>1. (0 = End) = FALSE /\ (End = End) = TRUE  OBVIOUS
<1>2. /\ Headers = {0, End}
      /\ mem[0] = [next |-> End, prev |-> 0, used |-> 0 = End]
      /\ mem[End] = [next |-> End, prev |-> End, used |-> End = End]
  BY Zenon
<1>3. Tiles(mem)  BY InitInv DEF Inv, HeapOK
<1> QED  BY <1>1, <1>2, <1>3

(* lfree is the lowest free block, or heap_end when there is none, as long *)
(* as nobody uses os_realloc, which frees the rest of a block that it cuts *)
(* without lowering lfree.                                                 *)
THEOREM LowestFound == Spec => []LowestFree
<1>1. Init => LowInv
  BY InitMemory, OffsetFacts DEF Init, LowInv, LowestFree
<1>2. Inv /\ LowInv /\ [Next]_vars => LowInv'
  BY LowNext
<1>3. LowInv => LowestFree  BY DEF LowInv
<1> QED  BY <1>1, <1>2, <1>3, InitInv, NextInv, PTL DEF Spec

-----------------------------------------------------------------------------
(* Sums over finite sets: MapThenSumSet takes the elements in the order of *)
(* some CHOOSE, which makes no difference.                                 *)

Some(s) == CHOOSE x \in s : TRUE

(* g has the sum of w over each subset of T. *)
Sums(g, w, T) ==
    /\ g[{}] = 0
    /\ \A s \in SUBSET T : s # {} => g[s] = w[Some(s)] + g[s \ {Some(s)}]

Summing(g, w, T) == g \in [SUBSET T -> Int] /\ Sums(g, w, T)

(* Among subsets of a finite set there is one with none inside.            *)
LEMMA LeastSubset ==
    ASSUME NEW T, IsFiniteSet(T), NEW B, B \subseteq SUBSET T, B # {}
    PROVE  \E s \in B : \A u \in SUBSET s : u # s => u \notin B
<1>1. IsWellFoundedOn(StrictSubsetOrdering(T), FiniteSubsetsOf(T))
  BY FS_StrictSubsetOrderingWellFounded
<1>2. B \subseteq FiniteSubsetsOf(T)
  <2>1. \A u \in B : u \in SUBSET T  OBVIOUS
  <2>2. \A u \in SUBSET T : IsFiniteSet(u)  BY FS_Subset
  <2> QED  BY <2>1, <2>2 DEF FiniteSubsetsOf
<1>3. PICK s \in B : \A u \in B : ~ (<<u, s>> \in StrictSubsetOrdering(T))
  BY <1>1, <1>2, WFMin, Zenon
<1>4. ASSUME NEW u \in SUBSET s, u # s, u \in B PROVE FALSE
  <2>1. <<u, s>> \in StrictSubsetOrdering(T)
    BY <1>4 DEF StrictSubsetOrdering
  <2> QED  BY <2>1, <1>3, <1>4
<1> QED  BY <1>3, <1>4

LEMMA SomeIn ==
    ASSUME NEW s, s # {}
    PROVE  Some(s) \in s
BY DEF Some

(* Two sums of the same over the same set are the same. *)
LEMMA SumSame ==
    ASSUME NEW T, NEW U, NEW g, NEW h, NEW w, NEW v, NEW s,
           Sums(g, w, T), Sums(h, v, U), s \in SUBSET T, s \in SUBSET U,
           IsFiniteSet(s), \A x \in s : w[x] = v[x]
    PROVE  g[s] = h[s]
<1> DEFINE B == {u \in SUBSET s : g[u] # h[u]}
<1> SUFFICES ASSUME B # {} PROVE FALSE
  OBVIOUS
<1>1. PICK u \in B : \A y \in SUBSET u : y # u => y \notin B
  <2>1. B \subseteq SUBSET s  OBVIOUS
  <2> HIDE DEF B
  <2> QED  BY <2>1, LeastSubset
<1>2. u # {}  BY <1>1 DEF Sums
<1>3. Some(u) \in u  BY <1>2, SomeIn
<1> DEFINE c == Some(u)
           r == u \ {c}
<1>4. r \in SUBSET u /\ r # u  BY <1>3
<1>5. g[r] = h[r]
  <2>1. r \notin B  BY <1>1, <1>4
  <2>2. r \in SUBSET s  BY <1>4
  <2> QED  BY <2>1, <2>2
<1>6. g[u] = w[c] + g[r] /\ h[u] = v[c] + h[r]
  <2>1. u \in SUBSET T /\ u \in SUBSET U  OBVIOUS
  <2> QED  BY <2>1, <1>2 DEF Sums
<1>7. w[c] = v[c]  BY <1>3
<1>8. g[u] = h[u]  BY <1>5, <1>6, <1>7
<1> QED  BY <1>8

(* The element that is taken first makes no difference. *)
LEMMA SumStep ==
    ASSUME NEW T, NEW g, NEW w, Summing(g, w, T), IsFiniteSet(T),
           \A x \in T : w[x] \in Int, NEW s \in SUBSET T, NEW x \in s
    PROVE  g[s] = w[x] + g[s \ {x}]
<1> DEFINE B == {u \in SUBSET T : \E y \in u : g[u] # w[y] + g[u \ {y}]}
<1> SUFFICES ASSUME B # {} PROVE FALSE
  OBVIOUS
<1>1. PICK u \in B : \A y \in SUBSET u : y # u => y \notin B
  BY LeastSubset
<1>2. PICK y \in u : g[u] # w[y] + g[u \ {y}]
  BY <1>1
<1> DEFINE c == Some(u)
           r == u \ {c}
           q == u \ {y}
           b == u \ {c, y}
<1>3. c \in u /\ u \in SUBSET T  BY <1>2, SomeIn
<1>4. g[u] = w[c] + g[r]  BY <1>3 DEF Summing, Sums
<1>5. c # y  BY <1>2, <1>4
<1>6. r \notin B /\ q \notin B
  <2>1. r \in SUBSET u /\ r # u /\ q \in SUBSET u /\ q # u  BY <1>2, <1>3
  <2> QED  BY <2>1, <1>1
<1>7. g[r] = w[y] + g[r \ {y}]
  <2>1. r \in SUBSET T /\ y \in r  BY <1>2, <1>3, <1>5
  <2> QED  BY <2>1, <1>6
<1>8. g[q] = w[c] + g[q \ {c}]
  <2>1. q \in SUBSET T /\ c \in q  BY <1>2, <1>3, <1>5
  <2> QED  BY <2>1, <1>6
<1>9. r \ {y} = b /\ q \ {c} = b  OBVIOUS
<1>10. b \in SUBSET T /\ y \in T /\ c \in T  BY <1>2, <1>3
<1>11. g[b] \in Int /\ w[c] \in Int /\ w[y] \in Int
  BY <1>10 DEF Summing, Sums
<1> HIDE DEF r, q, b, c
<1>12. g[u] = w[c] + (w[y] + g[b]) /\ g[q] = w[c] + g[b]
  BY <1>4, <1>7, <1>8, <1>9
<1>13. g[u] = w[y] + g[q]  BY <1>11, <1>12
<1> QED  BY <1>2, <1>13 DEF q

(* Every sum over a finite set exists. *)
LEMMA SumExists ==
    ASSUME NEW T, IsFiniteSet(T), NEW w, \A x \in T : w[x] \in Int
    PROVE  \E g : Summing(g, w, T)
<1> DEFINE B == {u \in SUBSET T : ~ \E g : Summing(g, w, u)}
<1> SUFFICES ASSUME B # {} PROVE FALSE
  <2>1. T \in SUBSET T  OBVIOUS
  <2> QED  BY <2>1
<1>1. PICK u \in B : \A y \in SUBSET u : y # u => y \notin B
  <2>1. B \subseteq SUBSET T  OBVIOUS
  <2> HIDE DEF B
  <2> QED  BY <2>1, LeastSubset
<1> DEFINE G(y) == CHOOSE g : Summing(g, w, y)
           c == Some(u)
           f == [y \in SUBSET u |->
                    IF y = {} THEN 0 ELSE IF y = u THEN w[c] + G(u \ {c})[u \ {c}] ELSE G(y)[y]]
<1>2. \A y \in SUBSET u : y # u => Summing(G(y), w, y)
  <2> TAKE y \in SUBSET u
  <2> HAVE y # u
  <2>1. y \in SUBSET T /\ y \notin B  BY <1>1
  <2> QED  BY <2>1
<1>3. ASSUME NEW y \in SUBSET u, y # u PROVE f[y] = G(y)[y] /\ f[y] \in Int
  <2>1. Summing(G(y), w, y)  BY <1>2, <1>3
  <2> HIDE DEF G
  <2>2. G(y)[{}] = 0 /\ G(y)[y] \in Int  BY <2>1 DEF Summing, Sums
  <2> QED  BY <2>2, <1>3
<1>4. u # {} => c \in u /\ c \in T /\ w[c] \in Int
  BY SomeIn
<1>5. f \in [SUBSET u -> Int]
  <2> SUFFICES ASSUME NEW y \in SUBSET u PROVE f[y] \in Int
    <3> HIDE DEF G
    <3> QED  OBVIOUS
  <2>1. CASE y # u  BY <2>1, <1>3
  <2>2. CASE y = u /\ u = {}
    <3> HIDE DEF G
    <3> QED  BY <2>2
  <2>3. CASE y = u /\ u # {}
    <3>1. u \ {c} \in SUBSET u /\ u \ {c} # u  BY <2>3, <1>4
    <3>2. G(u \ {c})[u \ {c}] \in Int  BY <3>1, <1>3
    <3>3. f[y] = w[c] + G(u \ {c})[u \ {c}]
      <4> HIDE DEF G
      <4> QED  BY <2>3
    <3> HIDE DEF G, f, c
    <3> QED  BY <2>3, <3>2, <3>3, <1>4
  <2> QED  BY <2>1, <2>2, <2>3
<1>6. f[{}] = 0
  <2> HIDE DEF G
  <2> QED  OBVIOUS
<1>7. ASSUME NEW y \in SUBSET u, y # {} PROVE f[y] = w[Some(y)] + f[y \ {Some(y)}]
  <2> DEFINE d == Some(y)
             z == y \ {d}
  <2>1. d \in y /\ z \in SUBSET u /\ z # u /\ z \in SUBSET y /\ z # y
    BY <1>7, SomeIn
  <2>2. f[z] = G(z)[z]  BY <2>1, <1>3
  <2>3. CASE y = u
    <3>1. f[y] = w[c] + G(u \ {c})[u \ {c}]
      <4> HIDE DEF G
      <4> QED  BY <2>3, <1>7
    <3> HIDE DEF G, f
    <3> QED  BY <3>1, <2>2, <2>3
  <2>4. CASE y # u
    <3>1. f[y] = G(y)[y]  BY <2>4, <1>3
    <3>2. Summing(G(y), w, y) /\ Summing(G(z), w, z)
      BY <2>1, <2>4, <1>2
    <3> HIDE DEF G, f, d, z
    <3>3. G(y)[y] = w[d] + G(y)[z]
      BY <3>2, <1>7 DEF Summing, Sums, d, z
    <3>4. G(y)[z] = G(z)[z]
      <4>1. IsFiniteSet(z)
        <5>1. z \in SUBSET T  BY <2>1
        <5> QED  BY <5>1, FS_Subset
      <4>2. z \in SUBSET z  OBVIOUS
      <4> QED  BY <2>1, <3>2, <4>1, <4>2, SumSame DEF Summing
    <3> QED  BY <2>2, <3>1, <3>3, <3>4 DEF d, z
  <2> QED  BY <2>3, <2>4
<1>8. Summing(f, w, u)
  <2> HIDE DEF f
  <2> QED  BY <1>5, <1>6, <1>7 DEF Summing, Sums
<1> HIDE DEF f
<1> QED  BY <1>1, <1>8

-----------------------------------------------------------------------------
(* What the blocks in use take *)

Extent(m) == [p \in DOMAIN m |-> m[p].next - p]
UsedBlocks(m) == {p \in DOMAIN m \ {End} : m[p].used}
BlockSum(m) == MapThenSumSet(LAMBDA p : m[p].next - p, UsedBlocks(m))

LEMMA BlockFacts ==
    ASSUME NEW m, Tiles(m)
    PROVE  /\ IsFiniteSet(UsedBlocks(m)) /\ UsedBlocks(m) \subseteq DOMAIN m
           /\ \A x \in DOMAIN m : Extent(m)[x] = m[x].next - x /\ Extent(m)[x] \in Int
<1>1. DOMAIN m \subseteq 0..End /\ \A x \in DOMAIN m : m[x].next \in 0..End /\ x \in 0..End
  BY DEF Tiles, Memory, MemBlock, Offset
<1>2. UsedBlocks(m) \in SUBSET (0..End)  BY <1>1 DEF UsedBlocks
<1>3. IsFiniteSet(0..End)  BY OffsetFacts, FS_Interval
<1>4. IsFiniteSet(UsedBlocks(m))  BY <1>2, <1>3, FS_Subset
<1> QED  BY <1>1, <1>4, OffsetFacts DEF Extent, UsedBlocks

(* The fold of the community modules is such a sum.                        *)
LEMMA BlockSumIs ==
    ASSUME NEW m, Tiles(m)
    PROVE  \E g : /\ Summing(g, Extent(m), UsedBlocks(m))
                  /\ BlockSum(m) = g[UsedBlocks(m)]
<1> DEFINE T == UsedBlocks(m)
           Body(h) == [s \in SUBSET T |->
                         IF s = {} THEN 0
                         ELSE (m[CHOOSE x \in s : TRUE].next - (CHOOSE x \in s : TRUE))
                              + h[s \ {CHOOSE x \in s : TRUE}]]
           f == CHOOSE h : h = Body(h)
<1>1. BlockSum(m) = f[T]
  BY DEF BlockSum, MapThenSumSet, MapThenFoldSet
<1>2. PICK g : Summing(g, Extent(m), T)
  <2>1. IsFiniteSet(T) /\ \A x \in T : Extent(m)[x] \in Int
    BY BlockFacts
  <2> HIDE DEF T
  <2> QED  BY <2>1, SumExists
<1>3. g = Body(g)
  <2>1. g = [s \in SUBSET T |-> g[s]]
    <3> HIDE DEF T
    <3> QED  BY <1>2 DEF Summing
  <2>2. ASSUME NEW s \in SUBSET T PROVE g[s] = Body(g)[s]
    <3>1. CASE s = {}  BY <3>1, <1>2 DEF Summing, Sums
    <3>2. CASE s # {}
      <4>1. g[s] = Extent(m)[Some(s)] + g[s \ {Some(s)}]
        <5> HIDE DEF T
        <5> QED  BY <3>2, <1>2 DEF Summing, Sums
      <4>2. Some(s) \in DOMAIN m  BY <3>2, SomeIn, BlockFacts
      <4>3. Extent(m)[Some(s)] = m[Some(s)].next - Some(s)
        BY <4>2, BlockFacts
      <4> HIDE DEF T
      <4> QED  BY <3>2, <4>1, <4>3 DEF Some
    <3> QED  BY <3>1, <3>2
  <2>3. Body(g) = [s \in SUBSET T |-> Body(g)[s]]
    <3> HIDE DEF T
    <3> QED  OBVIOUS
  <2> HIDE DEF Body, T
  <2> QED  BY <2>1, <2>2, <2>3
<1>4. f = Body(f)
  <2> HIDE DEF Body
  <2> QED  BY <1>3
<1>5. Sums(f, Extent(m), T)
  <2>1. f[{}] = 0
    <3>1. {} \in SUBSET T  OBVIOUS
    <3> HIDE DEF T, f
    <3> QED  BY <1>4, <3>1
  <2>2. ASSUME NEW s \in SUBSET T, s # {}
        PROVE  f[s] = Extent(m)[Some(s)] + f[s \ {Some(s)}]
    <3>1. Some(s) \in DOMAIN m  BY <2>2, SomeIn, BlockFacts
    <3>2. Extent(m)[Some(s)] = m[Some(s)].next - Some(s)
      BY <3>1, BlockFacts
    <3>3. f[s] = (m[Some(s)].next - Some(s)) + f[s \ {Some(s)}]
      <4> HIDE DEF T, f
      <4> QED  BY <1>4, <2>2 DEF Some
    <3> HIDE DEF f
    <3> QED  BY <3>2, <3>3
  <2> HIDE DEF f, T
  <2> QED  BY <2>1, <2>2 DEF Sums
<1>6. f[T] = g[T]
  <2>1. T \in SUBSET T /\ IsFiniteSet(T)  BY BlockFacts
  <2> HIDE DEF f, T
  <2> QED  BY <1>2, <1>5, <2>1, SumSame DEF Summing
<1> QED  BY <1>1, <1>2, <1>6

(* One more block is in use. *)
LEMMA SumGains ==
    ASSUME NEW m, NEW s, Tiles(m), Tiles(s), NEW p \in DOMAIN s,
           p \notin UsedBlocks(m), UsedBlocks(s) = UsedBlocks(m) \cup {p},
           \A x \in UsedBlocks(m) : s[x].next = m[x].next
    PROVE  BlockSum(s) = BlockSum(m) + (s[p].next - p)
<1> DEFINE T == UsedBlocks(m)
           V == UsedBlocks(s)
<1>1. PICK g : Summing(g, Extent(m), T) /\ BlockSum(m) = g[T]
  BY BlockSumIs
<1>2. PICK h : Summing(h, Extent(s), V) /\ BlockSum(s) = h[V]
  BY BlockSumIs
<1>3. /\ IsFiniteSet(T) /\ IsFiniteSet(V)
      /\ \A x \in T : Extent(m)[x] = m[x].next - x
      /\ \A x \in V : Extent(s)[x] = s[x].next - x /\ Extent(s)[x] \in Int
  BY BlockFacts
<1>4. p \in V /\ V \ {p} = T /\ \A x \in T : Extent(m)[x] = Extent(s)[x]
  BY <1>3
<1> HIDE DEF T, V
<1>5. h[V] = Extent(s)[p] + h[V \ {p}]
  <2>1. V \in SUBSET V  OBVIOUS
  <2> QED  BY <2>1, <1>2, <1>3, <1>4, SumStep
<1>6. g[T] = h[T]
  <2>1. T \in SUBSET T /\ T \in SUBSET V  BY <1>4
  <2> QED  BY <2>1, <1>1, <1>2, <1>3, <1>4, SumSame DEF Summing
<1>7. Extent(s)[p] = s[p].next - p /\ Extent(s)[p] \in Int /\ g[T] \in Int
  BY <1>1, <1>3, <1>4 DEF Summing
<1>8. BlockSum(s) = Extent(s)[p] + BlockSum(m)
  BY <1>1, <1>2, <1>4, <1>5, <1>6
<1>9. BlockSum(s) = BlockSum(m) + Extent(s)[p]
  BY <1>1, <1>7, <1>8
<1> QED  BY <1>7, <1>9

(* The same blocks are in use, with the same ends but for p. *)
LEMMA SumResized ==
    ASSUME NEW m, NEW s, Tiles(m), Tiles(s), NEW p \in UsedBlocks(m),
           UsedBlocks(s) = UsedBlocks(m),
           \A x \in UsedBlocks(m) \ {p} : s[x].next = m[x].next
    PROVE  BlockSum(s) = BlockSum(m) + (s[p].next - m[p].next)
<1> DEFINE T == UsedBlocks(m)
<1>1. PICK g : Summing(g, Extent(m), T) /\ BlockSum(m) = g[T]
  BY BlockSumIs
<1>2. PICK h : Summing(h, Extent(s), T) /\ BlockSum(s) = h[T]
  BY BlockSumIs
<1>3. /\ IsFiniteSet(T) /\ T \subseteq DOMAIN s
      /\ \A x \in T : Extent(m)[x] = m[x].next - x /\ Extent(m)[x] \in Int
      /\ \A x \in T : Extent(s)[x] = s[x].next - x /\ Extent(s)[x] \in Int
  BY BlockFacts
<1>4. p \in T /\ \A x \in T \ {p} : Extent(m)[x] = Extent(s)[x]
  BY <1>3
<1> HIDE DEF T
<1>5. h[T] = Extent(s)[p] + h[T \ {p}] /\ g[T] = Extent(m)[p] + g[T \ {p}]
  <2>1. T \in SUBSET T  OBVIOUS
  <2> QED  BY <2>1, <1>1, <1>2, <1>3, <1>4, SumStep
<1>6. g[T \ {p}] = h[T \ {p}] /\ g[T \ {p}] \in Int
  <2>1. T \ {p} \in SUBSET T  OBVIOUS
  <2>2. IsFiniteSet(T \ {p})  BY <1>3, FS_RemoveElement
  <2>3. g[T \ {p}] = h[T \ {p}]
    BY <2>1, <2>2, <1>1, <1>2, <1>4, SumSame DEF Summing
  <2> QED  BY <2>1, <2>3, <1>1 DEF Summing
<1>7. /\ Extent(s)[p] = s[p].next - p /\ Extent(m)[p] = m[p].next - p
  BY <1>3, <1>4
<1>8. m[p].next \in Int /\ s[p].next \in Int /\ p \in Int
  <2>1. p \in DOMAIN m /\ p \in DOMAIN s  BY <1>3 DEF UsedBlocks
  <2> QED  BY <2>1, OffsetFacts DEF Tiles, Memory, MemBlock
<1> QED  BY <1>1, <1>2, <1>5, <1>6, <1>7, <1>8

(* The same blocks are in use, with the same ends.                         *)
LEMMA SumKept ==
    ASSUME NEW m, NEW s, Tiles(m), Tiles(s), UsedBlocks(s) = UsedBlocks(m),
           \A x \in UsedBlocks(m) : s[x].next = m[x].next
    PROVE  BlockSum(s) = BlockSum(m)
<1> DEFINE T == UsedBlocks(m)
<1>1. PICK g : Summing(g, Extent(m), T) /\ BlockSum(m) = g[T]
  BY BlockSumIs
<1>2. PICK h : Summing(h, Extent(s), T) /\ BlockSum(s) = h[T]
  BY BlockSumIs
<1>3. IsFiniteSet(T) /\ \A x \in T : Extent(m)[x] = Extent(s)[x]
  BY BlockFacts
<1> HIDE DEF T
<1>4. T \in SUBSET T  OBVIOUS
<1> QED  BY <1>1, <1>2, <1>3, <1>4, SumSame DEF Summing

LEMMA SumIsInt ==
    ASSUME NEW m, Tiles(m)
    PROVE  BlockSum(m) \in Int
<1>1. PICK g : Summing(g, Extent(m), UsedBlocks(m)) /\ BlockSum(m) = g[UsedBlocks(m)]
  BY BlockSumIs
<1> QED  BY <1>1 DEF Summing

LEMMA NoneUsed ==
    ASSUME NEW m, Tiles(m), UsedBlocks(m) = {}
    PROVE  BlockSum(m) = 0
<1>1. PICK g : Summing(g, Extent(m), UsedBlocks(m)) /\ BlockSum(m) = g[UsedBlocks(m)]
  BY BlockSumIs
<1> QED  BY <1>1 DEF Summing, Sums

-----------------------------------------------------------------------------
(* What is free is not lost *)

(* After the two merges no two free blocks are neighbours. *)
LEMMA PlugUnites ==
    ASSUME NEW m, Tiles(m), NEW p \in DOMAIN m \ {End}, ~m[p].used,
           NEW l \in DOMAIN m,
           \A x \in DOMAIN m \ {End} : Apart(m, x) \/ p \in {x, m[x].next}
    PROVE  LET h == PlugHoles([mem |-> m, lfree |-> l], p)
           IN  /\ \A x \in DOMAIN h.mem \ {End} : Apart(h.mem, x)
               /\ l # End => h.lfree # End
<1> DEFINE f == PlugForward([mem |-> m, lfree |-> l], p)
           h == PlugBackward(f, p)
           n == m[p].next
<1>1. /\ f = [mem |-> f.mem, lfree |-> f.lfree]
      /\ \/ f.mem = m /\ f.lfree = l /\ (n = End \/ m[n].used)
         \/ /\ Absorbed(m, f.mem, p, n)
            /\ f.lfree = IF l = n THEN p ELSE l
  BY ForwardIs
<1>2. PlugHoles([mem |-> m, lfree |-> l], p) = h
  BY DEF PlugHoles
<1> HIDE DEF f
<1>3. /\ Tiles(f.mem) /\ p \in DOMAIN f.mem \ {End} /\ ~f.mem[p].used
      /\ l # End => f.lfree # End
      /\ \A x \in DOMAIN f.mem \ {End} : Apart(f.mem, x) \/ f.mem[x].next = p
  <2>1. CASE f.mem = m /\ f.lfree = l /\ (n = End \/ m[n].used)
    <3>1. Apart(m, p)  BY <2>1 DEF Apart
    <3>2. ASSUME NEW x \in DOMAIN m \ {End} PROVE Apart(m, x) \/ m[x].next = p
      BY <3>1
    <3> QED  BY <2>1, <3>2
  <2>2. CASE /\ Absorbed(m, f.mem, p, n)
             /\ f.lfree = IF l = n THEN p ELSE l
    <3> DEFINE s == f.mem
    <3>1. ASSUME NEW x \in DOMAIN s \ {End} PROVE Apart(s, x) \/ s[x].next = p
      <4>1. x \in DOMAIN m \ {End} /\ s[x].used = m[x].used /\ x # n
            /\ s[x].next \in DOMAIN s /\ n \in DOMAIN m \ {End}
            /\ s[s[x].next].used = m[s[x].next].used
        BY <2>2 DEF Absorbed, Tiles, TiledMem
      <4>2. CASE x = p
        <5>1. s[p].next = m[n].next  BY <2>2 DEF Absorbed
        <5>2. ~m[n].used /\ n # p /\ p < n /\ n < m[n].next /\ p \in Nat /\ n \in Nat
              /\ m[n].next \in Nat
          BY <2>2, <4>1, OffsetFacts DEF Absorbed, Tiles, TiledMem, Memory
        <5>3. m[n].next # p
          <6> HIDE DEF n
          <6> QED  BY <5>2
        <5>4. Apart(m, n)  BY <4>1, <5>2, <5>3
        <5> QED  BY <4>1, <4>2, <5>1, <5>2, <5>4 DEF Apart
      <4>3. CASE x # p
        <5>1. s[x].next = m[x].next  BY <2>2, <4>3 DEF Absorbed
        <5> QED  BY <4>1, <4>3, <5>1 DEF Apart
      <4> QED  BY <4>2, <4>3
    <3>2. l # End => f.lfree # End  BY <2>2
    <3> QED  BY <2>2, <3>1, <3>2 DEF Absorbed
  <2> QED  BY <1>1, <2>1, <2>2
<1>4. \/ /\ h.mem = f.mem /\ h.lfree = f.lfree
         /\ \A x \in DOMAIN f.mem \ {End} : f.mem[x].next = p => f.mem[x].used
      \/ /\ Absorbed(f.mem, h.mem, f.mem[p].prev, p) /\ ~f.mem[f.mem[p].prev].used
         /\ h.lfree = IF f.lfree = p THEN f.mem[p].prev ELSE f.lfree
  <2> DEFINE g == f.mem
             l1 == f.lfree
             z == PlugBackward([mem |-> g, lfree |-> l1], p)
  <2>1. h = z  BY <1>1
  <2> HIDE DEF h, g, l1
  <2>2. Tiles(g) /\ p \in DOMAIN g \ {End} /\ ~g[p].used  BY <1>3 DEF g
  <2>3. MergedBack(g, l1, p, z)  BY <2>2, BackwardIs
  <2> QED  BY <2>1, <2>3 DEF g, l1, MergedBack
<1> HIDE DEF h
<1>5. \A x \in DOMAIN h.mem \ {End} : Apart(h.mem, x)
  <2>1. CASE /\ h.mem = f.mem
             /\ \A x \in DOMAIN f.mem \ {End} : f.mem[x].next = p => f.mem[x].used
    BY <1>3, <2>1 DEF Apart
  <2>2. CASE /\ Absorbed(f.mem, h.mem, f.mem[p].prev, p)
             /\ ~f.mem[f.mem[p].prev].used
    <3> DEFINE s == h.mem
               g == f.mem
               q == f.mem[p].prev
    <3> SUFFICES ASSUME NEW x \in DOMAIN s \ {End} PROVE Apart(s, x)
      OBVIOUS
    <3>1. /\ x \in DOMAIN g \ {End} /\ s[x].used = g[x].used /\ x # p
          /\ s[x].next \in DOMAIN s /\ s[x].next # p
          /\ s[s[x].next].used = g[s[x].next].used
      BY <2>2 DEF Absorbed, Tiles, TiledMem
    <3>2. CASE x = q
      <4>1. s[q].next = g[p].next  BY <2>2 DEF Absorbed
      <4>2. Apart(g, p)  BY <1>3, <3>1, <3>2, <4>1
      <4> QED  BY <1>3, <3>1, <3>2, <4>1, <4>2 DEF Apart
    <3>3. CASE x # q
      <4>1. s[x].next = g[x].next  BY <2>2, <3>3 DEF Absorbed
      <4>2. Apart(g, x)  BY <1>3, <3>1, <4>1
      <4> QED  BY <3>1, <4>1, <4>2 DEF Apart
    <3> QED  BY <3>2, <3>3
  <2> QED  BY <1>4, <2>1, <2>2
<1>6. l # End => h.lfree # End
  BY <1>3, <1>4 DEF Absorbed
<1> QED  BY <1>2, <1>5, <1>6

LossOK ==
    /\ \A p \in Headers \ {End} :
          Apart(mem, p) \/ \E t \in Task : pc[t] = "plug" /\ ptr[t] \in {p, mem[p].next}
    /\ used_mem = BlockSum(mem)
    /\ (\A p \in Offset : owner[p] = NoTask) => lfree # End

LEMMA LossIs == LossInv <=> LossOK
BY DEF LossInv, LossOK, BlockSum, UsedBlocks

(* Each step that changes used changes used_mem by as much, and a block    *)
(* that becomes free is at hand until plug_holes has looked at both sides. *)
LEMMA LossNext ==
    ASSUME Inv, LossOK, [Next]_vars PROVE LossOK'
<1> USE OffsetFacts
<1>0. /\ Tiles(mem) /\ lfree \in Headers /\ BlockSum(mem) \in Int
      /\ owner \in [Offset -> Task \cup {NoTask}]
      /\ \A x \in Headers \ {End} : /\ mem[x].next \in Headers /\ x < mem[x].next
                                   /\ x \in Nat /\ mem[x].next \in Nat
      /\ \A x \in Headers \ {End} : \A y \in Headers : y <= x \/ mem[x].next <= y
  <2>1. Tiles(mem) /\ lfree \in Headers /\ owner \in [Offset -> Task \cup {NoTask}]
    BY DEF Inv, HeapOK
  <2> QED  BY <2>1, SumIsInt DEF Tiles, TiledMem, Memory
<1>1. CASE UNCHANGED vars
  BY <1>1 DEF vars, heap, LossOK, Apart
<1>2. ASSUME NEW t \in Task, Elsewhere(t) PROVE LossOK'
  <2>1. /\ UNCHANGED <<mem, lfree, used_mem, owner, ops>>
        /\ \A u \in Task : pc[u] = "plug" => pc'[u] = "plug" /\ ptr'[u] = ptr[u]
    BY <1>2, ElsewhereStep
  <2> QED  BY <2>1 DEF LossOK, Apart
<1>3. ASSUME NEW t \in Task, Cut(t) PROVE LossOK'
  <2> DEFINE p == ptr[t]
  <2>1. /\ p \in Headers \ {End} /\ ~mem[p].used
        /\ Tiles(mem') /\ Headers \subseteq DOMAIN mem' /\ mem'[p].used
        /\ used_mem' = used_mem + (mem'[p].next - p)
        /\ \A x \in Headers \ {p} :
              mem'[x].used = mem[x].used /\ mem'[x].next = mem[x].next
        /\ \A x \in DOMAIN mem' \ Headers :
              ~mem'[x].used /\ x > p /\ mem'[p].next = x /\ mem'[x].next = mem[p].next
    BY <1>3, CutMemory
  <2>2. /\ owner' = [owner EXCEPT ![p] = t] /\ p \in Offset /\ t # NoTask
    BY <1>3, <2>1, HeapAssumption DEF Cut, Tiles, Memory
  <2>3. \A u \in Task : pc[u] # "plug"
    <3>1. pc[t] # "plug" /\ ~Plug(t)  BY <1>3 DEF Cut, Plug
    <3> QED  BY <1>3, <3>1, BlockStep
  <2>4. \A x \in Headers \ {End} : Apart(mem, x)
    BY <2>3 DEF LossOK
  <2> HIDE DEF p
  <2>5. ASSUME NEW x \in DOMAIN mem' \ {End} PROVE Apart(mem', x)
    <3>1. CASE x \in Headers \ {p}
      BY <3>1, <1>0, <2>1, <2>4 DEF Apart
    <3>2. CASE x = p  BY <3>2, <2>1 DEF Apart
    <3>3. CASE x \notin Headers
      <4>1. mem'[x].next = mem[p].next /\ mem[p].next \in Headers \ {p}
        BY <3>3, <2>1, <1>0
      <4> QED  BY <4>1, <2>1, <2>4 DEF Apart
    <3> QED  BY <3>1, <3>2, <3>3
  <2>6. used_mem' = BlockSum(mem')
    <3>1. UsedBlocks(mem') = UsedBlocks(mem) \cup {p} /\ p \notin UsedBlocks(mem)
      BY <2>1 DEF UsedBlocks
    <3>2. \A x \in UsedBlocks(mem) : mem'[x].next = mem[x].next
      BY <2>1 DEF UsedBlocks
    <3>3. BlockSum(mem') = BlockSum(mem) + (mem'[p].next - p)
      BY <3>1, <3>2, <2>1, <1>0, SumGains
    <3> QED  BY <3>3, <2>1 DEF LossOK
  <2>7. owner'[p] # NoTask /\ p \in Offset  BY <2>2, <1>0
  <2> QED  BY <2>5, <2>6, <2>7 DEF LossOK
<1>4. ASSUME NEW t \in Task, Mark(t) PROVE LossOK'
  <2> DEFINE p == ptr[t]
  <2>1. /\ p \in Headers \ {End} /\ mem[p].used /\ lfree' = Lower(p)
        /\ Tiles(mem') /\ DOMAIN mem' = Headers /\ ~mem'[p].used
        /\ used_mem' = used_mem - (mem[p].next - p)
        /\ \A x \in Headers : mem'[x].next = mem[x].next
        /\ \A x \in Headers \ {p} : mem'[x].used = mem[x].used
    BY <1>4, MarkMemory
  <2>2. \A u \in Task : pc[u] # "plug"
    <3>1. pc[t] # "plug" /\ ~Plug(t)  BY <1>4 DEF Mark, Plug
    <3> QED  BY <1>4, <3>1, BlockStep
  <2>3. \A x \in Headers \ {End} : Apart(mem, x)
    BY <2>2 DEF LossOK
  <2>4. pc'[t] = "plug" /\ ptr'[t] = p
    BY <1>4, BlockStep DEF Mark
  <2> HIDE DEF p
  <2>5. ASSUME NEW x \in DOMAIN mem' \ {End}
        PROVE  Apart(mem', x) \/ p \in {x, mem'[x].next}
    <3>1. Apart(mem, x) /\ mem[x].next \in Headers  BY <2>1, <2>3, <1>0
    <3> QED  BY <3>1, <2>1 DEF Apart
  <2>6. used_mem' = BlockSum(mem')
    <3>1. UsedBlocks(mem) = UsedBlocks(mem') \cup {p} /\ p \notin UsedBlocks(mem')
      BY <2>1 DEF UsedBlocks
    <3>2. \A x \in UsedBlocks(mem') : mem[x].next = mem'[x].next
      BY <2>1 DEF UsedBlocks
    <3>3. BlockSum(mem) = BlockSum(mem') + (mem[p].next - p)
      BY <3>1, <3>2, <2>1, <1>0, SumGains
    <3>4. BlockSum(mem') \in Int /\ mem[p].next - p \in Int  BY <2>1, <1>0, SumIsInt
    <3> QED  BY <3>3, <3>4, <2>1, <1>0 DEF LossOK
  <2>7. lfree' # End
    <3>1. p < End /\ p \in Nat /\ lfree \in Nat  BY <2>1, <1>0 DEF Tiles, Memory
    <3> QED  BY <3>1, <2>1 DEF Lower
  <2> QED  BY <2>4, <2>5, <2>6, <2>7 DEF LossOK
<1>5. ASSUME NEW t \in Task, Plug(t) PROVE LossOK'
  <2> DEFINE p == ptr[t]
             h == PlugHoles([mem |-> mem, lfree |-> lfree], p)
  <2>1. /\ p \in Headers \ {End} /\ ~mem[p].used
        /\ mem' = h.mem /\ lfree' = h.lfree
        /\ Tiles(mem') /\ Keeps(mem, mem')
    BY <1>5, PlugMemory
  <2>2. \A x \in Headers \ {End} : Apart(mem, x) \/ p \in {x, mem[x].next}
    BY <1>5, BlockStep DEF LossOK
  <2>3. UNCHANGED <<used_mem, owner>>  BY <1>5 DEF Plug
  <2> HIDE DEF p
  <2>4. /\ \A x \in DOMAIN h.mem \ {End} : Apart(h.mem, x)
        /\ lfree # End => h.lfree # End
    BY <2>1, <2>2, <1>0, PlugUnites
  <2> HIDE DEF h
  <2>5. used_mem' = BlockSum(mem')
    <3>1. UsedBlocks(mem') = UsedBlocks(mem)
      BY <2>1 DEF UsedBlocks, Keeps
    <3>2. \A x \in UsedBlocks(mem) : mem'[x].next = mem[x].next
      BY <2>1 DEF UsedBlocks, Keeps
    <3>3. BlockSum(mem') = BlockSum(mem)
      BY <3>1, <3>2, <2>1, <1>0, SumKept
    <3> QED  BY <3>3, <2>3 DEF LossOK
  <2> QED  BY <2>1, <2>3, <2>4, <2>5 DEF LossOK
<1>6. ASSUME NEW t \in Task, ShrinkInPlace(t) PROVE LossOK'
  <2> DEFINE p == old[t]
             n == size[t]
             q == p + Header + n
  <2>1. /\ p \in Headers \ {End} /\ mem[p].used /\ owner[p] = t /\ n \in Nat
        /\ Tiles(mem') /\ DOMAIN mem' = Headers \cup {q}
        /\ q \in Offset /\ q \notin Headers /\ q # End /\ ptr'[t] = q
        /\ ~mem'[q].used /\ mem'[p].next = q /\ mem'[q].next = mem[p].next
        /\ used_mem' = used_mem - (Room(mem, p) - n)
        /\ \A x \in Headers : mem'[x].used = mem[x].used
        /\ \A x \in Headers \ {p} : mem'[x].next = mem[x].next
    BY <1>6, ShrinkMemory
  <2>2. \A u \in Task : pc[u] # "plug"
    <3>1. pc[t] # "plug" /\ ~Plug(t)  BY <1>6 DEF ShrinkInPlace, Plug
    <3> QED  BY <1>6, <3>1, BlockStep
  <2>3. \A x \in Headers \ {End} : Apart(mem, x)
    BY <2>2 DEF LossOK
  <2>4. pc'[t] = "plug" /\ UNCHANGED owner
    BY <1>6, BlockStep DEF ShrinkInPlace
  <2>5. p \in Nat /\ q = p + Header + n /\ p \in Offset
    BY <2>1, <1>0 DEF Tiles, Memory
  <2> HIDE DEF p, n, q
  <2>6. ASSUME NEW x \in DOMAIN mem' \ {End}
        PROVE  Apart(mem', x) \/ q \in {x, mem'[x].next}
    <3>1. CASE x = q  BY <3>1
    <3>2. CASE x = p  BY <3>2, <2>1
    <3>3. CASE x \in Headers \ {p}
      <4>1. Apart(mem, x) /\ mem[x].next \in Headers  BY <3>3, <2>3, <1>0
      <4> QED  BY <4>1, <3>3, <2>1 DEF Apart
    <3> QED  BY <3>1, <3>2, <3>3, <2>1
  <2>7. used_mem' = BlockSum(mem')
    <3>1. UsedBlocks(mem') = UsedBlocks(mem) /\ p \in UsedBlocks(mem)
      BY <2>1 DEF UsedBlocks
    <3>2. \A x \in UsedBlocks(mem) \ {p} : mem'[x].next = mem[x].next
      BY <2>1 DEF UsedBlocks
    <3>3. BlockSum(mem') = BlockSum(mem) + (mem'[p].next - mem[p].next)
      BY <3>1, <3>2, <2>1, <1>0, SumResized
    <3>4. Room(mem, p) = mem[p].next - (p + Header) /\ mem[p].next \in Nat
      BY <2>1, <1>0 DEF Room
    <3> QED  BY <3>3, <3>4, <2>1, <2>5, <1>0 DEF LossOK
  <2>8. owner'[p] # NoTask /\ p \in Offset
    BY <2>1, <2>4, <2>5, HeapAssumption
  <2> QED  BY <2>1, <2>4, <2>6, <2>7, <2>8 DEF LossOK
<1> QED  BY <1>1, <1>2, <1>3, <1>4, <1>5, <1>6, NextIs

LEMMA LossInit == Init => LossOK
<1> SUFFICES ASSUME Init PROVE LossOK  OBVIOUS
<1>1. UsedBlocks(mem) = {}  BY InitMemory DEF UsedBlocks
<1>2. BlockSum(mem) = 0  BY <1>1, InitMemory, NoneUsed
<1> QED  BY <1>2, InitMemory, OffsetFacts DEF LossOK, Apart

(* Outside of the calls that is NothingLost: with all blocks free and none *)
(* next to a free one there is one block.                                  *)
LEMMA LossMeans ==
    ASSUME Inv, LossOK PROVE NothingLost
<1> USE OffsetFacts
<1> SUFFICES ASSUME Quiet PROVE NothingLost
  BY DEF NothingLost
<1>1. \A p \in Headers \ {End} : Apart(mem, p)
  BY DEF LossOK, Quiet, Inside
<1>2. used_mem = MapThenSumSet(LAMBDA p : mem[p].next - p,
                               {p \in Headers \ {End} : mem[p].used})
  BY DEF LossOK, BlockSum, UsedBlocks
<1>3. ASSUME \A p \in Offset : owner[p] = NoTask PROVE Headers = {0, End} /\ lfree = 0
  <2>1. /\ TiledMem(mem) /\ \A p \in Headers : p \in Nat /\ p \in Offset /\ p <= End
        /\ lfree \in Headers
    BY DEF Inv, HeapOK, Tiles, Memory
  <2>2. \A p \in Headers \ {End} : ~mem[p].used
    BY <1>3, <2>1 DEF Inv, HeapOK
  <2>3. mem[0].next = End
    <3>1. 0 \in Headers \ {End} /\ mem[0].next \in Headers  BY <2>1 DEF TiledMem
    <3> QED  BY <3>1, <1>1, <2>2 DEF Apart
  <2>4. \A p \in Headers : p <= 0 \/ End <= p
    BY <2>1, <2>3 DEF TiledMem
  <2>5. Headers \subseteq {0, End}  BY <2>1, <2>4
  <2>6. {0, End} \subseteq Headers  BY <2>1 DEF TiledMem
  <2>7. lfree # End  BY <1>3 DEF LossOK
  <2> QED  BY <2>1, <2>5, <2>6, <2>7
<1> QED  BY <1>1, <1>2, <1>3 DEF NothingLost, Apart

(* Between the calls free neighbours are united, used_mem is what the      *)
(* blocks in use take, and when all are freed the heap is one block again, *)
(* whichever of os_malloc, os_free and os_realloc made and freed them.     *)
THEOREM HeapLosesNothing == Spec => []NothingLost
<1>1. Inv /\ LossOK /\ [Next]_vars => LossOK'
  BY LossNext
<1>2. Inv /\ LossOK => NothingLost  BY LossMeans
<1> QED  BY <1>1, <1>2, LossInit, InitInv, NextInv, PTL DEF Spec

(* In the middle of a call a free block has a free neighbour only where    *)
(* somebody is about to unite them, and used_mem is right at any time.     *)
THEOREM LossInductive == Spec => []LossInv
<1>1. Inv /\ LossOK /\ [Next]_vars => LossOK'
  BY LossNext
<1> QED  BY <1>1, LossIs, LossInit, InitInv, NextInv, PTL DEF Spec
=============================================================================
