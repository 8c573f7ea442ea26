------------------------------- MODULE OsHeap -------------------------------
(***************************************************************************)
(* The heap of os_heap.c, used by several tasks.  Offsets and sizes count  *)
(* units of OS_ALIGN_SIZE bytes, so that OS_ALIGN is the identity.  mem is *)
(* the memory between heap_ptr and heap_end as the functions see it: its   *)
(* domain is the set of the offsets at which there is a struct heap_mem,   *)
(* the last one heap_end.  The rest of a block is the caller's.            *)
(*                                                                         *)
(* A call that holds heap_sem is several steps, "scan" to "giveEnd": only  *)
(* the semaphore keeps the others away.  heap_sem itself is what module    *)
(* Semaphore says, which OsSem implements.                                 *)
(***************************************************************************)
EXTENDS Integers, Sequences, FiniteSetsExt

CONSTANTS Task, NoTask,
    Size,       \* mem_size_aligned
    Header,     \* SIZEOF_STRUCT_MEM
    MinSize,    \* MIN_SIZE_ALIGNED, and MIN_SIZE
    Ask,        \* the sizes the application asks for
    Uses,       \* the sets of functions it may use beside malloc and free
    NoBlock     \* NULL

ASSUME HeapAssumption ==
    /\ Size \in Nat /\ MinSize \in Nat \ {0} /\ MinSize <= Size
    /\ Header \in Nat \ {0}
    /\ Ask \subseteq Nat
    /\ NoBlock \notin Nat /\ NoTask \notin Task

VARIABLES
    mem, lfree,
    used_mem,
    value, queue, outcome,  \* heap_sem
    pc,         \* where each task is: "app" is application code
    size,       \* the size its call asks for
    ptr,        \* the block its call has at hand, without the header
    old,        \* the block that os_realloc replaces
    owner,      \* the task that has each block, the asked size
    asked,
    ops         \* what this application uses, for ever

heap == <<mem, lfree, used_mem>>
sem == <<value, queue, outcome>>
vars == <<heap, sem, pc, size, ptr, old, owner, asked, ops>>

S == INSTANCE Semaphore WITH Client <- Task, Value <- 1, MaxValue <- 1, Fifo <- TRUE

End == Size + Header        \* heap_end
Offset == 0..End
Headers == DOMAIN mem
Taking == {"takeScan", "takeMark", "takeMeasure"}
Inside == {"scan", "cut", "mark", "plug", "measure", "split",
           "giveNew", "giveMore", "giveEnd"}

(* os_heap_init *)
Init ==
    /\ mem = [p \in {0, End} |->
                 [next |-> End, prev |-> p, used |-> p = End]]
    /\ lfree = 0 /\ used_mem = 0
    /\ S!Init
    /\ pc = [t \in Task |-> "app"]
    /\ size = [t \in Task |-> 0]
    /\ ptr = [t \in Task |-> NoBlock]
    /\ old = [t \in Task |-> NoBlock]
    /\ owner = [p \in Offset |-> NoTask]
    /\ asked = [p \in Offset |-> 0]
    /\ ops \in Uses

Goto(t, s) == pc' = [pc EXCEPT ![t] = s]

-----------------------------------------------------------------------------
(* What the functions do to the blocks, on any memory m. *)

Room(m, p) == m[p].next - (p + Header)
NextSet(b, n) == [b EXCEPT !.next = n]
PrevSet(b, p) == [b EXCEPT !.prev = p]
UsedSet(b, u) == [b EXCEPT !.used = u]

SplitNoHeader(m, p, n) ==                                     \* mutant
    LET q == p + n
    IN  [x \in DOMAIN m \cup {q} |->
            CASE x = p -> NextSet(m[p], q)
              [] x = q -> [next |-> m[p].next, prev |-> p, used |-> FALSE]
              [] x = m[p].next /\ x # End -> PrevSet(m[x], q)
              [] OTHER -> m[x]]

(* Block p keeps n units of data and the rest becomes a block of its own.  *)
(* heap_end->prev is left alone.                                           *)
Split(m, p, n) ==
    LET q == p + Header + n
    IN  [x \in DOMAIN m \cup {q} |->
            CASE x = p -> NextSet(m[p], q)
              [] x = q -> [next |-> m[p].next, prev |-> p, used |-> FALSE]
              [] x = m[p].next /\ x # End -> PrevSet(m[x], q)
              [] OTHER -> m[x]]

AbsorbForgetsPrev(m, p, n) ==                                 \* mutant
    [x \in DOMAIN m \ {n} |->
        IF x = p THEN NextSet(m[p], m[n].next) ELSE m[x]]

(* Block p takes over n, the one behind it. *)
Absorb(m, p, n) ==
    [x \in DOMAIN m \ {n} |->
        CASE x = p -> NextSet(m[p], m[n].next)
          [] x = m[n].next -> PrevSet(m[x], p)
          [] OTHER -> m[x]]

(* plug_holes, on a state [mem, lfree] *)
PlugForward(h, p) ==
    LET n == h.mem[p].next
    IN  IF p # n /\ ~h.mem[n].used /\ n # End
        THEN [mem |-> Absorb(h.mem, p, n),
              lfree |-> IF h.lfree = n THEN p ELSE h.lfree]
        ELSE h

PlugBackward(h, p) ==
    LET q == h.mem[p].prev
    IN  IF q # p /\ ~h.mem[q].used
        THEN [mem |-> Absorb(h.mem, q, p),
              lfree |-> IF h.lfree = p THEN q ELSE h.lfree]
        ELSE h

ForwardOnly(h, p) == PlugForward(h, p)                        \* mutant

PlugHoles(h, p) == PlugBackward(PlugForward(h, p), p)

(* The loop that starts at l and follows next ends at f: the blocks are    *)
(* linked in the order of their offsets (Tiled, below).                    *)
FirstFree(m, l, f) ==
    /\ f \in DOMAIN m /\ l <= f /\ (f = End \/ ~m[f].used)
    /\ \A q \in DOMAIN m : l <= q /\ q < f => m[q].used

-----------------------------------------------------------------------------
(* os_sem_take and os_sem_give of heap_sem *)

Take(t, step) ==
    \/ outcome[t] = "none" /\ S!TakeNow /\ Goto(t, step)
    \/ S!Wait(t) /\ UNCHANGED pc
    \/ outcome[t] = "OS_OK" /\ S!Return(t) /\ Goto(t, step)

Enter(t) ==
    /\ \/ pc[t] = "takeScan" /\ Take(t, "scan")
       \/ pc[t] = "takeMark" /\ Take(t, "mark")
       \/ pc[t] = "takeMeasure" /\ Take(t, "measure")
    /\ UNCHANGED <<heap, size, ptr, old, owner, asked, ops>>

GiveAnd(t, step) == S!Give /\ Goto(t, step)

Return(t) ==
    /\ size' = [size EXCEPT ![t] = 0]
    /\ ptr' = [ptr EXCEPT ![t] = NoBlock]
    /\ old' = [old EXCEPT ![t] = NoBlock]

-----------------------------------------------------------------------------
(* os_malloc; os_calloc is os_malloc of the product, and clears what it    *)
(* gets.  A size of 0 or above mem_size_aligned returns NULL at once.      *)

Rounded(n) == IF n < MinSize THEN MinSize ELSE n

Malloc(t, n) ==
    /\ pc[t] = "app" /\ n \in 1..Size
    /\ size' = [size EXCEPT ![t] = Rounded(n)]
    /\ Goto(t, "takeScan")
    /\ UNCHANGED <<heap, sem, ptr, old, owner, asked, ops>>

FitsAnywhere(n) == {p \in Headers : ~mem[p].used /\ Room(mem, p) >= n}

(* What the loop looks at: it begins at lfree and stops at                 *)
(* mem_size_aligned - size.                                                *)
Fits(n) == {p \in FitsAnywhere(n) : lfree <= p /\ p < Size - n}

Scan(t) ==
    /\ pc[t] = "scan"
    /\ LET fits == Fits(size[t])
       IN  \/ \E p \in fits : /\ \A q \in fits : p <= q
                              /\ ptr' = [ptr EXCEPT ![t] = p]
                              /\ Goto(t, "cut")
           \/ /\ fits = {}
              /\ ptr' = [ptr EXCEPT ![t] = NoBlock]
              /\ Goto(t, "giveNew")
    /\ UNCHANGED <<mem, lfree, used_mem, sem, size, old, owner, asked, ops>>

Splits(p, n) == Room(mem, p) >= n + Header + MinSize

Cut(t) ==
    LET p == ptr[t]
        n == size[t]
        m == IF Splits(p, n) THEN Split(mem, p, n) ELSE mem
    IN  /\ pc[t] = "cut"
        /\ mem' = [m EXCEPT ![p] = UsedSet(@, TRUE)]
        /\ used_mem' = used_mem + (m[p].next - p)
        /\ IF p = lfree THEN \E f \in Offset : FirstFree(mem', p, f) /\ lfree' = f
                        ELSE UNCHANGED lfree
        /\ owner' = [owner EXCEPT ![p] = t]
        /\ asked' = [asked EXCEPT ![p] = n]
        /\ Goto(t, "giveNew")
        /\ UNCHANGED <<sem, size, ptr, old, ops>>

GiveNewRetries(t) ==                                          \* mutant
    /\ pc[t] = "giveNew"
    /\ IF ptr[t] = NoBlock THEN GiveAnd(t, "takeScan") /\ UNCHANGED <<size, ptr, old>>
       ELSE IF old[t] = NoBlock THEN GiveAnd(t, "app") /\ Return(t)
       ELSE GiveAnd(t, "copy") /\ UNCHANGED <<size, ptr, old>>
    /\ UNCHANGED <<heap, owner, asked, ops>>

(* In os_realloc the block that was found gets the data of the old one.    *)
GiveNew(t) ==
    /\ pc[t] = "giveNew"
    /\ IF NoBlock \in {ptr[t], old[t]}
       THEN GiveAnd(t, "app") /\ Return(t)
       ELSE GiveAnd(t, "copy") /\ UNCHANGED <<size, ptr, old>>
    /\ UNCHANGED <<heap, owner, asked, ops>>

-----------------------------------------------------------------------------
(* os_free *)

Free(t, p) ==
    /\ pc[t] = "app" /\ owner[p] = t
    /\ ptr' = [ptr EXCEPT ![t] = p]
    /\ Goto(t, "takeMark")
    /\ UNCHANGED <<heap, sem, size, old, owner, asked, ops>>

FreeLow(p) == lfree                                           \* mutant

(* "the newly freed struct is now the lowest" *)
Lower(p) == IF p < lfree THEN p ELSE lfree

Mark(t) ==
    LET p == ptr[t]
    IN  /\ pc[t] = "mark"
        /\ mem' = [mem EXCEPT ![p] = UsedSet(@, FALSE)]
        /\ lfree' = Lower(p)
        /\ used_mem' = used_mem - (mem[p].next - p)
        /\ owner' = [owner EXCEPT ![p] = NoTask]
        /\ asked' = [asked EXCEPT ![p] = 0]
        /\ Goto(t, "plug")
        /\ UNCHANGED <<sem, size, ptr, old, ops>>

Plug(t) ==
    LET h == PlugHoles([mem |-> mem, lfree |-> lfree], ptr[t])
    IN  /\ pc[t] = "plug"
        /\ mem' = h.mem /\ lfree' = h.lfree
        /\ ptr' = [ptr EXCEPT ![t] = NoBlock]
        /\ Goto(t, "giveEnd")
        /\ UNCHANGED <<used_mem, sem, size, old, owner, asked, ops>>

GiveEnd(t) ==
    /\ pc[t] = "giveEnd"
    /\ GiveAnd(t, "app") /\ Return(t)
    /\ UNCHANGED <<heap, owner, asked, ops>>

-----------------------------------------------------------------------------
(* os_realloc of a block; of NULL it is os_malloc.                         *)

Realloc(t, p, n) ==
    /\ pc[t] = "app" /\ "realloc" \in ops /\ owner[p] = t /\ n <= Size
    /\ old' = [old EXCEPT ![t] = p]
    /\ size' = [size EXCEPT ![t] = n]
    /\ Goto(t, "takeMeasure")
    /\ UNCHANGED <<heap, sem, ptr, owner, asked, ops>>

(* The same size, a smaller one that leaves a block, or another block.     *)
Measure(t) ==
    LET room == Room(mem, old[t])
        n == size[t]
    IN  /\ pc[t] = "measure"
        /\ Goto(t, CASE n = room -> "giveEnd"
                     [] n + Header + MinSize < room -> "split"
                     [] OTHER -> "giveMore")
        /\ UNCHANGED <<heap, sem, size, ptr, old, owner, asked, ops>>

ShrinkInPlace(t) ==
    LET p == old[t]
        n == size[t]
    IN  /\ pc[t] = "split"
        /\ used_mem' = used_mem - (Room(mem, p) - n)
        /\ mem' = Split(mem, p, n)
        /\ asked' = [asked EXCEPT ![p] = n]
        /\ ptr' = [ptr EXCEPT ![t] = p + Header + n]
        /\ Goto(t, "plug")
        /\ UNCHANGED <<lfree, sem, size, old, owner, ops>>

(* os_sem_give, then os_malloc, which takes the semaphore again.           *)
Expand(t) ==
    /\ pc[t] = "giveMore"
    /\ IF size[t] = 0
       THEN GiveAnd(t, "app") /\ Return(t)
       ELSE /\ GiveAnd(t, "takeScan")
            /\ size' = [size EXCEPT ![t] = Rounded(@)]
            /\ UNCHANGED <<ptr, old>>
    /\ UNCHANGED <<heap, owner, asked, ops>>

(* memcpy, then os_free of the old block. *)
Copy(t) ==
    /\ pc[t] = "copy"
    /\ ptr' = [ptr EXCEPT ![t] = old[t]]
    /\ old' = [old EXCEPT ![t] = NoBlock]
    /\ Goto(t, "takeMark")
    /\ UNCHANGED <<heap, sem, size, owner, asked, ops>>

-----------------------------------------------------------------------------
Step(t) == \/ Enter(t)
           \/ Scan(t) \/ Cut(t) \/ GiveNew(t)
           \/ Mark(t) \/ Plug(t) \/ GiveEnd(t)
           \/ Measure(t) \/ ShrinkInPlace(t) \/ Expand(t) \/ Copy(t)

Call(t) == \/ \E n \in Ask : Malloc(t, n)
           \/ \E p \in Headers : Free(t, p) \/ \E n \in Ask : Realloc(t, p, n)

Next == \E t \in Task : Step(t) \/ Call(t)

Spec == Init /\ [][Next]_vars

(* A task in a call gets the processor now and then.                       *)
FairSpec == Spec /\ \A t \in Task : WF_vars(Step(t))

-----------------------------------------------------------------------------
(* Properties *)

MemBlock == [next : Offset, prev : Offset, used : BOOLEAN]

Memory(m) ==
    /\ DOMAIN m \subseteq Offset
    /\ m \in [DOMAIN m -> MemBlock]

TypeOK ==
    /\ Memory(mem)
    /\ lfree \in Headers /\ used_mem \in Int
    /\ value \in 0..1 /\ queue \in Seq(Task)
    /\ outcome \in [Task -> {"none", "waiting", "OS_OK"}]
    /\ pc \in [Task -> {"app", "copy"} \cup Taking \cup Inside]
    /\ size \in [Task -> 0..Size]
    /\ ptr \in [Task -> Offset \cup {NoBlock}]
    /\ old \in [Task -> Offset \cup {NoBlock}]
    /\ owner \in [Offset -> Task \cup {NoTask}]
    /\ asked \in [Offset -> 0..Size]
    /\ ops \in Uses

(* The blocks cover the heap without a gap or an overlap: the first is at  *)
(* 0, each ends where the next one begins, which knows it as prev, and the *)
(* last ends at heap_end.                                                  *)
TiledMem(m) ==
    /\ {0, End} \subseteq DOMAIN m
    /\ m[0].prev = 0 /\ m[End].used /\ m[End].next = End
    /\ \A p \in DOMAIN m \ {End} :
          /\ m[p].next \in DOMAIN m /\ m[p].next >= p + Header
          /\ \A q \in DOMAIN m : q <= p \/ m[p].next <= q
          /\ p # 0 => m[p].prev \in DOMAIN m /\ m[m[p].prev].next = p

Tiled == TiledMem(mem)

(* The blocks in use are those that os_malloc or os_realloc has returned,  *)
(* or is about to return, to exactly one task, and each has the room that  *)
(* was asked for.                                                          *)
BlocksOwned ==
    /\ {p \in Headers : mem[p].used /\ p # End} = {p \in Offset : owner[p] # NoTask}
    /\ \A p \in Offset : owner[p] # NoTask => Room(mem, p) >= asked[p]

-----------------------------------------------------------------------------
(* What keeps Tiled and BlocksOwned: who is inside is alone there, and the *)
(* block it has at hand is still what it was when it looked.               *)

Inner(t) == pc[t] \in Inside \/ outcome[t] = "OS_OK"

Exclusive ==
    /\ \A t \in Task : pc[t] \in Inside => outcome[t] # "OS_OK"
    /\ \A t \in Task : Inner(t) => value = 0
    /\ \A t, u \in Task : Inner(t) /\ Inner(u) => t = u

Has(t, p) == p \in Offset /\ owner[p] = t

FreeAt(t) == /\ ptr[t] \in Headers \ {End}
             /\ ~mem[ptr[t]].used

Progress(t) ==
    /\ pc[t] = "app" => old[t] = NoBlock
    /\ pc[t] = "cut" => FreeAt(t) /\ Room(mem, ptr[t]) >= size[t] /\ lfree <= ptr[t]
    /\ pc[t] \in {"takeMark", "mark"} => Has(t, ptr[t])
    /\ pc[t] = "plug" => FreeAt(t)
    /\ pc[t] \in {"takeMeasure", "measure", "split", "giveMore", "copy"} => Has(t, old[t])
    /\ pc[t] = "split" => size[t] + Header + MinSize < Room(mem, old[t])
    /\ pc[t] \in {"takeScan", "scan", "cut", "giveNew"} /\ old[t] # NoBlock => Has(t, old[t])
    /\ pc[t] \in {"giveNew", "copy"} /\ ptr[t] # NoBlock =>
          Has(t, ptr[t]) /\ ptr[t] # old[t]
    /\ pc[t] = "copy" => ptr[t] # NoBlock

HeapInv == TypeOK /\ Tiled /\ BlocksOwned /\ Exclusive /\ \A t \in Task : Progress(t)

-----------------------------------------------------------------------------
Quiet == \A t \in Task : pc[t] \notin Inside

(* Before heap_sem is given back, free neighbours are united and used_mem  *)
(* is what the blocks in use take, so that nothing is lost: when the tasks *)
(* have freed all, the heap is the one block that it was.                  *)
NothingLost ==
    Quiet =>
        /\ \A p \in Headers \ {End} :
              ~mem[p].used => mem[p].next = End \/ mem[mem[p].next].used
        /\ used_mem = MapThenSumSet(LAMBDA p : mem[p].next - p,
                                    {p \in Headers \ {End} : mem[p].used})
        /\ (\A p \in Offset : owner[p] = NoTask) => Headers = {0, End} /\ lfree = 0

(* "pointer to the lowest free block": os_malloc looks at every free block *)
(* while nobody has used os_realloc.                                       *)
LowestFree ==
    "realloc" \notin ops =>
        /\ lfree = End \/ ~mem[lfree].used
        /\ \A p \in Headers : mem[p].used \/ lfree <= p

(* os_realloc, which cuts a block without a look at lfree, is not used.    *)
LowInv == /\ LowestFree
          /\ "realloc" \notin ops =>
                \A t \in Task : pc[t] \notin {"takeMeasure", "measure", "split"}

(* Block p and the next one are not both free. *)
Apart(m, p) == \/ m[p].used \/ m[p].next = End \/ m[m[p].next].used

(* Free neighbours are united but for those of the block that somebody is  *)
(* at; used_mem is right at any time; and os_free lowers lfree.            *)
LossInv ==
    /\ \A p \in Headers \ {End} :
          \/ Apart(mem, p)
          \/ \E t \in Task : pc[t] = "plug" /\ ptr[t] \in {p, mem[p].next}
    /\ used_mem = MapThenSumSet(LAMBDA p : mem[p].next - p,
                                {p \in Headers \ {End} : mem[p].used})
    /\ (\A p \in Offset : owner[p] = NoTask) => lfree # End

(* Every call returns: heap_sem is given back on every path, before        *)
(* os_realloc calls os_malloc and os_free, and to the task that has waited *)
(* longest.                                                                *)
CallsEnd == \A t \in Task : (pc[t] # "app") ~> (pc[t] = "app")

(* "pointer to allocated memory or NULL if no free memory was found"       *)
NullOnlyWhenFull ==
    [][\A t \in Task : pc[t] = "scan" /\ pc'[t] = "giveNew"
           => FitsAnywhere(size[t]) = {}]_vars
=============================================================================
