------------------------------ MODULE OsMpool ------------------------------
(***************************************************************************)
(* A memory pool of os_mpool.c.  The first word of a block is next[b]: the *)
(* next free block, or the pool itself while the block is allocated.  The  *)
(* tasks that wait are in k.pend[Pool], the last to come first, and are    *)
(* counted in suspended (suspend_task_count).  own[t] is the set of the    *)
(* blocks that task t has; a block is freed by the task that has it, or by *)
(* an interrupt handler it was given to.                                   *)
(***************************************************************************)
EXTENDS OsWait, Chains

CONSTANTS Pool, Block, Nil      \* Nil is NULL

ASSUME MpoolAssumption ==
    /\ Pool \in Obj /\ Block # {} /\ IsFiniteSet(Block)
    /\ Nil \notin Block /\ Pool \notin Block /\ Pool # Nil

VARIABLES mp,       \* [list, next, free, suspended]
          own
mpvars == <<mp, own>>

MpoolStep == {"allocBack", "poolCheck", "poolNext"}

MemPool == [list : Block \cup {Nil}, next : [Block -> Block \cup {Nil, Pool}],
            free : 0..Cardinality(Block), suspended : 0..Cardinality(Task)]

MpoolInit ==
    LET s == SetToSeq(Block)
    IN  /\ mp = [list |-> s[1],
                 next |-> Threaded(s, Nil),
                 free |-> Cardinality(Block), suspended |-> 0]
        /\ own = [t \in Task |-> {}]

MpoolAlive == \A t \in Task : pc[t] \notin {"poolCheck", "poolNext"}

-----------------------------------------------------------------------------
(* os_mpool_alloc *)

AllocateUnmarked(t) ==                                        \* mutant
    /\ mp.free > 0
    /\ mp' = [mp EXCEPT !.free = @ - 1, !.list = mp.next[mp.list]]
    /\ own' = [own EXCEPT ![t] = @ \cup {mp.list}]
    /\ Finish(t)
    /\ UNCHANGED <<k, resched>>

Allocate(t) ==
    /\ mp.free > 0
    /\ mp' = [mp EXCEPT !.free = @ - 1, !.list = mp.next[mp.list],
                        !.next[mp.list] = Pool]
    /\ own' = [own EXCEPT ![t] = @ \cup {mp.list}]
    /\ Finish(t)
    /\ UNCHANGED <<k, resched>>

(* os_list_insert_after the head of the list: not os_list_suspend *)
PoolWait(t, d) ==
    /\ mp.free = 0 /\ d # NoWait
    /\ LET s == TaskSuspend([k EXCEPT !.error[t] = "OS_OK"], t)
           w == [s EXCEPT !.pend[Pool] = <<t>> \o @]
       IN  k' = IF d = Forever THEN w ELSE TimerStart(w, t, d)
    /\ mp' = [mp EXCEPT !.suspended = @ + 1]
    /\ arg' = [arg EXCEPT ![t] = d]
    /\ since' = [since EXCEPT ![t] = 0]
    /\ Goto(t, "allocBack") /\ ThenSched(t)
    /\ UNCHANGED <<val, todo, own>>

MpoolAlloc(t) == Calls(t) /\ MpoolAlive /\ Allocate(t)

MpoolAllocWait(t, d) == Calls(t) /\ MpoolAlive /\ PoolWait(t, d)

AllocBack(t) == At(t, "allocBack") /\ k.error[t] = "OS_OK" /\ Allocate(t)

AllocAgain(t) == /\ At(t, "allocBack") /\ k.error[t] = "OS_OK"
                 /\ PoolWait(t, Remaining(t))

(* NULL, after os_errno_set: with OS_NO_WAIT at once, or when the time to  *)
(* wait is over.                                                           *)
NoBlock(t) == /\ mp.free = 0
              /\ k' = [k EXCEPT !.error[t] = "OS_TIMEOUT"]
              /\ Finish(t)
              /\ UNCHANGED <<resched, mp, own>>

MpoolPoll(t) == Calls(t) /\ MpoolAlive /\ NoBlock(t)

AllocTimesOut(t) == /\ At(t, "allocBack") /\ k.error[t] = "OS_OK"
                    /\ Remaining(t) = NoWait
                    /\ NoBlock(t)

(* NULL, for the error that ended the wait. *)
AllocFails(t) ==
    /\ At(t, "allocBack") /\ k.error[t] # "OS_OK"
    /\ Finish(t)
    /\ UNCHANGED <<k, resched, mp, own>>

-----------------------------------------------------------------------------
(* os_mpool_free *)

FreedForNobody(b) ==                                          \* mutant
    [mp EXCEPT !.free = @ + 1, !.next[b] = mp.list, !.list = b]

Freed(b) == [mp EXCEPT !.free = @ + 1, !.next[b] = mp.list, !.list = b,
                       !.suspended = IF @ > 0 THEN @ - 1 ELSE @]

(* On an empty list the code takes the list head for a task. *)
PoolResume(s) ==
    LET t == s.pend[Pool][1] IN TaskResume([s EXCEPT !.error[t] = "OS_OK"], t)

FindsTask == mp.suspended > 0 => k.pend[Pool] # <<>>

MpoolFree(t, b) ==
    /\ Calls(t) /\ MpoolAlive /\ b \in own[t] /\ FindsTask
    /\ own' = [own EXCEPT ![t] = @ \ {b}]
    /\ mp' = Freed(b)
    /\ IF mp.suspended > 0 THEN k' = PoolResume(k) /\ ThenSched(t)
                           ELSE UNCHANGED <<k, resched>>
    /\ UNCHANGED <<pc, arg, since, val, todo>>

MpoolIsrFree(b) ==
    /\ k.isr = 0 /\ MpoolAlive /\ FindsTask
    /\ \E t \in Task : /\ b \in own[t]
                       /\ own' = [own EXCEPT ![t] = @ \ {b}]
    /\ mp' = Freed(b)
    /\ k' = IF mp.suspended > 0 THEN Sched(PoolResume(k)) ELSE k
    /\ UNCHANGED <<pc, resched, arg, since, val, todo>>

-----------------------------------------------------------------------------
(* os_mpool_delete: the list is tested outside of the critical section of  *)
(* each turn.  Nobody else uses the pool, except those who wait without a  *)
(* timeout.                                                                *)

MpoolDelete(t) ==
    /\ Calls(t) /\ MpoolAlive
    /\ \A u \in Task : pc[u] \in MpoolStep =>
           u \in Waiters(Pool) /\ arg[u] = Forever
    /\ Goto(t, "poolCheck")
    /\ UNCHANGED <<k, resched, arg, since, val, todo, mp, own>>

PoolCheck(t) ==
    /\ At(t, "poolCheck")
    /\ Goto(t, IF k.pend[Pool] # <<>> THEN "poolNext" ELSE "app")
    /\ UNCHANGED <<k, resched, arg, since, val, todo, mp, own>>

PoolNext(t) ==
    /\ At(t, "poolNext") /\ k.pend[Pool] # <<>>
    /\ k' = WakeHead(k, Pool)
    /\ mp' = [mp EXCEPT !.suspended = @ - 1]
    /\ Goto(t, "poolCheck")
    /\ UNCHANGED <<resched, arg, since, val, todo, own>>

-----------------------------------------------------------------------------
MpoolCall(t, D) == \/ MpoolAlloc(t) \/ MpoolPoll(t) \/ MpoolDelete(t)
                   \/ \E d \in D : MpoolAllocWait(t, d)
                   \/ \E b \in Block : MpoolFree(t, b)

MpoolContinue(t) == \/ AllocBack(t) \/ AllocAgain(t)
                    \/ AllocTimesOut(t) \/ AllocFails(t)
                    \/ PoolCheck(t) \/ PoolNext(t)

-----------------------------------------------------------------------------
(* Properties *)

FreeList == Chain(mp.next, mp.list, Nil)

(* Every block is in the free list or belongs to one task; the first word  *)
(* of an allocated one leads back to its pool.                             *)
BlocksExact ==
    /\ ToSet(FreeList) = {b \in Block : \A t \in Task : b \notin own[t]}
    /\ Len(FreeList) = mp.free /\ Cardinality(ToSet(FreeList)) = mp.free
    /\ \A t, u \in Task : t # u => own[t] \cap own[u] = {}
    /\ \A t \in Task : \A b \in own[t] : mp.next[b] = Pool

(* suspend_task_count is the length of the list, so that os_mpool_free     *)
(* finds a task when it looks for one, and while somebody waits there are  *)
(* as many tasks on their way as there are free blocks.                    *)
SuspendCountExact ==
    /\ mp.suspended = Len(k.pend[Pool])
    /\ Waiters(Pool) # {} =>
          mp.free <= Cardinality({t \in Task : /\ pc[t] = "allocBack"
                                               /\ t \notin Waiters(Pool)
                                               /\ k.error[t] = "OS_OK"})
=============================================================================
