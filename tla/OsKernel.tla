------------------------------ MODULE OsKernel ------------------------------
(***************************************************************************)
(* The kernel state of lib/os and the functions that change it: os_list,   *)
(* os_sched, os_task, os_timer and os_ipc.  The state is one record k, and *)
(* every C function f(task, ...) is an operator F(k, task, ...) whose value*)
(* is the state f leaves, so that a handler which calls several of them in *)
(* one critical section is a composition of operators and one atomic step. *)
(*                                                                         *)
(* A task's node tlist sits in at most one list at a time.  The heads are  *)
(*   k.ready[p]  os_ready_task_priority_list[p]                            *)
(*   k.pend[o]   the pending_list of object o                              *)
(*   k.defunct   os_defunct_task_list                                      *)
(* and a head with its nodes is a sequence: OsList shows that the pointer  *)
(* structure implements one.  The bit a task sets in the ready bitmap      *)
(* (priority_group, priority_mask) is k.mask[t], the bitmap is the set     *)
(* k.bitmap of the bits that are set; a smaller number is more urgent.     *)
(*                                                                         *)
(* os_timer_list is k.timers.  k.left[x] is the number of ticks left until *)
(* timer x is due, startup_tick + interval_tick - os_tick, or Overdue when *)
(* that is negative; OsTimer has the tick arithmetic of the code.  k.act   *)
(* is the set of timers whose flag has OS_TIMER_ACTIVATED.  The timer      *)
(* built into a task has the task's name.                                  *)
(***************************************************************************)
EXTENDS Integers, Sequences, SequencesExt

CONSTANTS
    Task,       \* task control blocks, the idle task included
    Idle,       \* the idle task of os_idle.c
    NoTask,     \* os_current_task before the scheduler starts
    Prio,       \* the priority levels 0..OS_TASK_PRIORITY_MAX-1
    Obj,        \* the objects that own a pending_list
    UserTimer,  \* timers of the application
    Period,     \* their interval_tick
    Slice,      \* slice_tick of each task
    Cleanup,    \* the tasks whose cleanup function is set
    Periodic,   \* those started with OS_TIMER_PERIODIC
    ListHead    \* the head of os_timer_list, met at the end of a traversal

ASSUME KernelAssumption ==
    /\ Idle \in Task /\ NoTask \notin Task
    /\ Prio \subseteq Nat /\ Prio # {}
    /\ UserTimer \cap Task = {} /\ ListHead \notin Task \cup UserTimer
    /\ Period \in [UserTimer -> Nat \ {0}] /\ Periodic \subseteq UserTimer
    /\ Slice \in [Task -> Nat \ {0}] /\ Cleanup \subseteq Task

Timer == Task \cup UserTimer
Stat == {"INIT", "READY", "SUSPEND", "CLOSE"}
Errno == {"OS_OK", "OS_ERROR", "OS_TIMEOUT"}
Overdue == -1

Kernel == [ready   : [Prio -> Seq(Task)],
           pend    : [Obj -> Seq(Task)],
           defunct : Seq(Task),
           bitmap  : SUBSET Prio,
           stat    : [Task -> Stat],
           prio    : [Task -> Prio],
           mask    : [Task -> SUBSET Prio],  \* {} until the task is started
           error   : [Task -> Errno],
           rem     : [Task -> Nat \ {0}],    \* remaining_tick between two ticks
           cur     : Task \cup {NoTask},
           lock    : Nat,
           timers  : Seq(Timer),
           act     : SUBSET Timer,
           left    : [Timer -> Nat \cup {Overdue}],
           isr     : 0..1,                   \* os_isr_nest, SysTick only
           n       : Timer \cup {ListHead}]  \* the cursor of os_timer_check

(* os_sched_init and the task blocks os_task_init has filled. *)
Booted(prio) ==
    [ready |-> [p \in Prio |-> <<>>], pend |-> [o \in Obj |-> <<>>],
     defunct |-> <<>>, bitmap |-> {},
     stat |-> [t \in Task |-> "INIT"], prio |-> prio,
     mask |-> [t \in Task |-> {}], error |-> [t \in Task |-> "OS_OK"],
     rem |-> Slice, cur |-> NoTask, lock |-> 0, timers |-> <<>>, act |-> {},
     left |-> [x \in Timer |-> 0], isr |-> 0, n |-> ListHead]

-----------------------------------------------------------------------------
(* os_list.c: the lists as sequences *)

(* os_list_remove on a list that may hold e: nothing happens when it does  *)
(* not, since a node outside every list is linked to itself.               *)
Unlink(s, e) ==
    IF \E i \in DOMAIN s : s[i] = e
    THEN RemoveAt(s, CHOOSE i \in DOMAIN s : s[i] = e)
    ELSE s

TlistRemove(k, t) ==
    [k EXCEPT !.ready = [p \in Prio |-> Unlink(@[p], t)],
              !.pend = [o \in Obj |-> Unlink(@[o], t)],
              !.defunct = Unlink(@, t)]

-----------------------------------------------------------------------------
(* os_sched.c *)

SchedInsert(k, t) ==
    [k EXCEPT !.stat[t] = "READY",
              !.ready[k.prio[t]] = Append(@, t),
              !.bitmap = @ \cup k.mask[t]]

SchedRemoveKeepsBit(k, t) == TlistRemove(k, t)                \* mutant

SchedRemove(k, t) ==
    LET r == TlistRemove(k, t)
    IN  IF r.ready[k.prio[t]] = <<>>
        THEN [r EXCEPT !.bitmap = @ \ k.mask[t]]
        ELSE r

HighestReadyIsLast(k) ==                                      \* mutant
    CHOOSE p \in k.bitmap : \A q \in k.bitmap : p >= q

(* __ffs over group and bitmap: the most urgent level that has its bit set. *)
HighestReady(k) == CHOOSE p \in k.bitmap : \A q \in k.bitmap : p <= q

SchedHead(k) == k.ready[HighestReady(k)][1]

Sched(k) == IF k.lock = 0 THEN [k EXCEPT !.cur = SchedHead(k)] ELSE k

-----------------------------------------------------------------------------
(* os_timer.c, for a caller inside a critical section *)

(* Where the loop stops that looks in s for the first member of A.         *)
FirstIn(s, A) ==
    CHOOSE i \in 1..Len(s) + 1 :
        /\ \A j \in 1..i - 1 : s[j] \notin A
        /\ i <= Len(s) => s[i] \in A

(* timeout_tick - current_tick is compared unsigned: a timer that was due  *)
(* in an earlier tick looks like the last one.                             *)
DueAfter(k, d) == {x \in Timer : k.left[x] > d \/ k.left[x] = Overdue}

TimerStart(k, x, d) ==
    LET s == Unlink(k.timers, x)
    IN  [k EXCEPT !.timers = InsertAt(s, FirstIn(s, DueAfter(k, d)), x),
                  !.left[x] = d,
                  !.act = @ \cup {x}]

TimerStop(k, x) ==
    IF x \in k.act
    THEN [k EXCEPT !.timers = Unlink(@, x), !.act = @ \ {x}]
    ELSE k

TimerDelete(k, x) == [k EXCEPT !.timers = Unlink(@, x)]

-----------------------------------------------------------------------------
(* os_task.c, for a caller inside a critical section *)

(* os_task_init: the nodes are linked to themselves without a removal, and *)
(* priority_group and priority_mask are left as they were.                 *)
TaskInit(k, t, p) ==
    [k EXCEPT !.stat[t] = "INIT", !.prio[t] = p, !.error[t] = "OS_OK",
              !.rem[t] = Slice[t], !.act = @ \ {t}, !.left[t] = 0]

(* os_task_startup up to its call of os_task_resume *)
TaskStarting(k, t) ==
    [k EXCEPT !.mask[t] = {k.prio[t]}, !.stat[t] = "SUSPEND"]

(* The critical section of os_task_suspend; the check before it is the     *)
(* caller's, since a task that is not READY is left alone (OS_ERROR).      *)
SuspendReady(k, t) ==
    TimerStop(SchedRemove([k EXCEPT !.stat[t] = "SUSPEND"], t), t)

TaskSuspend(k, t) == IF k.stat[t] = "READY" THEN SuspendReady(k, t) ELSE k

ResumeUnlinkKeepsTimer(k, t) == TlistRemove(k, t)             \* mutant

(* The first of the two critical sections of os_task_resume. *)
ResumeUnlink(k, t) == TimerStop(TlistRemove(k, t), t)

TaskResume(k, t) ==
    IF k.stat[t] = "SUSPEND"
    THEN SchedInsert(ResumeUnlink(k, t), t)
    ELSE k

PrioritySetInPlace(k, t, p) ==                                \* mutant
    [k EXCEPT !.prio[t] = p, !.mask[t] = {p}]

PrioritySet(k, t, p) ==
    IF k.stat[t] = "READY"
    THEN SchedInsert([SchedRemove(k, t) EXCEPT !.prio[t] = p,
                                               !.mask[t] = {p}], t)
    ELSE [k EXCEPT !.prio[t] = p, !.mask[t] = {p}]

(* The critical section of os_task_yield: the current task moves to the    *)
(* tail of its level if it is ready and shares it (next # prev).           *)
Shares(k) == k.stat[k.cur] = "READY" /\ Len(k.ready[k.prio[k.cur]]) > 1

RotateStays(k) == k                                           \* mutant

Rotate(k) == [k EXCEPT !.ready[k.prio[k.cur]] = Append(Unlink(@, k.cur), k.cur)]

Yield(k) == IF Shares(k) THEN Sched(Rotate(k)) ELSE k

(* os_list_insert_after the head of os_defunct_task_list *)
Defunct(k, t) == [k EXCEPT !.defunct = <<t>> \o @]

TaskExit(k, t) ==
    LET closed == TimerDelete([SchedRemove(k, t) EXCEPT !.stat[t] = "CLOSE"], t)
    IN  IF t \in Cleanup THEN Defunct(closed, t) ELSE closed

TaskTimeoutNoError(k, t) ==                                   \* mutant
    Sched(SchedInsert(TlistRemove(k, t), t))

(* os_task_timeout, the callback of a task's own timer.  Its assertion     *)
(* OS_ASSERT(task->stat == OS_TASK_SUSPEND) is TimeoutOnlyWhenSuspended.   *)
TaskTimeout(k, t) ==
    Sched(SchedInsert(TlistRemove([k EXCEPT !.error[t] = "OS_TIMEOUT"], t), t))

-----------------------------------------------------------------------------
(* os_ipc.c *)

ListSuspendAtTail(k, o, t, flag) ==                           \* mutant
    [TaskSuspend(k, t) EXCEPT !.pend[o] = Append(@, t)]

ListSuspendSorted(k, o, t, flag) ==                           \* mutant
    LET s == TaskSuspend(k, t)
        i == FirstIn(s.pend[o], {u \in Task : s.prio[t] < s.prio[u]})
    IN  [s EXCEPT !.pend[o] = InsertAt(@, i, t)]

ListSuspend(k, o, t, flag) ==
    LET s == TaskSuspend(k, t)
        i == IF flag = "OS_IPC_FIFO"
             THEN Len(s.pend[o]) + 1
             ELSE FirstIn(s.pend[o], {u \in Task : s.prio[t] < s.prio[u]})
    IN  [s EXCEPT !.pend[o] = InsertAt(@, i, t)]

(* os_list_resume; the caller has seen that the list is not empty *)
ListResume(k, o) == TaskResume(k, k.pend[o][1])

(* One turn of os_list_resume_all's loop, and the loop of a caller that is *)
(* in a critical section: turn[i] is the state after i tasks.              *)
ResumeError(k, t) == TaskResume([k EXCEPT !.error[t] = "OS_ERROR"], t)

WakeHead(k, o) == ResumeError(k, k.pend[o][1])

ListResumeAll(k, o) ==
    LET turn[i \in 0..Len(k.pend[o])] ==
            IF i = 0 THEN k ELSE WakeHead(turn[i - 1], o)
    IN  turn[Len(k.pend[o])]

-----------------------------------------------------------------------------
(* os_tick.c and the traversal of os_timer_check *)

(* One tick less is left for every timer of the list; the count of another *)
(* one is of no use any more.                                              *)
Elapse(k) ==
    [k EXCEPT !.left = [x \in Timer |->
        IF x \notin ToSet(k.timers) THEN 0
        ELSE IF @[x] = Overdue THEN @[x] ELSE @[x] - 1]]

(* The time slice of the current task is charged, and at its end the task  *)
(* yields.                                                                 *)
Charge(k) ==
    IF k.rem[k.cur] = 1
    THEN Yield([k EXCEPT !.rem[k.cur] = Slice[k.cur]])
    ELSE [k EXCEPT !.rem[k.cur] = @ - 1]

TickIncreaseSkipsCheck(k) ==                                  \* mutant
    [Charge(Elapse(k)) EXCEPT
        !.isr = 1,
        !.n = IF k.timers = <<>> \/ k.rem[k.cur] = 1 THEN ListHead
                                                     ELSE k.timers[1]]

(* The clock ISR up to the loop of os_timer_check. *)
TickIncrease(k) ==
    [Charge(Elapse(k)) EXCEPT
        !.isr = 1,
        !.n = IF k.timers = <<>> THEN ListHead ELSE k.timers[1]]

(* n->next in os_timer_list; a node outside the list is linked to itself. *)
NextNode(k, x) ==
    IF x \notin ToSet(k.timers) THEN x
    ELSE LET i == CHOOSE j \in DOMAIN k.timers : k.timers[j] = x
         IN  IF i = Len(k.timers) THEN ListHead ELSE k.timers[i + 1]

(* The loop of os_timer_check goes on: the cursor's timer is due. *)
Due(k) == k.isr = 1 /\ k.n # ListHead /\ k.left[k.n] <= 0

(* "move node to the next" and "remove timer from timer list firstly" *)
TimerTake(k) == [k EXCEPT !.n = NextNode(k, k.n),
                          !.timers = Unlink(@, k.n)]

(* After the callback: a periodic timer that is still active starts again. *)
TimerAfter(k, x) ==
    IF x \in Periodic /\ x \in k.act
    THEN TimerStart(k, x, Period[x])
    ELSE [k EXCEPT !.act = @ \ {x}]

(* os_timer_check breaks off or reaches the head; the ISR returns. *)
IsrLeave(k) == [k EXCEPT !.isr = 0, !.n = ListHead]

-----------------------------------------------------------------------------
(* The state after main(): every task started once, the first one running. *)
Running(prio) ==
    Sched([Booted(prio) EXCEPT
        !.ready = [p \in Prio |-> SetToSeq({t \in Task : prio[t] = p})],
        !.bitmap = {prio[t] : t \in Task},
        !.stat = [t \in Task |-> "READY"],
        !.mask = [t \in Task |-> {prio[t]}]])
=============================================================================
