------------------------------- MODULE OsSem --------------------------------
(***************************************************************************)
(* One counting semaphore of os_sem.c, used by tasks with every kind of    *)
(* timeout, by an interrupt handler and by the callback of a timer, on the *)
(* kernel of OsKernel.  Its pending_list is k.pend[Sem].                   *)
(*                                                                         *)
(* pc[t] is "app" in application code; "takeSched" between the critical    *)
(* section of os_sem_take and its os_sched, "takeBack" before it returns   *)
(* task->error; "sched" before the os_sched that ends a call; "delCheck"   *)
(* and "delNext" in the loop of os_list_resume_all, called by              *)
(* os_sem_delete outside any critical section.  arg[t] is the timeout of   *)
(* the os_sem_take t is in, Forever otherwise.                             *)
(***************************************************************************)
EXTENDS OsKernel

CONSTANTS
    Sem,        \* the semaphore
    Flag,       \* OS_IPC_FIFO or OS_IPC_PRIO
    Value,      \* its initial value
    MaxValue,   \* bound on the value
    Forever,    \* OS_WAIT_FOREVER
    Timeout,    \* the timeouts the application passes
    BasePrio,   \* the priority of each task
    MaxLock,    \* bound on the nesting of os_sched_lock
    Ops,        \* the functions the application uses
    Risky       \* usages the code does not survive, allowed one by one

NoWait == 0     \* OS_NO_WAIT

ASSUME SemAssumption ==
    /\ Sem \in Obj /\ Flag \in {"OS_IPC_FIFO", "OS_IPC_PRIO"}
    /\ MaxValue \in Nat /\ Value \in 0..MaxValue
    /\ Forever \in Nat \ {NoWait} /\ Timeout \subseteq 0..Forever
    /\ BasePrio \in [Task -> Prio] /\ MaxLock \in Nat /\ IsFiniteSet(Task)

VARIABLES k, value, pc, arg
vars == <<k, value, pc, arg>>

App == Task \ {Idle}
Step == {"app", "sched", "takeSched", "takeBack", "delCheck", "delNext"}

TypeOK == /\ k \in Kernel
          /\ value \in 0..MaxValue
          /\ pc \in [Task -> Step]
          /\ arg \in [Task -> Timeout \cup {Forever}]

Init == /\ k = Running(BasePrio)
        /\ value = Value
        /\ pc = [t \in Task |-> "app"]
        /\ arg = [t \in Task |-> Forever]

Waiters == ToSet(k.pend[Sem])

Runs(t) == k.cur = t /\ k.isr = 0
Calls(t, op) == Runs(t) /\ pc[t] = "app" /\ op \in Ops

Goto(t, step) == pc' = [pc EXCEPT ![t] = step]

(* The object is not deleted under the hands of another user. *)
Alive == "deleteShared" \in Risky \/ \A t \in Task : pc[t] \notin {"delCheck", "delNext"}
CanBlock == "blockLocked" \in Risky \/ k.lock = 0

-----------------------------------------------------------------------------
(* os_sem_take *)

TakeNow(t) ==
    /\ Calls(t, "take") /\ Alive /\ value > 0
    /\ value' = value - 1
    /\ UNCHANGED <<k, pc, arg>>

(* value = 0 and OS_NO_WAIT returns OS_TIMEOUT and changes nothing. *)
TakeWait(t, d) ==
    /\ Calls(t, "take") /\ t # Idle /\ Alive /\ CanBlock
    /\ value = 0 /\ d # NoWait
    /\ LET s == ListSuspend([k EXCEPT !.error[t] = "OS_OK"], Sem, t, Flag)
       IN  k' = IF d # Forever THEN TimerStart(s, t, d) ELSE s
    /\ arg' = [arg EXCEPT ![t] = d]
    /\ Goto(t, "takeSched")
    /\ UNCHANGED value

(* The value os_sem_take returns is k.error[t]. *)
TakeReturn(t) ==
    /\ Runs(t) /\ pc[t] = "takeBack"
    /\ arg' = [arg EXCEPT ![t] = Forever]
    /\ Goto(t, "app")
    /\ UNCHANGED <<k, value>>

-----------------------------------------------------------------------------
(* os_sem_give *)

GiveTo(s) == IF s.pend[Sem] # <<>> THEN ListResume(s, Sem) ELSE s

(* In a handler the os_sched that follows is part of the same step.        *)
IsrGiveTo(s) == IF s.pend[Sem] # <<>> THEN Sched(GiveTo(s)) ELSE s

GiveValue == /\ k.pend[Sem] = <<>> => value < MaxValue
             /\ value' = IF k.pend[Sem] = <<>> THEN value + 1 ELSE value

GiveNoSched(t) ==                                             \* mutant
    /\ Calls(t, "give") /\ Alive
    /\ k' = GiveTo(k)
    /\ GiveValue
    /\ UNCHANGED <<pc, arg>>

Give(t) ==
    /\ Calls(t, "give") /\ Alive
    /\ k' = GiveTo(k)
    /\ GiveValue
    /\ Goto(t, IF k.pend[Sem] # <<>> THEN "sched" ELSE "app")
    /\ UNCHANGED arg

(* The handler of another interrupt gives. *)
IsrGive ==
    /\ "isr" \in Ops /\ k.isr = 0 /\ Alive
    /\ k' = IsrGiveTo(k)
    /\ GiveValue
    /\ UNCHANGED <<pc, arg>>

-----------------------------------------------------------------------------
(* os_sem_reset resumes every waiter inside its critical section,          *)
(* os_sem_delete one by one, testing the list outside of any.              *)

Reset(t, v) ==
    /\ Calls(t, "reset") /\ Alive
    /\ k' = ListResumeAll(k, Sem)
    /\ value' = v
    /\ Goto(t, "sched")
    /\ UNCHANGED arg

Delete(t) ==
    /\ Calls(t, "delete") /\ Alive
    /\ "deleteShared" \in Risky \/ \A u \in Waiters : u \notin k.act
    /\ Goto(t, "delCheck")
    /\ UNCHANGED <<k, value, arg>>

DeleteCheck(t) ==
    /\ Runs(t) /\ pc[t] = "delCheck"
    /\ Goto(t, IF k.pend[Sem] # <<>> THEN "delNext" ELSE "app")
    /\ UNCHANGED <<k, value, arg>>

(* On an empty list the code takes the list head for a task. *)
DeleteNext(t) ==
    /\ Runs(t) /\ pc[t] = "delNext" /\ k.pend[Sem] # <<>>
    /\ k' = WakeHead(k, Sem)
    /\ Goto(t, "delCheck")
    /\ UNCHANGED <<value, arg>>

-----------------------------------------------------------------------------
(* The scheduler, the clock and the callback of the application's timer *)

Schedule(t) ==
    /\ Runs(t) /\ pc[t] \in {"sched", "takeSched"}
    /\ k' = Sched(k)
    /\ Goto(t, IF pc[t] = "sched" THEN "app" ELSE "takeBack")
    /\ UNCHANGED <<value, arg>>

Lock(t) ==
    /\ Calls(t, "lock") /\ k.lock < MaxLock
    /\ k' = [k EXCEPT !.lock = @ + 1]
    /\ UNCHANGED <<value, pc, arg>>

Unlock(t) ==
    /\ Calls(t, "lock") /\ k.lock > 0
    /\ k' = [k EXCEPT !.lock = @ - 1]
    /\ Goto(t, IF k.lock = 1 THEN "sched" ELSE "app")
    /\ UNCHANGED <<value, arg>>

StartTimer(t, x) ==
    /\ Calls(t, "timer") /\ x \in UserTimer
    /\ k' = TimerStart(k, x, Period[x])
    /\ UNCHANGED <<value, pc, arg>>

Tick ==
    /\ k.isr = 0
    /\ k' = TickIncrease(k)
    /\ UNCHANGED <<value, pc, arg>>

TaskTimerFire ==
    /\ Due(k) /\ k.n \in Task
    /\ k' = TimerAfter(TaskTimeout(TimerTake(k), k.n), k.n)
    /\ UNCHANGED <<value, pc, arg>>

(* The callback of a user timer gives the semaphore below the bound, and   *)
(* leaves it alone while a timed waiter is in the list.                    *)
CallbackGives ==
    /\ Alive
    /\ k.pend[Sem] = <<>> => value < MaxValue
    /\ "callbackTimed" \in Risky \/ \A t \in Waiters : t \notin k.act

UserTimerFire ==
    /\ Due(k) /\ k.n \in UserTimer
    /\ LET s == TimerTake(k)
       IN  IF CallbackGives
           THEN k' = TimerAfter(IsrGiveTo(s), k.n) /\ GiveValue
           ELSE k' = TimerAfter(s, k.n) /\ UNCHANGED value
    /\ UNCHANGED <<pc, arg>>

TickEnd ==
    /\ k.isr = 1 /\ ~Due(k)
    /\ k' = IsrLeave(k)
    /\ UNCHANGED <<value, pc, arg>>

Call(t) ==
    \/ TakeNow(t) \/ Give(t) \/ Delete(t) \/ Lock(t) \/ Unlock(t)
    \/ \E d \in Timeout : TakeWait(t, d)
    \/ \E v \in 0..MaxValue : Reset(t, v)
    \/ \E x \in UserTimer : StartTimer(t, x)

Continue(t) == Schedule(t) \/ TakeReturn(t) \/ DeleteCheck(t) \/ DeleteNext(t)

Next == \/ \E t \in Task : Call(t) \/ Continue(t)
        \/ IsrGive \/ Tick \/ TaskTimerFire \/ UserTimerFire \/ TickEnd

Spec == Init /\ [][Next]_vars

(* Ticks keep coming and their handler returns; a task that gets the       *)
(* processor again and again executes its next kernel instruction.         *)
Fairness ==
    /\ WF_vars(Tick) /\ WF_vars(TaskTimerFire \/ UserTimerFire \/ TickEnd)
    /\ \A t \in Task : SF_vars(Continue(t))

FairSpec == Spec /\ Fairness

-----------------------------------------------------------------------------
(* Properties *)

(* A task is in the pending list exactly while it is suspended inside      *)
(* os_sem_take; with a timeout its timer runs, without one it does not.    *)
WaitersExact ==
    \A t \in Task :
        /\ t \in Waiters <=> k.stat[t] = "SUSPEND"
        /\ t \in Waiters => pc[t] \in {"takeSched", "takeBack"}
        /\ t \in ToSet(k.timers) <=> t \in Waiters /\ arg[t] # Forever

(* With OS_IPC_PRIO the list is ordered by priority. *)
PendingByPriority ==
    Flag = "OS_IPC_PRIO" =>
        \A i, j \in DOMAIN k.pend[Sem] :
            i < j => k.prio[k.pend[Sem][i]] <= k.prio[k.pend[Sem][j]]

(* "the task shall wait": a take that comes back has left the list. *)
WaitsWhenUnavailable ==
    \A t \in Task : Runs(t) /\ pc[t] = "takeBack" => t \notin Waiters

(* The pending list holds the tasks that wait, all of them and in the      *)
(* order in which they are to be served.                                   *)
PendingExact == WaitersExact /\ PendingByPriority /\ WaitsWhenUnavailable

(* Whenever application code runs and the scheduler is not locked, no task *)
(* of a more urgent level is READY: every path that makes one READY ends   *)
(* in os_sched, interrupts and timeouts included.                          *)
MostUrgentRuns ==
    k.isr = 0 /\ k.lock = 0 /\ pc[k.cur] = "app"
        => \A t \in Task : k.stat[t] = "READY" => k.prio[k.cur] <= k.prio[t]

(* OS_ASSERT(task->stat == OS_TASK_SUSPEND) of os_task_timeout. *)
TimeoutOnlyWhenSuspended ==
    Due(k) /\ k.n \in Task => k.stat[k.n] = "SUSPEND"

(* "get next suspend task": os_list_resume_all finds one when it looks.    *)
NextIsSuspended ==
    \A t \in Task : Runs(t) /\ pc[t] = "delNext" => k.pend[Sem] # <<>>

(* A take with a timeout comes to an end, whatever the others do.          *)
TimedTakeEnds ==
    \A t \in App : t \in Waiters /\ arg[t] # Forever ~> t \notin Waiters

(* The abstract semaphore: a task that left the pending list and has not   *)
(* returned yet has the outcome k.error[t].                                *)
Outcome == [t \in Task |->
    IF pc[t] \notin {"takeSched", "takeBack"} THEN "none"
    ELSE IF t \in Waiters THEN "waiting" ELSE k.error[t]]

Abstract == INSTANCE Semaphore WITH
    Client <- Task, Fifo <- Flag = "OS_IPC_FIFO", queue <- k.pend[Sem], outcome <- Outcome

ImplementsSemaphore == Abstract!Spec
=============================================================================
