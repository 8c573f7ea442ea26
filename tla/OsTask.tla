------------------------------- MODULE OsTask -------------------------------
(***************************************************************************)
(* Tasks that use the task API of os_task.c, the scheduler lock, the idle  *)
(* task and the clock interrupt, with interrupts taken between any two     *)
(* critical sections.                                                      *)
(*                                                                         *)
(* A task executes when it is os_current_task and no ISR is active.  pc[t] *)
(* is where it is: "app" in application code, else inside an API function  *)
(* at the step pc[t] names, with arg[t] the task that call works on.       *)
(* An application may call anything the API's comments allow; Risky lists  *)
(* the calls the code does not survive, so that each can be allowed alone. *)
(***************************************************************************)
EXTENDS OsKernel

CONSTANTS
    BasePrio,   \* the priority os_task_init gives each task
    Levels,     \* the priorities the application asks for
    Delay,      \* the arguments of os_task_sleep
    Wakes,      \* the task the callback of each user timer resumes
    MaxLock,    \* bound on the nesting of os_sched_lock
    Ops,        \* the API functions the application uses
    Risky       \* see Managed, CanBlock, Delete, TimerFire

ASSUME TaskAssumption ==
    /\ BasePrio \in [Task -> Prio] /\ Levels \subseteq Prio
    /\ Delay \subseteq Nat
    /\ Wakes \in [UserTimer -> Task \ {Idle}] /\ MaxLock \in Nat

VARIABLES k, pc, arg
vars == <<k, pc, arg>>

App == Task \ {Idle}
Step == {"app", "sched", "exitSched", "sleepSched", "sleepBack",
         "startup1", "startup2", "resume1", "resume2", "suspend1",
         "delete2", "delete3", "delete4", "cleanup"}

TypeOK == /\ k \in Kernel
          /\ pc \in [Task -> Step]
          /\ arg \in [Task -> Task \cup {NoTask}]

Init == /\ k = Booted(BasePrio)
        /\ pc = [t \in Task |-> "app"]
        /\ arg = [t \in Task |-> NoTask]

(* t is the task the processor executes, in application code or at a step. *)
Runs(t) == k.cur = t /\ k.isr = 0
Calls(t, op) == Runs(t) /\ pc[t] = "app" /\ op \in Ops
At(t, step) == Runs(t) /\ pc[t] = step

Goto(t, step) == /\ pc' = [pc EXCEPT ![t] = step]
                 /\ UNCHANGED arg
GotoOn(t, step, u) == /\ pc' = [pc EXCEPT ![t] = step]
                      /\ arg' = [arg EXCEPT ![t] = u]

(* Nobody is inside os_task_startup, resume, suspend or delete for u.      *)
Managed(u) == "race" \in Risky \/ \A a \in Task : arg[a] # u

(* Blocking calls are not made while the scheduler is locked. *)
CanBlock == "blockLocked" \in Risky \/ k.lock = 0

-----------------------------------------------------------------------------
(* main(): the tasks are started before os_start, with interrupts masked *)

BootStartup(t) ==
    /\ k.cur = NoTask /\ t # Idle /\ k.stat[t] = "INIT"
    /\ k' = TaskResume(TaskStarting(k, t), t)
    /\ UNCHANGED <<pc, arg>>

Start ==
    /\ k.cur = NoTask
    /\ k' = Sched(TaskResume(TaskStarting(k, Idle), Idle))
    /\ UNCHANGED <<pc, arg>>

-----------------------------------------------------------------------------
(* os_sched.c *)

Schedule(t) ==
    /\ pc[t] \in {"sched", "exitSched", "sleepSched"} /\ Runs(t)
    /\ k' = Sched(k)
    /\ Goto(t, CASE pc[t] = "sched" -> "app"
                 [] pc[t] = "sleepSched" -> "sleepBack"
                 [] pc[t] = "exitSched" -> "exitSched")

Lock(t) ==
    /\ Calls(t, "lock") /\ k.lock < MaxLock
    /\ k' = [k EXCEPT !.lock = @ + 1]
    /\ UNCHANGED <<pc, arg>>

Unlock(t) ==
    /\ Calls(t, "unlock")
    /\ k' = [k EXCEPT !.lock = IF @ > 0 THEN @ - 1 ELSE 0]
    /\ Goto(t, IF k.lock <= 1 THEN "sched" ELSE "app")

-----------------------------------------------------------------------------
(* os_task.c *)

Reinit(t, u, p) ==
    /\ Calls(t, "init") /\ u \in App \ {t} /\ Managed(u)
    /\ k.stat[u] = "CLOSE" /\ u \notin ToSet(k.defunct)
    /\ k' = TaskInit(k, u, p)
    /\ GotoOn(u, "app", NoTask)

Startup(t, u) ==
    /\ Calls(t, "startup") /\ k.stat[u] = "INIT" /\ Managed(u)
    /\ k' = TaskStarting(k, u)
    /\ GotoOn(t, "startup1", u)

ResumeAnyState(t, u) ==                                       \* mutant
    /\ Calls(t, "resume") /\ u # t /\ Managed(u)
    /\ GotoOn(t, "resume1", u)
    /\ UNCHANGED k

Resume(t, u) ==
    /\ Calls(t, "resume") /\ k.stat[u] = "SUSPEND" /\ Managed(u)
    /\ "resumeTimed" \in Risky \/ u \notin k.act
    /\ GotoOn(t, "resume1", u)
    /\ UNCHANGED k

ResumeFirst(t) ==
    /\ pc[t] \in {"startup1", "resume1"} /\ Runs(t)
    /\ k' = ResumeUnlink(k, arg[t])
    /\ Goto(t, IF pc[t] = "startup1" THEN "startup2" ELSE "resume2")

ResumeSecond(t) ==
    /\ pc[t] \in {"startup2", "resume2"} /\ Runs(t)
    /\ k' = SchedInsert(k, arg[t])
    /\ GotoOn(t, IF pc[t] = "startup2" THEN "sched" ELSE "app", NoTask)

(* A task that suspends itself calls os_sched next, as the @note asks. *)
Suspend(t, u) ==
    /\ Calls(t, "suspend") /\ u # Idle /\ k.stat[u] = "READY" /\ Managed(u)
    /\ u = t => CanBlock
    /\ GotoOn(t, "suspend1", u)
    /\ UNCHANGED k

SuspendRest(t) ==
    /\ At(t, "suspend1")
    /\ k' = SuspendReady(k, arg[t])
    /\ GotoOn(t, IF arg[t] = t THEN "sched" ELSE "app", NoTask)

YieldCall(t) ==
    /\ Calls(t, "yield") /\ Shares(k)
    /\ k' = Rotate(k)
    /\ Goto(t, "sched")

Sleep(t, d) ==
    /\ Calls(t, "sleep") /\ t # Idle /\ CanBlock
    /\ k' = TimerStart(TaskSuspend(k, t), t, d)
    /\ Goto(t, "sleepSched")

SleepReturn(t) ==
    /\ At(t, "sleepBack")
    /\ k' = [k EXCEPT !.error[t] = IF @ = "OS_TIMEOUT" THEN "OS_OK" ELSE @]
    /\ Goto(t, "app")

PrioritySetCall(t, u, p) ==
    /\ Calls(t, "priority_set") /\ u # Idle /\ Managed(u)
    /\ k' = PrioritySet(k, u, p)
    /\ UNCHANGED <<pc, arg>>

(* The entry function returns into os_task_exit. *)
Exit(t) ==
    /\ Calls(t, "exit") /\ t # Idle /\ Managed(t) /\ CanBlock
    /\ k' = TaskExit(k, t)
    /\ Goto(t, "exitSched")

(* os_task_delete is four steps: os_sched_remove, os_timer_delete, the     *)
(* store of the state, and the insertion in the defunct list.              *)
Delete(t, u) ==
    /\ Calls(t, "delete") /\ u # Idle /\ Managed(u)
    /\ "race" \in Risky \/ (u # t /\ arg[u] = NoTask)
    /\ "deleteTimed" \in Risky \/ u \notin k.act
    /\ "deleteInit" \in Risky \/ k.mask[u] \subseteq {k.prio[u]}
    /\ k' = SchedRemove(k, u)
    /\ GotoOn(t, "delete2", u)

DeleteTimer(t) ==
    /\ At(t, "delete2")
    /\ k' = TimerDelete(k, arg[t])
    /\ Goto(t, "delete3")

DeleteClose(t) ==
    /\ At(t, "delete3")
    /\ k' = [k EXCEPT !.stat[arg[t]] = "CLOSE"]
    /\ IF arg[t] \in Cleanup THEN Goto(t, "delete4") ELSE GotoOn(t, "app", NoTask)

DeleteDefunct(t) ==
    /\ At(t, "delete4")
    /\ k' = Defunct(k, arg[t])
    /\ GotoOn(t, "app", NoTask)

-----------------------------------------------------------------------------
(* os_idle.c: the loop tests the list of ended tasks before its critical   *)
(* section, and again in it.  Others put tasks in at the head meanwhile.   *)

IdleTest ==
    /\ Runs(Idle) /\ pc[Idle] = "app" /\ k.defunct # <<>>
    /\ Goto(Idle, "cleanup")
    /\ UNCHANGED k

IdleCleanupLeavesLast ==                                      \* mutant
    /\ At(Idle, "cleanup")
    /\ k' = [k EXCEPT !.defunct = IF Len(@) > 1 THEN Tail(@) ELSE @]
    /\ Goto(Idle, "app")

IdleCleanup ==
    /\ At(Idle, "cleanup")
    /\ k' = [k EXCEPT !.defunct = IF @ # <<>> THEN Tail(@) ELSE @]
    /\ Goto(Idle, "app")

-----------------------------------------------------------------------------
(* Interrupts.  SysTick_Handler is Tick, TimerFire for each due timer, and *)
(* TickEnd: os_timer_check runs in one critical section, so that nothing   *)
(* else does until the handler returns.                                    *)

Tick ==
    /\ k.cur # NoTask /\ k.isr = 0
    /\ k' = TickIncrease(k)
    /\ UNCHANGED <<pc, arg>>

(* The callback of a user timer resumes a task that waits without timeout, *)
(* and calls os_sched, which os_task_resume leaves to its caller.          *)
Callback(s, x) ==
    LET u == Wakes[x]
    IN  IF Managed(u) /\ ("callbackStops" \in Risky \/ u \notin s.act)
        THEN Sched(TaskResume(s, u))
        ELSE s

TimerFire ==
    /\ Due(k)
    /\ LET s == TimerTake(k)
       IN  k' = TimerAfter(IF k.n \in Task THEN TaskTimeout(s, k.n)
                                           ELSE Callback(s, k.n), k.n)
    /\ UNCHANGED <<pc, arg>>

TickEnd ==
    /\ k.isr = 1 /\ ~Due(k)
    /\ k' = IsrLeave(k)
    /\ UNCHANGED <<pc, arg>>

(* The handler of another interrupt resumes a task and calls os_sched. *)
IsrResume(u) ==
    /\ "isr" \in Ops /\ k.cur # NoTask /\ k.isr = 0
    /\ k.stat[u] = "SUSPEND" /\ Managed(u)
    /\ k' = Sched(TaskResume(k, u))
    /\ UNCHANGED <<pc, arg>>

StartTimer(t, x) ==
    /\ Calls(t, "timer") /\ x \in UserTimer
    /\ k' = TimerStart(k, x, Period[x])
    /\ UNCHANGED <<pc, arg>>

-----------------------------------------------------------------------------
(* An API call of t, and a later step of one *)

Call(t) ==
    \/ Lock(t) \/ Unlock(t) \/ YieldCall(t) \/ Exit(t)
    \/ \E d \in Delay : Sleep(t, d)
    \/ \E x \in UserTimer : StartTimer(t, x)
    \/ \E u \in Task :
          \/ Startup(t, u) \/ Resume(t, u) \/ Suspend(t, u) \/ Delete(t, u)
          \/ \E p \in Levels : PrioritySetCall(t, u, p) \/ Reinit(t, u, p)

Continue(t) ==
    \/ Schedule(t) \/ SleepReturn(t) \/ ResumeFirst(t) \/ ResumeSecond(t)
    \/ SuspendRest(t) \/ DeleteTimer(t) \/ DeleteClose(t) \/ DeleteDefunct(t)

Isr == Tick \/ TimerFire \/ TickEnd \/ \E u \in App : IsrResume(u)

Next ==
    \/ \E t \in App : BootStartup(t)
    \/ Start
    \/ \E t \in Task : Call(t) \/ Continue(t)
    \/ IdleTest \/ IdleCleanup
    \/ Isr

Spec == Init /\ [][Next]_vars

(* The clock never stops and the handler returns; a task that is given the *)
(* processor again and again gets to execute its next kernel instruction.  *)
(* Nothing is assumed of application code: it may never call anything.     *)
Fairness ==
    /\ WF_vars(Start) /\ WF_vars(Tick) /\ WF_vars(TimerFire \/ TickEnd)
    /\ \A t \in Task : SF_vars(Continue(t))
    /\ SF_vars(IdleTest) /\ SF_vars(IdleCleanup)

FairSpec == Spec /\ Fairness

-----------------------------------------------------------------------------
(* Properties *)

(* The target of an os_task_delete that has not stored CLOSE yet: it is    *)
(* in no list although its state may be READY.                             *)
Dying == {arg[t] : t \in {a \in Task : pc[a] \in {"delete2", "delete3"}}}

(* os_ready_task_priority_list holds exactly the READY tasks, each once,   *)
(* at its current_priority, whatever os_sched_insert and os_sched_remove   *)
(* interleave with.                                                        *)
ReadyExact ==
    /\ \A p \in Prio : /\ IsInjective(k.ready[p])
                       /\ \A t \in ToSet(k.ready[p]) :
                             k.stat[t] = "READY" /\ k.prio[t] = p
    /\ \A t \in Task \ Dying :
          k.stat[t] = "READY" => t \in ToSet(k.ready[k.prio[t]])

(* A bit of the ready bitmap is set exactly when its list has a task, so   *)
(* that os_sched never takes a list head for a task.                       *)
BitmapExact == k.bitmap = {p \in Prio : k.ready[p] # <<>>}

(* A task of the timer list waits: its timer is never left behind when it  *)
(* is resumed, suspended again, deleted or initialized a second time.      *)
ArmedTasksWait ==
    \A t \in Task : t \in ToSet(k.timers) => k.stat[t] = "SUSPEND" /\ t \in k.act

(* OS_ASSERT(task->stat == OS_TASK_SUSPEND) of os_task_timeout.            *)
TimeoutOnlyWhenSuspended ==
    Due(k) /\ k.n \in Task => k.stat[k.n] = "SUSPEND"

(* "The task object will be removed from task queue": a task that          *)
(* os_task_delete or os_task_exit has closed is in no ready list.          *)
DeletedLeavesQueue ==
    \A t \in Task : k.stat[t] = "CLOSE" =>
        \A p \in Prio : t \notin ToSet(k.ready[p])

(* A switch goes to the first task of the most urgent level that has a     *)
(* READY task, and never happens while the scheduler is locked.            *)
SwitchToMostUrgent ==
    [][k'.cur # k.cur =>
          /\ k.lock = 0 /\ k'.stat[k'.cur] = "READY"
          /\ \A t \in Task \ Dying' :
                k'.stat[t] = "READY" => k'.prio[k'.cur] <= k'.prio[t]]_vars

(* A task that has ended stays ended until it is initialized again.        *)
ClosedIsFinal ==
    [][\A t \in Task : k.stat[t] = "CLOSE" => k'.stat[t] \in {"CLOSE", "INIT"}]_vars

(* Every READY task of the most urgent level gets the processor again and  *)
(* again: the slices of os_tick_increase, with no help from the tasks.     *)
Urgent(t) == /\ k.stat[t] = "READY"
             /\ \A u \in Task : k.stat[u] = "READY" => k.prio[t] <= k.prio[u]
RoundRobin == \A t \in Task : [](k.lock = 0) => (Urgent(t) ~> k.cur = t \/ ~Urgent(t))

(* A sleeping task becomes READY by itself. *)
SleepEnds == \A t \in App : t \in ToSet(k.timers) ~> t \notin ToSet(k.timers)

(* If the idle task runs again and again and tasks do not go on ending,    *)
(* every ended task is cleaned up, also one behind others in the list or   *)
(* one that ended after the idle task had looked.                          *)
TaskEnds == Len(k'.defunct) > Len(k.defunct)
DefunctCleaned ==
    []<>Runs(Idle) /\ ~[]<><<TaskEnds>>_vars
        => \A t \in App : t \in ToSet(k.defunct) ~> t \notin ToSet(k.defunct)
=============================================================================
