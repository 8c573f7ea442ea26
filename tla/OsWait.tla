------------------------------- MODULE OsWait -------------------------------
(***************************************************************************)
(* What the functions of os_mutex.c, os_mbox.c, os_mqueue.c, os_event.c    *)
(* and os_mpool.c have in common: a task enters the pending_list of an     *)
(* object inside a critical section, with its own timer running when the   *)
(* timeout is finite, calls os_sched, and looks at task->error when it     *)
(* runs again.  A module that extends this one adds an object's variables  *)
(* and the steps pc names; pc[t] is "app" in application code.             *)
(*                                                                         *)
(* resched is the set of the tasks whose next step is an os_sched outside  *)
(* any critical section.  arg[t] is the timeout of the call t is in, and   *)
(* since[t] is os_tick_get() - tick_delta, the ticks since t began to      *)
(* wait; more than the timeout makes no difference.  val[t] is the value   *)
(* the call carries: the message to send or received, the event asked for, *)
(* the block.  todo[t] is what it has still to empty with                  *)
(* os_list_resume_all.                                                     *)
(***************************************************************************)
EXTENDS OsKernel

CONSTANTS
    Flag,       \* OS_IPC_FIFO or OS_IPC_PRIO
    Forever,    \* OS_WAIT_FOREVER
    Timeout,    \* the timeouts the application passes
    BasePrio,   \* the priority each task is started with
    Val,        \* the values a call may carry
    Msg,        \* those of them that are messages
    NoVal       \* that of a call that carries none

NoWait == 0     \* OS_NO_WAIT

ASSUME WaitAssumption ==
    /\ Flag \in {"OS_IPC_FIFO", "OS_IPC_PRIO"}
    /\ Forever \in Nat \ {NoWait} /\ Timeout \subseteq 0..Forever
    /\ Msg \subseteq Val /\ NoVal \notin Val
    /\ UserTimer = {}
    /\ BasePrio \in [Task -> Prio]

VARIABLES k, pc, resched, arg, since, val, todo
wvars == <<k, pc, resched, arg, since, val, todo>>

App == Task \ {Idle}
WaitStep == {"app", "slept", "resume", "resumeNext"}

WaitTypeOK(Step) ==
    /\ k \in Kernel
    /\ pc \in [Task -> Step] /\ resched \subseteq Task
    /\ arg \in [Task -> 0..Forever] /\ since \in [Task -> 0..Forever]
    /\ val \in [Task -> Val \cup {NoVal}] /\ todo \in [Task -> Seq(Obj)]

WaitInit == /\ k = Running(BasePrio)
            /\ pc = [t \in Task |-> "app"]
            /\ resched = {}
            /\ arg = [t \in Task |-> Forever]
            /\ since = [t \in Task |-> 0]
            /\ val = [t \in Task |-> NoVal]
            /\ todo = [t \in Task |-> <<>>]

Waiters(o) == ToSet(k.pend[o])

(* Task t executes its step s, or calls from application code.             *)
At(t, s) == k.cur = t /\ k.isr = 0 /\ t \notin resched /\ pc[t] = s
Calls(t) == t # Idle /\ At(t, "app")

Goto(t, s) == pc' = [pc EXCEPT ![t] = s]
ThenSched(t) == resched' = resched \cup {t}

(* The steps that calculate the timeout again. *)
RetryStep == {"putBack", "getBack", "mqGetBack", "allocBack"}

(* Nobody is emptying the lists of o, as os_*_delete does without a        *)
(* critical section around the whole.                                      *)
Alive(o) == \A t \in Task : pc[t] \in {"resume", "resumeNext"} => o \notin ToSet(todo[t])

-----------------------------------------------------------------------------
(* The part of a critical section in which t begins to wait for o.         *)

WaitIn(s, o, t, d) ==
    LET w == ListSuspend([s EXCEPT !.error[t] = "OS_OK"], o, t, Flag)
    IN  IF d = Forever THEN w ELSE TimerStart(w, t, d)

BeginWait(t, o, d, back) ==
    /\ k' = WaitIn(k, o, t, d)
    /\ arg' = [arg EXCEPT ![t] = d]
    /\ since' = [since EXCEPT ![t] = 0]
    /\ Goto(t, back) /\ ThenSched(t)
    /\ UNCHANGED todo

RemainingAsked(t) == arg[t]                                   \* mutant

(* "if it's not waiting forever and then re-calculate timeout tick"        *)
Remaining(t) ==
    IF arg[t] = Forever THEN Forever
    ELSE IF since[t] >= arg[t] THEN NoWait ELSE arg[t] - since[t]

(* A call is over. *)
Finish(t) ==
    /\ Goto(t, "app")
    /\ arg' = [arg EXCEPT ![t] = Forever]
    /\ since' = [since EXCEPT ![t] = 0]
    /\ val' = [val EXCEPT ![t] = NoVal]
    /\ UNCHANGED todo

(* A task that was resumed, in a handler also the os_sched that follows.   *)
ResumeHead(s, o) == IF s.pend[o] # <<>> THEN ListResume(s, o) ELSE s
IsrResumeHead(s, o) == IF s.pend[o] # <<>> THEN Sched(ListResume(s, o)) ELSE s

-----------------------------------------------------------------------------
(* os_list_resume_all outside of a critical section: each turn tests the   *)
(* list before the critical section in which it takes the first entry.     *)

ResumeLists(t, os) ==
    /\ Goto(t, "resume")
    /\ todo' = [todo EXCEPT ![t] = os]
    /\ UNCHANGED <<k, resched, arg, since, val>>

ResumeCheck(t) ==
    /\ At(t, "resume") /\ todo[t] # <<>>
    /\ IF k.pend[Head(todo[t])] # <<>>
       THEN Goto(t, "resumeNext") /\ UNCHANGED todo
       ELSE /\ todo' = [todo EXCEPT ![t] = Tail(@)]
            /\ Goto(t, IF Len(todo[t]) = 1 THEN "app" ELSE "resume")
    /\ UNCHANGED <<k, resched, arg, since, val>>

(* On an empty list the code takes the list head for a task. *)
ResumeNext(t) ==
    /\ At(t, "resumeNext") /\ k.pend[Head(todo[t])] # <<>>
    /\ k' = WakeHead(k, Head(todo[t]))
    /\ Goto(t, "resume")
    /\ UNCHANGED <<resched, arg, since, val, todo>>

-----------------------------------------------------------------------------
(* os_task_sleep *)

Sleep(t, d) ==
    /\ Calls(t)
    /\ k' = TimerStart(TaskSuspend(k, t), t, d)
    /\ Goto(t, "slept") /\ ThenSched(t)
    /\ UNCHANGED <<arg, since, val, todo>>

SleepReturn(t) ==
    /\ At(t, "slept")
    /\ k' = [k EXCEPT !.error[t] = IF @ = "OS_TIMEOUT" THEN "OS_OK" ELSE @]
    /\ Goto(t, "app")
    /\ UNCHANGED <<resched, arg, since, val, todo>>

-----------------------------------------------------------------------------
(* The scheduler and the clock *)

Schedule(t) ==
    /\ k.cur = t /\ k.isr = 0 /\ t \in resched
    /\ k' = Sched(k)
    /\ resched' = resched \ {t}
    /\ UNCHANGED <<pc, arg, since, val, todo>>

Waiting(t) == pc[t] \in RetryStep /\ arg[t] \notin {NoWait, Forever}

Tick ==
    /\ k.isr = 0
    /\ k' = TickIncrease(k)
    /\ since' = [t \in Task |->
           IF Waiting(t) /\ since[t] < arg[t] THEN since[t] + 1 ELSE since[t]]
    /\ UNCHANGED <<pc, resched, arg, val, todo>>

TaskTimerFire ==
    /\ Due(k)
    /\ k' = TimerAfter(TaskTimeout(TimerTake(k), k.n), k.n)
    /\ UNCHANGED <<pc, resched, arg, since, val, todo>>

TickEnd ==
    /\ k.isr = 1 /\ ~Due(k)
    /\ k' = IsrLeave(k)
    /\ UNCHANGED <<pc, resched, arg, since, val, todo>>

Clock == Tick \/ TaskTimerFire \/ TickEnd
=============================================================================
