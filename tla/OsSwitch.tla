------------------------------ MODULE OsSwitch ------------------------------
(***************************************************************************)
(* The context switch of the Cortex-M ports, context_gcc.S, without the    *)
(* registers of the FPU.  os_sched only asks for it: os_current_task is    *)
(* the next task at once, but the processor goes on with the registers and *)
(* the stack of the one before until PendSV_Handler runs, which has the    *)
(* lowest priority and waits until PRIMASK is clear and the interrupt      *)
(* service routines have returned.  They may call os_sched again and       *)
(* again, also while PendSV_Handler has begun.                             *)
(*                                                                         *)
(* Which task os_sched picks is the matter of OsKernel: here, any.         *)
(***************************************************************************)
EXTENDS Naturals

CONSTANTS Task,
    NoTask,     \* 0, and no task's context
    MaxNest     \* how deep interrupts nest

ASSUME SwitchAssumption == NoTask \notin Task /\ MaxNest \in Nat

VARIABLES
    os_current_task,
    flag, from, to,     \* interrupt_switch_flag, _task_from and _task_to
    pended,     \* PENDSVSET: the exception waits
    context,    \* the task whose registers and stack the processor has
    saved,      \* the task whose registers are where each task's sp points
    level,      \* what runs under the interrupts: main, task code, or
                \* PendSV_Handler before CPSID or after MSR PRIMASK
    nest,       \* os_isr_nest
    masked      \* PRIMASK

switch == <<flag, from, to>>
vars == <<os_current_task, switch, pended, context, saved, level, nest, masked>>

(* main has disabled the interrupts. os_arch_task_stack_init has made the  *)
(* first registers of each task.                                           *)
Init ==
    /\ os_current_task = NoTask
    /\ flag = FALSE /\ from = NoTask /\ to = NoTask
    /\ pended = FALSE
    /\ context = NoTask /\ saved = [t \in Task |-> t]
    /\ level = "main" /\ nest = 0 /\ masked = TRUE

(* os_sched_start and os_arch_context_switch_to, for the first task: main  *)
(* has no context to be saved. Then interrupts are enabled.                *)
os_sched_start(t) ==
    /\ os_current_task = NoTask
    /\ os_current_task' = t
    /\ flag' = TRUE /\ from' = NoTask /\ to' = t
    /\ pended' = TRUE /\ masked' = FALSE
    /\ UNCHANGED <<context, saved, level, nest>>

ReswitchFrom(f) == os_current_task                            \* mutant

(* _reswitch: the task that was to be saved still is. *)
From(f) == IF flag THEN f ELSE os_current_task

(* os_sched and os_arch_context_switch, when t is the most urgent task. *)
Sched(t) ==
    /\ t # os_current_task
    /\ os_current_task' = t
    /\ flag' = TRUE /\ from' = From(from) /\ to' = t
    /\ pended' = TRUE

(* Task code runs on with a switch pended only in a critical section. *)
TaskRuns == level = "task" /\ nest = 0 /\ (pended => masked)

TaskSched(t) ==
    /\ TaskRuns /\ Sched(t)
    /\ UNCHANGED <<context, saved, level, nest, masked>>

InterruptSched(t) ==
    /\ nest > 0 /\ Sched(t)
    /\ UNCHANGED <<context, saved, level, nest, masked>>

(* A task's own os_enter_critical and os_exit_critical. *)
Critical ==
    /\ TaskRuns
    /\ masked' = ~masked
    /\ UNCHANGED <<os_current_task, switch, pended, context, saved, level, nest>>

-----------------------------------------------------------------------------
Interrupt ==
    /\ ~masked /\ nest < MaxNest
    /\ nest' = nest + 1
    /\ UNCHANGED <<os_current_task, switch, pended, context, saved, level, masked>>

InterruptReturn ==
    /\ nest > 0
    /\ nest' = nest - 1
    /\ UNCHANGED <<os_current_task, switch, pended, context, saved, level, masked>>

(* The processor enters PendSV_Handler and clears PENDSVSET. *)
PendSV ==
    /\ level \in {"main", "task"} /\ nest = 0 /\ ~masked /\ pended
    /\ level' = "entry" /\ pended' = FALSE
    /\ UNCHANGED <<os_current_task, switch, context, saved, nest, masked>>

SaveAlways == [saved EXCEPT ![os_current_task] = context]     \* mutant

(* "skip register save at the first time" *)
Save == IF from = NoTask THEN saved ELSE [saved EXCEPT ![from] = context]

(* From CPSID to MSR PRIMASK: what was pushed on the one stack is popped   *)
(* from the other, and is there no more.                                   *)
Handle ==
    /\ level = "entry" /\ nest = 0
    /\ flag' = FALSE
    /\ IF flag
       THEN /\ context' = Save[to]
            /\ saved' = [Save EXCEPT ![to] = NoTask]
       ELSE UNCHANGED <<context, saved>>    \* "pendsv already handled"
    /\ level' = "exit"
    /\ UNCHANGED <<os_current_task, from, to, pended, nest, masked>>

(* The exception returns to the task, or is taken again.                   *)
PendSVReturn ==
    /\ level = "exit" /\ nest = 0
    /\ level' = IF pended THEN "entry" ELSE "task"
    /\ pended' = FALSE
    /\ UNCHANGED <<os_current_task, switch, context, saved, nest, masked>>

Next ==
    \/ \E t \in Task : os_sched_start(t) \/ TaskSched(t) \/ InterruptSched(t)
    \/ Critical \/ Interrupt \/ InterruptReturn
    \/ PendSV \/ Handle \/ PendSVReturn

Spec == Init /\ [][Next]_vars

-----------------------------------------------------------------------------
(* Properties *)

TypeOK ==
    /\ {os_current_task, from, to, context} \subseteq Task \cup {NoTask}
    /\ flag \in BOOLEAN /\ pended \in BOOLEAN /\ masked \in BOOLEAN
    /\ saved \in [Task -> Task \cup {NoTask}]
    /\ level \in {"main", "task", "entry", "exit"} /\ nest \in 0..MaxNest

(* However often os_sched was called meanwhile, when task code runs and no *)
(* switch is pended, it is the code of os_current_task, on its own stack   *)
(* and with its own registers.                                             *)
RunsCurrent ==
    level = "task" /\ ~pended => context = os_current_task

(* Every task that has been started keeps its registers: they are in the   *)
(* processor or at its own sp, and never at another's.                     *)
ContextsKept ==
    \A t \in Task : saved[t] = IF context = t THEN NoTask ELSE t

-----------------------------------------------------------------------------
(* What keeps them: from is the task whose context the processor has until *)
(* the switch is done, and to is os_current_task.                          *)
Started == os_current_task # NoTask

SwitchInv ==
    /\ TypeOK /\ ContextsKept
    /\ ~Started => level = "main" /\ masked /\ nest = 0 /\ ~flag /\ ~pended
    /\ flag => context = from /\ to = os_current_task
    /\ flag => pended \/ level = "entry"
    /\ level = "main" => context = NoTask /\ (Started => flag)
    /\ level # "main" /\ ~flag => context = os_current_task
    /\ level = "task" => context # NoTask
    /\ level = "exit" => context # NoTask
    /\ level \in {"entry", "exit"} => ~masked
=============================================================================
