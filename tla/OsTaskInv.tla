----------------------------- MODULE OsTaskInv ------------------------------
(***************************************************************************)
(* The inductive invariant of OsTask for applications with Risky = {}.     *)
(* The interesting part is what a task that was preempted inside an API    *)
(* function may rely on when it gets the processor back.                   *)
(***************************************************************************)
EXTENDS OsTask, KernelInv

Resuming == {"startup1", "startup2", "resume1", "resume2"}
Deleting == {"delete2", "delete3"}
Busy == Resuming \cup Deleting \cup {"suspend1", "delete4"}

(* The tasks between the steps of a call, which are in no list. *)
Detached ==
    {arg[t] : t \in {a \in Task : pc[a] \in {"startup2", "resume2"} \cup Deleting}}

(* At most one call works on a task, and finds it as the call has left it. *)
CallsOK ==
    /\ \A t \in Task : arg[t] # NoTask <=> pc[t] \in Busy
    /\ \A t, u \in Task : arg[t] = arg[u] /\ arg[t] # NoTask => t = u
    /\ \A t \in Task : arg[t] # Idle

TargetOK(t) ==
    /\ pc[t] \in Resuming =>
          k.stat[arg[t]] = "SUSPEND" /\ arg[t] \notin ToSet(k.timers)
    /\ pc[t] = "suspend1" => k.stat[arg[t]] \in {"READY", "SUSPEND"}
    /\ pc[t] \in Deleting => arg[t] \notin ToSet(k.timers)
    /\ pc[t] = "delete4" =>
          k.stat[arg[t]] = "CLOSE" /\ arg[t] \notin ToSet(k.defunct)

TargetsOK == \A t \in Task : TargetOK(t)

(* A task that is deleted or has ended was not in the middle of a call.    *)
EndedOK == \A t \in Task : k.stat[t] = "CLOSE" \/ t \in Dying => arg[t] = NoTask

BootOK ==
    k.cur = NoTask =>
        /\ k.stat[Idle] = "INIT" /\ k.isr = 0 /\ k.lock = 0 /\ k.timers = <<>>
        /\ \A t \in Task : arg[t] = NoTask

(* The current task is READY, but for the os_sched that ends its call; it  *)
(* never locks the scheduler in such a call.                               *)
CurOK ==
    k.cur # NoTask =>
        /\ k.stat[Idle] = "READY"
        /\ k.cur \notin Detached
        /\ k.stat[k.cur] # "READY" =>
              k.lock = 0 /\ pc[k.cur] \in {"sched", "exitSched", "sleepSched"}
        /\ pc[k.cur] = "suspend1" /\ arg[k.cur] = k.cur => k.lock = 0

(* The cursor of os_timer_check is in os_timer_list or at its end.         *)
CursorOK ==
    k.isr = 1 => /\ k.cur # NoTask
                 /\ k.n = ListHead \/ k.n \in ToSet(k.timers)

(* Every reachable state, also one in the middle of an API function, has   *)
(* lists, bitmap, timers and states that agree (KernelOK), but for the     *)
(* tasks that os_task_resume, os_task_startup or os_task_delete has taken  *)
(* out of their lists; such a call finds its task as it left it, the       *)
(* current task can run, and os_timer_check is at a timer of its list.     *)
IndInv ==
    /\ TypeOK /\ KernelOK(k, Detached)
    /\ CallsOK /\ TargetsOK /\ EndedOK /\ BootOK /\ CurOK /\ CursorOK
=============================================================================
