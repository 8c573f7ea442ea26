------------------------------ MODULE OsSemInv ------------------------------
(***************************************************************************)
(* The inductive invariant of OsSem for applications with Risky = {}: what *)
(* the tasks, the handler of the clock and the callbacks may rely on       *)
(* between two of their steps.                                             *)
(***************************************************************************)
EXTENDS OsSem, KernelInv

Deleting == {t \in Task : pc[t] \in {"delCheck", "delNext"}}

(* Nobody ends, and the idle task never waits. *)
TasksOK ==
    /\ \A t \in Task : k.stat[t] \in {"READY", "SUSPEND"}
    /\ k.stat[Idle] = "READY"
    /\ k.prio = BasePrio

(* The processor is with a task that waits only between the critical       *)
(* section of os_sem_take and its os_sched, which is not locked then.      *)
CurOK ==
    /\ k.cur \in Task
    /\ k.stat[k.cur] = "SUSPEND" => pc[k.cur] = "takeSched" /\ k.lock = 0

(* The cursor of os_timer_check is in os_timer_list or at its end.         *)
CursorOK == k.isr = 1 => k.n = ListHead \/ k.n \in ToSet(k.timers)

(* The error that a waiter will see has not been written yet.              *)
ErrorOK == \A t \in Waiters : k.error[t] = "OS_OK"

(* While a task deletes the semaphore, no other does, no waiter has a      *)
(* timeout, and the list that was seen not empty still is.                 *)
DeleteOK ==
    /\ \A t, u \in Deleting : t = u
    /\ Deleting # {} => \A t \in Waiters : t \notin k.act
    /\ \A t \in Task : pc[t] = "delNext" => k.pend[Sem] # <<>>

(* os_sched chose the task that runs, or it is about to be called.         *)
UrgentOK ==
    "delete" \notin Ops =>
        /\ Deleting = {}
        /\ k.lock = 0 /\ pc[k.cur] \in {"app", "takeBack"} =>
              \A t \in Task : k.stat[t] = "READY" => k.prio[k.cur] <= k.prio[t]

(* In every reachable state the pending list holds the tasks that wait,    *)
(* with their timers, no answer is lost, and the most urgent task runs.    *)
SemInv ==
    /\ TypeOK /\ KernelOK(k, {})
    /\ TasksOK /\ CurOK /\ CursorOK
    /\ WaitersExact /\ PendingByPriority
    /\ ErrorOK /\ DeleteOK /\ UrgentOK
=============================================================================
