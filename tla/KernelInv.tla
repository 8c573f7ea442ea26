----------------------------- MODULE KernelInv ------------------------------
(***************************************************************************)
(* What the lists, the bitmap and the timer list of OsKernel have to do    *)
(* with the tasks' states.  D is the set of the tasks that somebody holds  *)
(* outside of every list, between two critical sections of one call.       *)
(***************************************************************************)
EXTENDS OsKernel

ReadyLists(k, D) ==
    /\ \A p \in Prio :
          /\ IsInjective(k.ready[p])
          /\ \A t \in ToSet(k.ready[p]) :
                k.stat[t] = "READY" /\ k.prio[t] = p /\ t \notin D
    /\ \A t \in Task \ D :
          k.stat[t] = "READY" => t \in ToSet(k.ready[k.prio[t]])

PendingLists(k, D) ==
    \A o \in Obj : /\ IsInjective(k.pend[o])
                   /\ \A t \in ToSet(k.pend[o]) :
                         k.stat[t] = "SUSPEND" /\ t \notin D

DefunctList(k, D) ==
    /\ IsInjective(k.defunct)
    /\ \A t \in ToSet(k.defunct) : k.stat[t] = "CLOSE" /\ t \notin D

Bitmap(k) == k.bitmap = {p \in Prio : k.ready[p] # <<>>}

(* The bit a task sets and clears is that of its level. *)
Masks(k) ==
    \A t \in Task : k.stat[t] \in {"READY", "SUSPEND"} => k.mask[t] = {k.prio[t]}

TimerList(k) ==
    /\ IsInjective(k.timers)
    /\ \A t \in Task :
          t \in ToSet(k.timers) => k.stat[t] = "SUSPEND" /\ t \in k.act

KernelOK(k, D) ==
    /\ k \in Kernel
    /\ ReadyLists(k, D) /\ PendingLists(k, D) /\ DefunctList(k, D)
    /\ Bitmap(k) /\ Masks(k) /\ TimerList(k)

(* A kernel whose tasks run or wait, and the cursor of os_timer_check is   *)
(* in os_timer_list or at its end.                                         *)
Works(s) ==
    /\ KernelOK(s, {})
    /\ \A t \in Task : s.stat[t] \in {"READY", "SUSPEND"}
    /\ s.stat[Idle] = "READY" /\ s.cur \in Task /\ s.lock = 0
    /\ s.isr = 1 => s.n = ListHead \/ s.n \in ToSet(s.timers)

(* A list of tasks in the order of their priorities.                       *)
Ordered(s, prio) == \A i, j \in DOMAIN s : i < j => prio[s[i]] <= prio[s[j]]
=============================================================================
