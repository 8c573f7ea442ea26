----------------------------- MODULE OsSemProofs -----------------------------
(***************************************************************************)
(* SemInv of OsSemInv is an invariant of OsSem for every set of tasks,     *)
(* levels, timers and timeouts, for applications with Risky = {}.  The     *)
(* safety properties of OsSem follow from it, and that OsSem implements    *)
(* the semaphore of module Semaphore.                                      *)
(***************************************************************************)
EXTENDS OsSemInv, OsKernelProofs

-----------------------------------------------------------------------------
(* A pending list in the order of the priorities *)

-----------------------------------------------------------------------------
(* What a step does to a task that waits, ceases to wait or begins to *)

Stays(t) ==
    /\ k'.stat[t] = k.stat[t]
    /\ t \in Waiters' <=> t \in Waiters
    /\ t \in ToSet(k'.timers) <=> t \in ToSet(k.timers)
    /\ t \in Waiters => /\ pc'[t] \in {"takeSched", "takeBack"}
                        /\ arg'[t] = arg[t] /\ k'.error[t] = k.error[t]

Goes(t) ==
    k'.stat[t] = "READY" /\ t \notin Waiters' /\ t \notin ToSet(k'.timers)

Comes(t) ==
    /\ t # Idle /\ k'.stat[t] = "SUSPEND" /\ t \in Waiters'
    /\ pc'[t] = "takeSched" /\ k'.error[t] = "OS_OK"
    /\ t \in ToSet(k'.timers) <=> arg'[t] # Forever

(* A step after which every task stays as it was, ceases to wait or begins *)
(* to keeps SemInv, when it keeps the order and what the callers rely on.  *)
LEMMA WaitStep ==
    ASSUME SemInv, TypeOK', KernelOK(k', {}), k'.prio = k.prio,
           \A t \in Task : Stays(t) \/ Goes(t) \/ Comes(t),
           PendingByPriority', CurOK', CursorOK', DeleteOK', UrgentOK'
    PROVE  SemInv'
<1>1. Waiters' \subseteq Task
  BY SemAssumption DEF Waiters, KernelOK, Kernel, ToSet
<1>2. TasksOK'
  BY KernelAssumption DEF SemInv, TasksOK, Stays, Goes, Comes
<1>3. WaitersExact'
  BY DEF SemInv, WaitersExact, Stays, Goes, Comes, TasksOK
<1>4. ErrorOK'
  BY <1>1 DEF SemInv, ErrorOK, Stays, Goes, Comes
<1> QED  BY <1>2, <1>3, <1>4 DEF SemInv

(* What every step may use of SemInv.                                      *)
LEMMA SemFacts ==
    ASSUME SemInv
    PROVE  /\ k \in Kernel /\ KernelOK(k, {}) /\ Sem \in Obj /\ Idle \in Task
           /\ k.stat[Idle] = "READY" /\ Idle \notin {} /\ k.cur \in Task
           /\ k.stat \in [Task -> Stat] /\ k.error \in [Task -> Errno]
           /\ k.prio \in [Task -> Nat] /\ k.pend \in [Obj -> Seq(Task)]
           /\ IsList(k.pend[Sem], Task) /\ Waiters \subseteq Task
           /\ Waiters = {} <=> k.pend[Sem] = <<>>
           /\ pc \in [Task -> Step] /\ arg \in [Task -> Timeout \cup {Forever}]
           /\ value \in 0..MaxValue /\ MaxValue \in Nat
           /\ Flag = "OS_IPC_PRIO" => Ordered(k.pend[Sem], k.prio)
<1>1. k \in Kernel /\ Sem \in Obj /\ Idle \in Task
  BY KernelAssumption, SemAssumption DEF SemInv, TypeOK
<1>2. IsList(k.pend[Sem], Task)
  BY <1>1 DEF SemInv, KernelOK, PendingLists, Kernel, IsList
<1>3. Waiters \subseteq Task /\ (Waiters = {} <=> k.pend[Sem] = <<>>)
  BY <1>2, MemberOfList DEF Waiters
<1>4. k.prio \in [Task -> Nat]
  BY <1>1, KernelAssumption DEF Kernel
<1> QED
  BY <1>1, <1>2, <1>3, <1>4, SemAssumption
     DEF SemInv, TasksOK, CurOK, TypeOK, Kernel, PendingByPriority, Ordered

(* The task that runs is READY, and none is more urgent.                   *)
Chosen(r) ==
    /\ r.cur \in Task /\ r.stat[r.cur] = "READY"
    /\ \A t \in Task : r.stat[t] = "READY" => r.prio[r.cur] <= r.prio[t]

(* After os_sched chose, CurOK and UrgentOK hold whatever the tasks do.    *)
LEMMA ChosenOK ==
    ASSUME Chosen(k'), "delete" \notin Ops => Deleting' = {}
    PROVE  CurOK' /\ UrgentOK'
BY DEF Chosen, CurOK, UrgentOK

(* The deletion of the semaphore goes on when nobody begins another, the   *)
(* list stays and no waiter gets a timeout.                                *)
LEMMA DeleteQuiet ==
    ASSUME SemInv, k'.pend[Sem] = k.pend[Sem],
           \A t \in Waiters : t \in k'.act => t \in k.act,
           \A t \in Task : pc'[t] \in {"delCheck", "delNext"} => pc'[t] = pc[t]
    PROVE  DeleteOK' /\ Deleting' \subseteq Deleting
<1>1. Waiters' = Waiters
  BY DEF Waiters
<1>2. Deleting' \subseteq Deleting
  BY DEF Deleting
<1> QED
  BY <1>1, <1>2 DEF SemInv, DeleteOK

(* Nobody deletes the semaphore when another task uses it.                 *)
LEMMA NobodyDeletes ==
    ASSUME Risky = {}, Alive
    PROVE  Deleting = {}
BY DEF Alive, Deleting

(* A step that leaves the states, the pending list and the timers of the   *)
(* tasks alone.                                                            *)
LEMMA QuietStep ==
    ASSUME SemInv, TypeOK', KernelOK(k', {}), k'.prio = k.prio,
           k'.stat = k.stat, k'.pend[Sem] = k.pend[Sem], k'.error = k.error,
           \A t \in Task : t \in ToSet(k'.timers) <=> t \in ToSet(k.timers),
           \A t \in Waiters : /\ pc'[t] \in {"takeSched", "takeBack"}
                               /\ arg'[t] = arg[t],
           CurOK', CursorOK', DeleteOK', UrgentOK'
    PROVE  SemInv'
<1>1. Waiters' = Waiters
  BY DEF Waiters
<1>2. \A t \in Task : Stays(t)
  BY <1>1 DEF Stays
<1>3. PendingByPriority'
  BY DEF SemInv, PendingByPriority
<1> QED
  BY <1>2, <1>3, WaitStep

(* A task in application code, or about to run os_sched at the end of a    *)
(* call or to return from os_sem_take, is not in the list.                 *)
LEMMA BusyNotWaiting ==
    ASSUME SemInv, NEW t \in Task, Runs(t), pc[t] # "takeSched"
    PROVE  t \notin Waiters /\ k.stat[t] = "READY"
BY DEF SemInv, WaitersExact, CurOK, TasksOK, Runs

-----------------------------------------------------------------------------
(* The steps that change no list *)

(* A step of a task that is not suspended and leaves the kernel alone.     *)
LEMMA PcStep ==
    ASSUME SemInv, k' = k, TypeOK',
           NEW t \in Task, Runs(t), pc[t] \notin {"takeSched", "sched"},
           \A u \in Task : u # t => pc'[u] = pc[u] /\ arg'[u] = arg[u],
           pc'[t] \in {"app", "takeBack"} /\ "delete" \notin Ops
              => pc[t] \in {"app", "takeBack"},
           DeleteOK', "delete" \notin Ops => Deleting' = {}
    PROVE  SemInv'
<1>1. t \notin Waiters /\ k.stat[t] = "READY" /\ k.cur = t
  BY BusyNotWaiting DEF Runs
<1>2. Waiters \subseteq Task /\ KernelOK(k, {})
  BY SemFacts
<1>3. CurOK' /\ CursorOK' /\ UrgentOK'
  BY <1>1 DEF SemInv, CurOK, CursorOK, UrgentOK
<1>4. /\ KernelOK(k', {}) /\ k'.prio = k.prio
      /\ k'.stat = k.stat /\ k'.pend[Sem] = k.pend[Sem] /\ k'.error = k.error
      /\ \A u \in Task : u \in ToSet(k'.timers) <=> u \in ToSet(k.timers)
  BY <1>2
<1>5. \A u \in Waiters : /\ pc'[u] \in {"takeSched", "takeBack"}
                          /\ arg'[u] = arg[u]
  BY <1>1, <1>2 DEF SemInv, WaitersExact
<1> QED
  BY <1>3, <1>4, <1>5, QuietStep

(* os_sem_take with a token to be had, or with OS_NO_WAIT.                 *)
LEMMA TakeNowOK ==
    ASSUME Risky = {}, SemInv, NEW t \in Task, TakeNow(t)
    PROVE  SemInv'
<1>1. /\ Runs(t) /\ pc[t] = "app" /\ k' = k /\ pc' = pc /\ arg' = arg
      /\ value' = value - 1 /\ value > 0
  BY DEF TakeNow, Calls
<1>2. TypeOK'
  BY <1>1, SemFacts DEF TypeOK
<1>3. DeleteOK' /\ Deleting' \subseteq Deleting
  BY <1>1, DeleteQuiet
<1>4. "delete" \notin Ops => Deleting' = {}
  BY <1>3 DEF SemInv, UrgentOK
<1> QED
  BY <1>1, <1>2, <1>3, <1>4, PcStep

(* os_sem_take goes on after its os_sched.                                 *)
LEMMA TakeReturnOK ==
    ASSUME SemInv, NEW t \in Task, TakeReturn(t)
    PROVE  SemInv'
<1>1. /\ Runs(t) /\ pc[t] = "takeBack" /\ k' = k /\ value' = value
      /\ pc' = [pc EXCEPT ![t] = "app"] /\ arg' = [arg EXCEPT ![t] = Forever]
  BY DEF TakeReturn, Goto
<1>2. pc \in [Task -> Step] /\ arg \in [Task -> Timeout \cup {Forever}]
      /\ TypeOK
  BY DEF SemInv, TypeOK
<1>3. TypeOK'
  BY <1>1, <1>2 DEF TypeOK, Step
<1>4. pc'[t] = "app" /\ \A u \in Task : u # t => pc'[u] = pc[u] /\ arg'[u] = arg[u]
  BY <1>1, <1>2
<1>5. DeleteOK' /\ Deleting' \subseteq Deleting
  BY <1>1, <1>4, DeleteQuiet
<1>6. "delete" \notin Ops => Deleting' = {}
  BY <1>5 DEF SemInv, UrgentOK
<1> QED
  BY <1>1, <1>3, <1>4, <1>5, <1>6, PcStep

(* os_sem_delete begins.                                                   *)
LEMMA DeleteOKStep ==
    ASSUME Risky = {}, SemInv, NEW t \in Task, Delete(t)
    PROVE  SemInv'
<1>1. /\ Runs(t) /\ pc[t] = "app" /\ k' = k /\ value' = value /\ arg' = arg
      /\ pc' = [pc EXCEPT ![t] = "delCheck"]
      /\ \A u \in Waiters : u \notin k.act
      /\ "delete" \in Ops /\ Deleting = {}
  BY NobodyDeletes DEF Delete, Goto, Calls
<1>2. pc \in [Task -> Step] /\ TypeOK
  BY DEF SemInv, TypeOK
<1>3. TypeOK'
  BY <1>1, <1>2 DEF TypeOK, Step
<1>4. pc'[t] = "delCheck" /\ \A u \in Task : u # t => pc'[u] = pc[u]
  BY <1>1, <1>2
<1>5. Deleting' = {t} /\ \A u \in Task : pc'[u] # "delNext"
  BY <1>1, <1>4 DEF Deleting
<1>6. Waiters' = Waiters
  BY <1>1 DEF Waiters
<1>7. DeleteOK'
  BY <1>1, <1>5, <1>6 DEF DeleteOK
<1> QED
  BY <1>1, <1>3, <1>4, <1>7, PcStep

(* The test of os_list_resume_all, outside of a critical section.          *)
LEMMA DeleteCheckOK ==
    ASSUME SemInv, NEW t \in Task, DeleteCheck(t)
    PROVE  SemInv'
<1>1. /\ Runs(t) /\ pc[t] = "delCheck" /\ k' = k /\ value' = value /\ arg' = arg
      /\ pc' = [pc EXCEPT ![t] = IF k.pend[Sem] # <<>> THEN "delNext" ELSE "app"]
  BY DEF DeleteCheck, Goto
<1>2. pc \in [Task -> Step] /\ TypeOK
  BY DEF SemInv, TypeOK
<1>3. TypeOK'
  BY <1>1, <1>2 DEF TypeOK, Step
<1>4. /\ pc'[t] = IF k.pend[Sem] # <<>> THEN "delNext" ELSE "app"
      /\ \A u \in Task : u # t => pc'[u] = pc[u]
  BY <1>1, <1>2
<1>5. Deleting' \subseteq Deleting /\ t \in Deleting
  BY <1>1, <1>4 DEF Deleting
<1>6. Waiters' = Waiters
  BY <1>1 DEF Waiters
<1>7. DeleteOK'
  BY <1>1, <1>4, <1>5, <1>6 DEF SemInv, DeleteOK
<1>8. "delete" \in Ops
  BY <1>5 DEF SemInv, UrgentOK
<1> QED
  BY <1>1, <1>3, <1>4, <1>7, <1>8, PcStep

-----------------------------------------------------------------------------
(* The scheduler, its lock, the clock and the start of a timer *)

(* A token that nobody waits for is counted, below the bound.              *)
LEMMA GiveValueOK ==
    ASSUME SemInv, GiveValue
    PROVE  value' \in 0..MaxValue
BY SemFacts DEF GiveValue

(* A step that changes nothing but the clock, the timers of the            *)
(* application, the lock and the task that runs.                           *)
LEMMA KernelStep ==
    ASSUME SemInv, KernelOK(k', {}), value' = value \/ GiveValue, arg' = arg,
           pc' \in [Task -> Step],
           k'.prio = k.prio, k'.stat = k.stat, k'.pend = k.pend,
           k'.error = k.error,
           \A t \in Task : t \in ToSet(k'.timers) <=> t \in ToSet(k.timers),
           \A t \in Task : t \in k'.act => t \in k.act,
           \A t \in Waiters : pc'[t] \in {"takeSched", "takeBack"},
           \A t \in Task : pc'[t] \in {"delCheck", "delNext"} => pc'[t] = pc[t],
           CursorOK',
           \/ Chosen(k')
           \/ CurOK' /\ ("delete" \notin Ops /\ Deleting' = {} => UrgentOK')
    PROVE  SemInv'
<1>1. Waiters \subseteq Task /\ TypeOK /\ KernelOK(k, {})
  BY SemFacts DEF SemInv
<1>2. TypeOK'
  BY <1>1, GiveValueOK DEF TypeOK, KernelOK
<1>3. DeleteOK' /\ Deleting' \subseteq Deleting
  BY <1>1, DeleteQuiet
<1>4. "delete" \notin Ops => Deleting' = {}
  BY <1>3 DEF SemInv, UrgentOK
<1>5. CurOK' /\ UrgentOK'
  <2>1. CASE Chosen(k')
    BY <1>4, <2>1, ChosenOK
  <2>2. CASE CurOK' /\ ("delete" \notin Ops /\ Deleting' = {} => UrgentOK')
    BY <1>4, <2>2 DEF UrgentOK
  <2> QED  BY <2>1, <2>2
<1> QED
  BY <1>2, <1>3, <1>5, QuietStep

(* os_sched at the end of a call.                                          *)
LEMMA ScheduleOK ==
    ASSUME SemInv, NEW t \in Task, Schedule(t)
    PROVE  SemInv'
<1>1. /\ Runs(t) /\ pc[t] \in {"sched", "takeSched"} /\ k' = Sched(k)
      /\ pc' = [pc EXCEPT ![t] = IF pc[t] = "sched" THEN "app" ELSE "takeBack"]
      /\ value' = value /\ arg' = arg
  BY DEF Schedule, Goto
<1>2. /\ k \in Kernel /\ KernelOK(k, {}) /\ k.stat[Idle] = "READY" /\ Idle \notin {}
      /\ pc \in [Task -> Step] /\ Waiters \subseteq Task
  BY SemFacts
<1>3. /\ KernelOK(k', {})
      /\ SameLists(k, k') /\ SameTasks(k, k') /\ SameTimers(k, k')
      /\ k'.lock = k.lock /\ k'.isr = k.isr /\ k'.n = k.n
      /\ k.lock # 0 => k'.cur = k.cur
      /\ k.lock = 0 =>
            /\ k'.cur \in Task /\ k.stat[k'.cur] = "READY"
            /\ \A u \in Task : u \notin {} /\ k.stat[u] = "READY"
                                 => k.prio[k'.cur] <= k.prio[u]
  BY <1>1, <1>2, SchedOK
<1>4. k'.error = k.error
  BY <1>1, <1>2, ErrorKept
<1>5. /\ pc'[t] = IF pc[t] = "sched" THEN "app" ELSE "takeBack"
      /\ \A u \in Task : u # t => pc'[u] = pc[u]
      /\ pc' \in [Task -> Step]
  BY <1>1, <1>2 DEF Step
<1>6. CursorOK'
  BY <1>3 DEF SemInv, CursorOK, SameTimers
<1>7. \A u \in Waiters : pc'[u] \in {"takeSched", "takeBack"}
  BY <1>1, <1>2, <1>5 DEF SemInv, WaitersExact
<1>8. \A u \in Task : pc'[u] \in {"delCheck", "delNext"} => pc'[u] = pc[u]
  BY <1>5
<1>9. Chosen(k') \/ (CurOK' /\ UrgentOK')
  <2>1. CASE k.lock = 0
    BY <1>3, <2>1 DEF Chosen, SameTasks
  <2>2. CASE k.lock # 0
    <3>1. k'.cur = k.cur /\ k'.lock # 0 /\ k.stat[k.cur] = "READY"
      BY <1>3, <2>2, SemFacts DEF SemInv, CurOK, TasksOK
    <3>2. CurOK'
      BY <1>3, <3>1 DEF SemInv, CurOK, SameTasks
    <3>3. Deleting' \subseteq Deleting
      BY <1>8 DEF Deleting
    <3>4. UrgentOK'
      BY <3>1, <3>3 DEF SemInv, UrgentOK
    <3> QED  BY <3>2, <3>4
  <2> QED  BY <2>1, <2>2
<1> QED
  BY <1>1, <1>3, <1>4, <1>5, <1>6, <1>7, <1>8, <1>9, KernelStep
     DEF SameLists, SameTasks, SameTimers

(* os_sched_lock.                                                          *)
LEMMA LockOK ==
    ASSUME SemInv, NEW t \in Task, Lock(t)
    PROVE  SemInv'
<1>1. /\ Runs(t) /\ pc[t] = "app" /\ k' = [k EXCEPT !.lock = @ + 1]
      /\ value' = value /\ pc' = pc /\ arg' = arg
  BY DEF Lock, Calls
<1>2. k \in Kernel /\ KernelOK(k, {}) /\ Waiters \subseteq Task /\ pc \in [Task -> Step]
  BY SemFacts
<1>3. k.lock + 1 \in Nat /\ k.lock + 1 # 0 /\ k' = SetLock(k, k.lock + 1)
  BY <1>1, <1>2 DEF Kernel, SetLock
<1>4. /\ KernelOK(k', {})
      /\ SameLists(k, k') /\ SameTasks(k, k') /\ SameTimers(k, k')
      /\ k'.cur = k.cur /\ k'.lock = k.lock + 1 /\ k'.isr = k.isr /\ k'.n = k.n
  BY <1>2, <1>3, SetLockOK
<1>5. k'.error = k.error
  BY <1>2, <1>3, ErrorKept
<1>6. CursorOK'
  BY <1>4 DEF SemInv, CursorOK, SameTimers
<1>7. CurOK' /\ ("delete" \notin Ops /\ Deleting' = {} => UrgentOK')
  <2>1. k.cur = t /\ k.stat[t] = "READY"
    BY <1>1, BusyNotWaiting DEF Runs
  <2> QED  BY <1>3, <1>4, <2>1 DEF CurOK, UrgentOK, SameTasks
<1>8. \A u \in Waiters : pc'[u] \in {"takeSched", "takeBack"}
  BY <1>1, <1>2 DEF SemInv, WaitersExact
<1> QED
  BY <1>1, <1>2, <1>4, <1>5, <1>6, <1>7, <1>8, KernelStep
     DEF SameLists, SameTasks, SameTimers

(* os_sched_unlock, with the switch it makes up for.                       *)
LEMMA UnlockOK ==
    ASSUME SemInv, NEW t \in Task, Unlock(t)
    PROVE  SemInv'
<1>1. /\ Runs(t) /\ pc[t] = "app" /\ k' = [k EXCEPT !.lock = @ - 1] /\ k.lock > 0
      /\ pc' = [pc EXCEPT ![t] = IF k.lock = 1 THEN "sched" ELSE "app"]
      /\ value' = value /\ arg' = arg
  BY DEF Unlock, Calls, Goto
<1>2. k \in Kernel /\ KernelOK(k, {}) /\ Waiters \subseteq Task /\ pc \in [Task -> Step]
  BY SemFacts
<1>3. /\ k.lock - 1 \in Nat /\ (k.lock - 1 = 0 <=> k.lock = 1)
      /\ k' = SetLock(k, k.lock - 1)
  BY <1>1, <1>2 DEF Kernel, SetLock
<1>4. /\ KernelOK(k', {})
      /\ SameLists(k, k') /\ SameTasks(k, k') /\ SameTimers(k, k')
      /\ k'.cur = k.cur /\ k'.lock = k.lock - 1 /\ k'.isr = k.isr /\ k'.n = k.n
  BY <1>2, <1>3, SetLockOK
<1>5. k'.error = k.error
  BY <1>2, <1>3, ErrorKept
<1>6. CursorOK'
  BY <1>4 DEF SemInv, CursorOK, SameTimers
<1>9. /\ pc'[t] = IF k.lock = 1 THEN "sched" ELSE "app"
      /\ \A u \in Task : u # t => pc'[u] = pc[u]
      /\ pc' \in [Task -> Step]
  BY <1>1, <1>2 DEF Step
<1>7. CurOK' /\ ("delete" \notin Ops /\ Deleting' = {} => UrgentOK')
  <2>1. k.cur = t /\ k.stat[t] = "READY"
    BY <1>1, BusyNotWaiting DEF Runs
  <2> QED  BY <1>3, <1>4, <1>9, <2>1 DEF CurOK, UrgentOK, SameTasks
<1>8. \A u \in Waiters : pc'[u] \in {"takeSched", "takeBack"}
  BY <1>1, <1>2, <1>9 DEF SemInv, WaitersExact
<1>10. \A u \in Task : pc'[u] \in {"delCheck", "delNext"} => pc'[u] = pc[u]
  BY <1>9
<1> QED
  BY <1>1, <1>4, <1>5, <1>6, <1>7, <1>8, <1>9, <1>10, KernelStep
     DEF SameLists, SameTasks, SameTimers

(* os_timer_start for a timer of the application.                          *)
LEMMA StartTimerOK ==
    ASSUME SemInv, NEW t \in Task, NEW x, StartTimer(t, x)
    PROVE  SemInv'
<1>1. /\ Runs(t) /\ pc[t] = "app" /\ x \in UserTimer /\ k.isr = 0
      /\ k' = TimerStart(k, x, Period[x])
      /\ value' = value /\ pc' = pc /\ arg' = arg
  BY DEF StartTimer, Calls, Runs
<1>2. k \in Kernel /\ KernelOK(k, {}) /\ Waiters \subseteq Task /\ pc \in [Task -> Step]
  BY SemFacts
<1>3. /\ x \in Timer /\ Period[x] \in Nat /\ x \notin Task
      /\ x \in Task => k.stat[x] = "SUSPEND"
  BY <1>1, KernelAssumption DEF Timer
<1>9. PICK d \in Nat : k' = TimerStart(k, x, d)
  BY <1>1, <1>3
<1>4. /\ KernelOK(k', {}) /\ ToSet(k'.timers) = ToSet(k.timers) \cup {x}
      /\ k'.act = k.act \cup {x}
      /\ SameLists(k, k') /\ SameTasks(k, k') /\ SameControl(k, k')
  <2> DEFINE r == TimerStart(k, x, d)
  <2>1. r = TimerStart(k, x, d)
    OBVIOUS
  <2> HIDE DEF r
  <2>2. KernelOK(k, {}) /\ x \in Timer /\ (x \in Task => k.stat[x] = "SUSPEND")
    BY <1>2, <1>3
  <2>3. /\ KernelOK(r, {}) /\ ToSet(r.timers) = ToSet(k.timers) \cup {x}
        /\ r.act = k.act \cup {x}
        /\ SameLists(k, r) /\ SameTasks(k, r) /\ SameControl(k, r)
    BY <2>1, <2>2, TimerStartOK
  <2>4. k' = r
    BY <1>9, <2>1
  <2> QED  BY <2>3, <2>4
<1>5. k'.error = k.error
  BY <1>1, <1>2, ErrorKept
<1>6. CursorOK'
  BY <1>1, <1>4 DEF CursorOK, SameControl
<1>7. CurOK' /\ UrgentOK'
  BY <1>1, <1>4 DEF SemInv, CurOK, UrgentOK, Deleting, SameTasks, SameControl
<1>8. \A u \in Waiters : pc'[u] \in {"takeSched", "takeBack"}
  BY <1>1, <1>2 DEF SemInv, WaitersExact
<1> QED
  BY <1>1, <1>2, <1>3, <1>4, <1>5, <1>6, <1>7, <1>8, KernelStep
     DEF SameLists, SameTasks

(* The handler of the clock begins.                                        *)
LEMMA TickOK ==
    ASSUME SemInv, Tick
    PROVE  SemInv'
<1>1. k' = TickIncrease(k) /\ value' = value /\ pc' = pc /\ arg' = arg
  BY DEF Tick
<1>2. /\ k \in Kernel /\ KernelOK(k, {}) /\ k.stat[Idle] = "READY" /\ Idle \notin {}
      /\ k.cur \in Task /\ k.cur \notin {}
      /\ pc \in [Task -> Step] /\ Waiters \subseteq Task
  BY SemFacts
<1>3. /\ KernelOK(k', {})
      /\ k'.defunct = k.defunct /\ k'.pend = k.pend
      /\ SameTasks(k, k') /\ SameTimers(k, k')
      /\ k'.lock = k.lock /\ k'.isr = 1
      /\ k'.n = ListHead \/ k'.n \in ToSet(k.timers)
      /\ \/ k'.cur = k.cur
         \/ /\ k.lock = 0 /\ k'.cur \in Task /\ k'.cur \notin {}
            /\ k.stat[k'.cur] = "READY"
            /\ \A u \in Task : u \notin {} /\ k.stat[u] = "READY"
                                 => k.prio[k'.cur] <= k.prio[u]
  BY <1>1, <1>2, TickIncreaseOK
<1>4. k'.error = k.error
  BY <1>1, <1>2, ErrorKept
<1>5. CursorOK'
  BY <1>3 DEF CursorOK, SameTimers
<1>6. Chosen(k') \/ (CurOK' /\ UrgentOK')
  <2>1. CASE k'.cur = k.cur
    BY <1>1, <1>3, <2>1 DEF SemInv, CurOK, UrgentOK, Deleting, SameTasks
  <2>2. CASE k'.cur # k.cur
    BY <1>3, <2>2 DEF Chosen, SameTasks
  <2> QED  BY <2>1, <2>2
<1>7. \A u \in Waiters : pc'[u] \in {"takeSched", "takeBack"}
  BY <1>1, <1>2 DEF SemInv, WaitersExact
<1> QED
  BY <1>1, <1>2, <1>3, <1>4, <1>5, <1>6, <1>7, KernelStep DEF SameTasks, SameTimers

(* The handler of the clock ends, and the switch it asked for is made.     *)
LEMMA TickEndOK ==
    ASSUME SemInv, TickEnd
    PROVE  SemInv'
<1>1. k' = IsrLeave(k) /\ value' = value /\ pc' = pc /\ arg' = arg
  BY DEF TickEnd
<1>2. k \in Kernel /\ KernelOK(k, {}) /\ Waiters \subseteq Task /\ pc \in [Task -> Step]
  BY SemFacts
<1>3. /\ KernelOK(k', {})
      /\ SameLists(k, k') /\ SameTasks(k, k') /\ SameTimers(k, k')
      /\ k'.cur = k.cur /\ k'.lock = k.lock /\ k'.isr = 0
  BY <1>1, <1>2, IsrLeaveOK
<1>4. k'.error = k.error
  BY <1>1, <1>2, ErrorKept
<1>5. CursorOK' /\ CurOK' /\ UrgentOK'
  BY <1>1, <1>3 DEF SemInv, CursorOK, CurOK, UrgentOK, Deleting, SameTasks
<1>6. \A u \in Waiters : pc'[u] \in {"takeSched", "takeBack"}
  BY <1>1, <1>2 DEF SemInv, WaitersExact
<1> QED
  BY <1>1, <1>2, <1>3, <1>4, <1>5, <1>6, KernelStep
     DEF SameLists, SameTasks, SameTimers

-----------------------------------------------------------------------------
(* The steps that let a waiter go *)

(* After os_sched of a handler, the most urgent task runs or the scheduler *)
(* is locked and the running one goes on.                                  *)
LEMMA SchedCur ==
    ASSUME SemInv, k'.lock = k.lock, k.lock # 0 => k'.cur = k.cur,
           k.lock = 0 => Chosen(k'),
           \A t \in Task : k.stat[t] = "READY" => k'.stat[t] = "READY",
           Deleting' \subseteq Deleting
    PROVE  CurOK' /\ UrgentOK'
<1>1. "delete" \notin Ops => Deleting' = {}
  BY DEF SemInv, UrgentOK
<1>2. CASE k.lock = 0
  BY <1>1, <1>2, ChosenOK
<1>3. CASE k.lock # 0
  <2>1. k.cur \in Task /\ k.stat[k.cur] = "READY"
    BY <1>3 DEF SemInv, CurOK, TasksOK
  <2> QED  BY <1>1, <1>3, <2>1 DEF CurOK, UrgentOK
<1> QED  BY <1>2, <1>3

(* Nobody deletes before or after a step that begins no deletion.          *)
LEMMA NoDeletion ==
    ASSUME Deleting = {},
           \A t \in Task : pc'[t] \in {"delCheck", "delNext"} => pc'[t] = pc[t]
    PROVE  Deleting' = {} /\ DeleteOK'
<1>1. Deleting' = {}
  BY DEF Deleting
<1> QED  BY <1>1 DEF DeleteOK, Deleting

(* One waiter becomes READY and leaves the list and the timer list; the    *)
(* others keep their places.                                               *)
LEMMA ServedStep ==
    ASSUME SemInv, TypeOK', KernelOK(k', {}), k'.prio = k.prio,
           NEW w \in Task, k'.stat = [k.stat EXCEPT ![w] = "READY"],
           k'.pend[Sem] = Unlink(k.pend[Sem], w), w \notin ToSet(k'.timers),
           \A u \in Task : u # w => (u \in ToSet(k'.timers) <=> u \in ToSet(k.timers)),
           \A u \in Task : u # w => k'.error[u] = k.error[u],
           \A u \in Waiters : /\ pc'[u] \in {"takeSched", "takeBack"}
                              /\ arg'[u] = arg[u],
           CurOK', CursorOK', DeleteOK', UrgentOK'
    PROVE  SemInv'
<1>1. /\ IsList(k.pend[Sem], Task) /\ k.stat \in [Task -> Stat]
      /\ Flag = "OS_IPC_PRIO" => Ordered(k.pend[Sem], k.prio)
  BY SemFacts
<1>2. Waiters' = Waiters \ {w}
  BY <1>1, UnlinkList DEF Waiters
<1>3. \A u \in Task : Stays(u) \/ Goes(u)
  BY <1>1, <1>2 DEF Stays, Goes
<1>4. PendingByPriority'
  <2>1. Flag = "OS_IPC_PRIO" => Ordered(Unlink(k.pend[Sem], w), k.prio)
    BY <1>1, OrderedRemove
  <2>2. Flag = "OS_IPC_PRIO" => Ordered(k'.pend[Sem], k'.prio)
    BY <2>1
  <2> QED  BY <2>2 DEF PendingByPriority, Ordered
<1> QED
  BY <1>3, <1>4, WaitStep

(* The waiters go on with their calls in a step of another task.           *)
LEMMA WaitersKept ==
    ASSUME SemInv, arg' = arg,
           \A u \in Waiters : pc'[u] = pc[u]
    PROVE  \A u \in Waiters : /\ pc'[u] \in {"takeSched", "takeBack"}
                              /\ arg'[u] = arg[u]
BY SemFacts DEF SemInv, WaitersExact

(* What os_list_resume does to the task w, and an os_sched after it.       *)
Served(s, r, w) ==
    /\ w \in Task /\ s.stat[w] = "SUSPEND"
    /\ r.stat = [s.stat EXCEPT ![w] = "READY"] /\ r.prio = s.prio
    /\ r.pend = [q \in Obj |-> Unlink(s.pend[q], w)]
    /\ ToSet(r.timers) = ToSet(s.timers) \ {w} /\ r.act = s.act \ {w}
    /\ w \notin s.act => r.timers = s.timers
    /\ r.lock = s.lock /\ r.isr = s.isr /\ r.n = s.n

(* Taking a waiter out of the pending list serves it.                      *)
LEMMA LeavesServed ==
    ASSUME NEW s, NEW r, NEW w, Leaves(s, r, Sem, w)
    PROVE  Served(s, r, w) /\ r.cur = s.cur
BY DEF Leaves, Served, SameControl

(* A step that only serves w: no matter who does it.                       *)
LEMMA LeavesStep ==
    ASSUME SemInv, KernelOK(k', {}), value' \in 0..MaxValue, arg' = arg,
           pc' \in [Task -> Step], \A u \in Waiters : pc'[u] = pc[u],
           NEW w, Served(k, k', w),
           \A u \in Task : u # w => k'.error[u] = k.error[u],
           CurOK', CursorOK', DeleteOK', UrgentOK'
    PROVE  SemInv'
<1>1. /\ w \in Task /\ k'.stat = [k.stat EXCEPT ![w] = "READY"]
      /\ k'.pend = [q \in Obj |-> Unlink(k.pend[q], w)] /\ k'.prio = k.prio
      /\ ToSet(k'.timers) = ToSet(k.timers) \ {w}
  BY DEF Served
<1>2. k'.pend[Sem] = Unlink(k.pend[Sem], w)
  BY <1>1, SemAssumption
<1>3. \A u \in Waiters : /\ pc'[u] \in {"takeSched", "takeBack"}
                         /\ arg'[u] = arg[u]
  BY WaitersKept
<1>4. TypeOK'
  BY DEF SemInv, TypeOK, KernelOK
<1>5. /\ w \notin ToSet(k'.timers)
      /\ \A u \in Task : u # w => (u \in ToSet(k'.timers) <=> u \in ToSet(k.timers))
  BY <1>1
<1> QED
  BY <1>1, <1>2, <1>3, <1>4, <1>5, ServedStep

(* os_sem_release by a task, with a waiter.                                *)
LEMMA GiveOK ==
    ASSUME Risky = {}, SemInv, NEW t \in Task, Give(t)
    PROVE  SemInv'
<1>1. /\ Runs(t) /\ pc[t] = "app" /\ k' = GiveTo(k) /\ GiveValue /\ Deleting = {}
      /\ pc' = [pc EXCEPT ![t] = IF k.pend[Sem] # <<>> THEN "sched" ELSE "app"]
      /\ arg' = arg
  BY NobodyDeletes DEF Give, Calls, Goto
<1>2. /\ k \in Kernel /\ KernelOK(k, {}) /\ Sem \in Obj /\ Waiters \subseteq Task
      /\ pc \in [Task -> Step]
  BY SemFacts
<1>3. /\ pc'[t] = IF k.pend[Sem] # <<>> THEN "sched" ELSE "app"
      /\ \A u \in Task : u # t => pc'[u] = pc[u]
      /\ pc' \in [Task -> Step]
  BY <1>1, <1>2 DEF Step
<1>4. t \notin Waiters /\ k.stat[t] = "READY" /\ k.cur = t /\ k.isr = 0
  BY <1>1, BusyNotWaiting DEF Runs
<1>5. value' \in 0..MaxValue
  BY <1>1, GiveValueOK
<1>6. Deleting' = {} /\ DeleteOK'
  BY <1>1, <1>3, NoDeletion
<1>7. \A u \in Waiters : pc'[u] = pc[u]
  BY <1>2, <1>3, <1>4
<1>8. CASE k.pend[Sem] = <<>>
  <2>1. k' = k /\ pc' = pc
    BY <1>1, <1>2, <1>3, <1>8 DEF GiveTo
  <2>2. KernelOK(k', {})
    BY <1>2, <2>1
  <2>3. CurOK' /\ UrgentOK' /\ CursorOK'
    BY <2>1 DEF SemInv, CurOK, UrgentOK, CursorOK, Deleting
  <2>4. \A u \in Waiters : pc'[u] \in {"takeSched", "takeBack"}
    BY <1>1, <1>7, WaitersKept
  <2> QED
    BY <1>1, <1>3, <2>1, <2>2, <2>3, <2>4, KernelStep
<1>9. CASE k.pend[Sem] # <<>>
  <2>1. k' = ListResume(k, Sem)
    BY <1>1, <1>9 DEF GiveTo
  <2> DEFINE w == Foremost(k, Sem)
  <2>6. KernelOK(k', {}) /\ Leaves(k, k', Sem, w) /\ k'.error = k.error
    BY <1>2, <1>9, <2>1, ListResumeOK
  <2> HIDE DEF w
  <2>2. Served(k, k', w) /\ k'.cur = k.cur /\ KernelOK(k', {}) /\ k'.error = k.error
    BY <2>6, LeavesServed
  <2>3. k'.cur = t /\ k'.isr = 0 /\ k'.stat = [k.stat EXCEPT ![w] = "READY"]
    BY <1>4, <2>2 DEF Served
  <2>4. k'.stat[t] = "READY"
    BY <1>4, <2>3, SemFacts
  <2>5. CurOK' /\ UrgentOK' /\ CursorOK'
    BY <1>3, <1>6, <1>9, <2>3, <2>4 DEF CurOK, UrgentOK, CursorOK
  <2> QED
    BY <1>1, <1>3, <1>5, <1>6, <1>7, <2>2, <2>5, LeavesStep
<1> QED  BY <1>8, <1>9

(* os_sem_give of a handler: whom it serves, and who runs then.            *)
LEMMA IsrGiveToOK ==
    ASSUME NEW s, KernelOK(s, {}), s.stat[Idle] = "READY", s.pend[Sem] # <<>>,
           NEW r, r = IsrGiveTo(s)
    PROVE  /\ KernelOK(r, {}) /\ Served(s, r, Foremost(s, Sem))
           /\ r.error = s.error
           /\ s.lock # 0 => r.cur = s.cur
           /\ s.lock = 0 => Chosen(r)
<1> DEFINE q == ListResume(s, Sem)
           w == Foremost(s, Sem)
<1>1. Sem \in Obj /\ Idle \in Task /\ Idle \notin {}
  BY SemAssumption, KernelAssumption
<1>2. KernelOK(q, {}) /\ Leaves(s, q, Sem, w) /\ q.error = s.error
  BY <1>1, ListResumeOK
<1>3. r = Sched(q)
  BY DEF IsrGiveTo, GiveTo
<1> HIDE DEF q, w
<1>4. Served(s, q, w) /\ q.cur = s.cur
  BY <1>2, LeavesServed
<1>5. q.stat[Idle] = "READY" /\ q \in Kernel
  BY <1>1, <1>2, <1>4 DEF Served, KernelOK, Kernel
<1>6. /\ KernelOK(r, {})
      /\ SameLists(q, r) /\ SameTasks(q, r) /\ SameTimers(q, r)
      /\ r.lock = q.lock /\ r.isr = q.isr /\ r.n = q.n
      /\ q.lock # 0 => r.cur = q.cur
      /\ q.lock = 0 =>
            /\ r.cur \in Task /\ r.cur \notin {} /\ q.stat[r.cur] = "READY"
            /\ \A u \in Task : u \notin {} /\ q.stat[u] = "READY"
                                => q.prio[r.cur] <= q.prio[u]
  BY <1>1, <1>2, <1>3, <1>5, SchedOK
<1>7. r.error = s.error
  BY <1>2, <1>3, <1>5, ErrorKept
<1>8. Served(s, r, w)
  BY <1>4, <1>6 DEF Served, SameLists, SameTasks, SameTimers
<1>9. q.lock = s.lock
  BY <1>4 DEF Served
<1>10. q.lock = 0 => Chosen(r)
  BY <1>6 DEF Chosen, SameTasks
<1> QED
  BY <1>4, <1>6, <1>7, <1>8, <1>9, <1>10 DEF w

(* os_sem_release in an interrupt handler.                                 *)
LEMMA IsrGiveOK ==
    ASSUME Risky = {}, SemInv, IsrGive
    PROVE  SemInv'
<1>1. /\ k' = IsrGiveTo(k) /\ GiveValue /\ Deleting = {} /\ k.isr = 0
      /\ pc' = pc /\ arg' = arg
  BY NobodyDeletes DEF IsrGive
<1>2. /\ k \in Kernel /\ KernelOK(k, {}) /\ Waiters \subseteq Task
      /\ pc \in [Task -> Step] /\ k.stat[Idle] = "READY"
      /\ k.stat \in [Task -> Stat]
  BY SemFacts
<1>3. value' \in 0..MaxValue
  BY <1>1, GiveValueOK
<1>4. Deleting' = {} /\ DeleteOK'
  BY <1>1, NoDeletion
<1>5. CASE k.pend[Sem] = <<>>
  <2>1. k' = k
    BY <1>1, <1>5 DEF IsrGiveTo
  <2>2. KernelOK(k', {})
    BY <1>2, <2>1
  <2>3. CurOK' /\ UrgentOK' /\ CursorOK'
    BY <1>1, <2>1 DEF SemInv, CurOK, UrgentOK, CursorOK, Deleting
  <2>4. \A u \in Waiters : pc'[u] \in {"takeSched", "takeBack"}
    BY <1>1, WaitersKept
  <2> QED
    BY <1>1, <1>2, <2>1, <2>2, <2>3, <2>4, KernelStep
<1>6. CASE k.pend[Sem] # <<>>
  <2> DEFINE w == Foremost(k, Sem)
  <2>1. /\ KernelOK(k', {}) /\ Served(k, k', w) /\ k'.error = k.error
        /\ k.lock # 0 => k'.cur = k.cur
        /\ k.lock = 0 => Chosen(k')
    BY <1>1, <1>2, <1>6, IsrGiveToOK
  <2> HIDE DEF w
  <2>2. /\ k'.lock = k.lock /\ k'.isr = 0
        /\ \A t \in Task : k.stat[t] = "READY" => k'.stat[t] = "READY"
    BY <1>1, <1>2, <2>1 DEF Served
  <2>3. CurOK' /\ UrgentOK'
    BY <1>4, <2>1, <2>2, SchedCur
  <2>4. CursorOK'
    BY <2>2 DEF CursorOK
  <2> QED
    BY <1>1, <1>2, <1>3, <1>4, <2>1, <2>3, <2>4, LeavesStep
<1> QED  BY <1>5, <1>6

(* The next waiter is there, and its answer is OS_ERROR.                   *)
LEMMA DeleteNextOK ==
    ASSUME SemInv, NEW t \in Task, DeleteNext(t)
    PROVE  SemInv'
<1>1. /\ Runs(t) /\ pc[t] = "delNext" /\ k' = WakeHead(k, Sem)
      /\ k.pend[Sem] # <<>> /\ pc' = [pc EXCEPT ![t] = "delCheck"]
      /\ value' = value /\ arg' = arg
  BY DEF DeleteNext, Goto
<1>2. /\ k \in Kernel /\ KernelOK(k, {}) /\ Sem \in Obj /\ Waiters \subseteq Task
      /\ pc \in [Task -> Step] /\ k.stat \in [Task -> Stat]
      /\ k.error \in [Task -> Errno] /\ value \in 0..MaxValue
      /\ IsList(k.pend[Sem], Task)
  BY SemFacts
<1>3. /\ pc'[t] = "delCheck" /\ \A u \in Task : u # t => pc'[u] = pc[u]
      /\ pc' \in [Task -> Step]
  BY <1>1, <1>2 DEF Step
<1>4. t \notin Waiters /\ k.stat[t] = "READY" /\ k.cur = t /\ k.isr = 0
  BY <1>1, BusyNotWaiting DEF Runs
<1>5. \A u \in Waiters : pc'[u] = pc[u]
  BY <1>2, <1>3, <1>4
<1> DEFINE w == Foremost(k, Sem)
<1>6. /\ KernelOK(k', {}) /\ Leaves(k, k', Sem, w)
      /\ k'.error = [k.error EXCEPT ![w] = "OS_ERROR"]
  BY <1>1, <1>2, WakeHeadOK
<1> HIDE DEF w
<1>7. Served(k, k', w) /\ k'.cur = t
  BY <1>4, <1>6, LeavesServed
<1>8. \A u \in Task : u # w => k'.error[u] = k.error[u]
  BY <1>2, <1>6
<1>9. Deleting' = Deleting /\ t \in Deleting
  BY <1>1, <1>3 DEF Deleting
<1>10. Waiters' \subseteq Waiters /\ k'.act \subseteq k.act
  BY <1>2, <1>7, UnlinkList DEF Waiters, Served
<1>11. DeleteOK'
  BY <1>1, <1>3, <1>9, <1>10 DEF SemInv, DeleteOK, Deleting
<1>12. CurOK' /\ UrgentOK' /\ CursorOK'
  <2>1. k'.stat[t] = "READY" /\ k'.isr = 0
    BY <1>2, <1>4, <1>7 DEF Served
  <2>2. "delete" \in Ops
    BY <1>9 DEF SemInv, UrgentOK
  <2> QED  BY <1>7, <2>1, <2>2 DEF CurOK, UrgentOK, CursorOK
<1> QED
  BY <1>1, <1>2, <1>3, <1>5, <1>6, <1>7, <1>8, <1>11, <1>12, LeavesStep

(* os_sem_reset resumes all waiters in one critical section.               *)
LEMMA ResetOK ==
    ASSUME Risky = {}, SemInv, NEW t \in Task, NEW v \in 0..MaxValue, Reset(t, v)
    PROVE  SemInv'
<1>1. /\ Runs(t) /\ pc[t] = "app" /\ k' = ListResumeAll(k, Sem) /\ Deleting = {}
      /\ value' = v /\ pc' = [pc EXCEPT ![t] = "sched"] /\ arg' = arg
  BY NobodyDeletes DEF Reset, Calls, Goto
<1>2. /\ k \in Kernel /\ KernelOK(k, {}) /\ Sem \in Obj /\ Waiters \subseteq Task
      /\ pc \in [Task -> Step]
  BY SemFacts
<1>3. /\ pc'[t] = "sched" /\ \A u \in Task : u # t => pc'[u] = pc[u]
      /\ pc' \in [Task -> Step]
  BY <1>1, <1>2 DEF Step
<1>4. t \notin Waiters /\ k.stat[t] = "READY" /\ k.cur = t /\ k.isr = 0
  BY <1>1, BusyNotWaiting DEF Runs
<1>5. KernelOK(k', {}) /\ Emptied(k, k', Sem) /\ k'.pend[Sem] = <<>>
  BY <1>1, <1>2, ListResumeAllOK
<1>6. Waiters' = {}
  BY <1>5, EmptyList DEF Waiters
<1>7. \A u \in Task : Stays(u) \/ Goes(u)
  <2>1. \A u \in Task : u \in Waiters => Goes(u)
    BY <1>5, <1>6 DEF Goes, Emptied, Waiters
  <2>2. \A u \in Task : u \notin Waiters => Stays(u)
    BY <1>5, <1>6 DEF Stays, Emptied, Waiters
  <2> QED  BY <2>1, <2>2
<1>8. k'.stat[t] = "READY" /\ k'.cur = t /\ k'.isr = 0 /\ k'.prio = k.prio
  BY <1>4, <1>5 DEF Emptied, SameControl, Waiters
<1>9. CurOK' /\ UrgentOK' /\ CursorOK' /\ Deleting' = {} /\ DeleteOK'
  <2>1. Deleting' = {} /\ DeleteOK'
    BY <1>1, <1>3, NoDeletion
  <2> QED  BY <1>3, <1>8, <2>1 DEF CurOK, UrgentOK, CursorOK
<1>10. PendingByPriority'
  BY <1>5 DEF PendingByPriority
<1>11. TypeOK'
  BY <1>1, <1>3, <1>5 DEF SemInv, TypeOK, KernelOK
<1> QED
  BY <1>5, <1>7, <1>8, <1>9, <1>10, <1>11, WaitStep

-----------------------------------------------------------------------------
(* The steps of the timers *)

(* A due timer of a task is that of a waiter, and nobody deletes.          *)
LEMMA DueTimer ==
    ASSUME SemInv, Due(k)
    PROVE  /\ k.n \in ToSet(k.timers) /\ k.n \in Timer
           /\ k.n \in Task => k.n \in Waiters /\ k.n \in k.act /\ Deleting = {}
<1>1. k \in Kernel /\ KernelOK(k, {}) /\ k.isr = 1 /\ k.n # ListHead
  BY SemFacts DEF Due
<1>2. k.n \in ToSet(k.timers) /\ k.n \in Timer
  BY <1>1 DEF SemInv, CursorOK, Kernel
<1>3. k.n \in Task => k.n \in Waiters /\ k.n \in k.act
  BY <1>1, <1>2 DEF SemInv, WaitersExact, KernelOK, TimerList
<1> QED  BY <1>2, <1>3 DEF SemInv, DeleteOK

(* The timer of a task: os_task_timeout takes the task out of the pending  *)
(* list.                                                                   *)
LEMMA TaskTimerFireOK ==
    ASSUME SemInv, TaskTimerFire
    PROVE  /\ SemInv' /\ k.n \in Waiters
           /\ k'.pend[Sem] = Unlink(k.pend[Sem], k.n)
           /\ k'.error = [k.error EXCEPT ![k.n] = "OS_TIMEOUT"]
<1> DEFINE w == k.n
           s == TimerTake(k)
           r == TaskTimeout(s, w)
<1>1. /\ Due(k) /\ w \in Task /\ k' = TimerAfter(r, w)
      /\ value' = value /\ pc' = pc /\ arg' = arg
  BY DEF TaskTimerFire
<1>2. /\ k \in Kernel /\ KernelOK(k, {}) /\ Waiters \subseteq Task
      /\ k.stat[Idle] = "READY" /\ Idle \notin {}
      /\ pc \in [Task -> Step] /\ k.stat \in [Task -> Stat]
      /\ k.error \in [Task -> Errno] /\ Sem \in Obj
  BY SemFacts
<1>3. /\ w \in ToSet(k.timers) /\ w \in Waiters /\ Deleting = {} /\ w \in Timer
      /\ k.stat[w] = "SUSPEND" /\ w \notin {}
  BY <1>1, DueTimer DEF SemInv, WaitersExact
<1>4. /\ KernelOK(s, {})
      /\ ToSet(s.timers) = ToSet(k.timers) \ {w}
      /\ s.n = ListHead \/ s.n \in ToSet(s.timers)
      /\ SameLists(k, s) /\ SameTasks(k, s) /\ s.act = k.act
      /\ s.cur = k.cur /\ s.lock = k.lock /\ s.isr = k.isr
  BY <1>2, <1>3, TimerTakeOK
<1>5. s.error = k.error
  BY <1>2, ErrorKept
<1>21. r = TaskTimeout(s, w)
  OBVIOUS
<1> HIDE DEF s, r, w
<1>6. /\ KernelOK(s, {}) /\ s.stat[Idle] = "READY" /\ Idle \notin {}
      /\ w \in Task /\ w \notin {} /\ s.stat[w] = "SUSPEND"
      /\ w \notin ToSet(s.timers)
  BY <1>1, <1>2, <1>3, <1>4 DEF SameTasks
<1>7. /\ KernelOK(r, {})
      /\ r.stat = [s.stat EXCEPT ![w] = "READY"]
      /\ r.prio = s.prio /\ r.mask = s.mask /\ r.defunct = s.defunct
      /\ SameTimers(s, r)
      /\ r.lock = s.lock /\ r.isr = s.isr /\ r.n = s.n
      /\ s.lock # 0 => r.cur = s.cur
      /\ s.lock = 0 =>
            /\ r.cur \in Task /\ r.cur \notin {} /\ r.stat[r.cur] = "READY"
            /\ \A u \in Task : u \notin {} /\ r.stat[u] = "READY"
                                => r.prio[r.cur] <= r.prio[u]
  BY <1>6, <1>21, TaskTimeoutOK
<1>8. /\ r.pend = [o \in Obj |-> Unlink(s.pend[o], w)]
      /\ r.error = [s.error EXCEPT ![w] = "OS_TIMEOUT"]
  BY <1>1, <1>4, <1>21, TaskTimeoutPend
<1>9. w \notin ToSet(r.timers) /\ r \in Kernel
  BY <1>6, <1>7 DEF SameTimers, KernelOK
<1>10. /\ KernelOK(k', {})
       /\ ToSet(r.timers) \subseteq ToSet(k'.timers)
       /\ \A u \in Task : u \in ToSet(k'.timers) => u \in ToSet(r.timers)
       /\ SameLists(r, k') /\ SameTasks(r, k') /\ SameControl(r, k')
  BY <1>1, <1>3, <1>7, <1>9, TimerAfterOK
<1>11. k'.error = r.error
  BY <1>1, <1>9, ErrorKept
<1>12. /\ k'.stat = [k.stat EXCEPT ![w] = "READY"] /\ k'.prio = k.prio
       /\ k'.lock = k.lock /\ k'.isr = k.isr /\ k'.n = s.n
  BY <1>4, <1>7, <1>10 DEF SameTasks, SameControl
<1>13. k'.pend[Sem] = Unlink(k.pend[Sem], w)
  BY <1>2, <1>4, <1>8, <1>10 DEF SameLists
<1>14. /\ w \notin ToSet(k'.timers)
       /\ \A u \in Task : u # w => (u \in ToSet(k'.timers) <=> u \in ToSet(k.timers))
  BY <1>1, <1>4, <1>7, <1>9, <1>10 DEF SameTimers
<1>15. \A u \in Task : u # w => k'.error[u] = k.error[u]
  BY <1>2, <1>5, <1>8, <1>11
<1>16. Deleting' = {} /\ DeleteOK'
  BY <1>1, <1>3, NoDeletion
<1>17. CursorOK'
  BY <1>4, <1>7, <1>10, <1>12 DEF CursorOK, SameTimers
<1>18. CurOK' /\ UrgentOK'
  <2>1. \A u \in Task : k.stat[u] = "READY" => k'.stat[u] = "READY"
    BY <1>2, <1>12
  <2>2. k.lock # 0 => k'.cur = k.cur
    BY <1>4, <1>7, <1>10 DEF SameControl
  <2>3. k.lock = 0 => Chosen(k')
    BY <1>4, <1>7, <1>10 DEF SameControl, SameTasks, Chosen
  <2> QED  BY <1>12, <1>16, <2>1, <2>2, <2>3, SchedCur
<1>19. TypeOK'
  BY <1>1, <1>10 DEF SemInv, TypeOK, KernelOK
<1>20. \A u \in Waiters : /\ pc'[u] \in {"takeSched", "takeBack"}
                          /\ arg'[u] = arg[u]
  BY <1>1, WaitersKept
<1>22. SemInv'
  BY <1>1, <1>10, <1>12, <1>13, <1>14, <1>15, <1>16, <1>17, <1>18, <1>19, <1>20,
     ServedStep
<1> QED
  BY <1>3, <1>5, <1>8, <1>11, <1>13, <1>22 DEF w

(* The callback that leaves the semaphore alone, or finds nobody to serve. *)
LEMMA CallbackCounts ==
    ASSUME SemInv, Due(k), k.n \in UserTimer,
           k' = TimerAfter(TimerTake(k), k.n), value' = value \/ GiveValue,
           pc' = pc, arg' = arg
    PROVE  SemInv' /\ k'.pend[Sem] = k.pend[Sem] /\ k'.error = k.error
<1> DEFINE x == k.n
           s == TimerTake(k)
<1>1. /\ k \in Kernel /\ KernelOK(k, {}) /\ Waiters \subseteq Task
      /\ pc \in [Task -> Step]
  BY SemFacts
<1>2. x \in ToSet(k.timers) /\ x \in Timer /\ x \notin Task
  BY DueTimer, KernelAssumption
<1>3. /\ KernelOK(s, {})
      /\ ToSet(s.timers) = ToSet(k.timers) \ {x}
      /\ s.n = ListHead \/ s.n \in ToSet(s.timers)
      /\ SameLists(k, s) /\ SameTasks(k, s) /\ s.act = k.act
      /\ s.cur = k.cur /\ s.lock = k.lock /\ s.isr = k.isr
  BY <1>1, <1>2, TimerTakeOK
<1>4. s.error = k.error
  BY <1>1, ErrorKept
<1>5. k' = TimerAfter(s, x)
  OBVIOUS
<1> HIDE DEF s, x
<1>6. x \notin ToSet(s.timers) /\ s \in Kernel
  BY <1>3 DEF KernelOK
<1>7. /\ KernelOK(k', {})
      /\ ToSet(s.timers) \subseteq ToSet(k'.timers)
      /\ \A u \in Task : u \in ToSet(k'.timers) => u \in ToSet(s.timers)
      /\ SameLists(s, k') /\ SameTasks(s, k') /\ SameControl(s, k')
  BY <1>2, <1>3, <1>5, <1>6, TimerAfterOK
<1>8. k'.error = k.error
  BY <1>4, <1>5, <1>6, ErrorKept
<1>9. \A t \in Task : t \in k'.act => t \in k.act
  BY <1>2, <1>3, <1>5, <1>6, TimerAfterAct
<1>10. \A t \in Task : t \in ToSet(k'.timers) <=> t \in ToSet(k.timers)
  BY <1>2, <1>3, <1>7
<1>11. CursorOK'
  BY <1>3, <1>7 DEF CursorOK, SameControl
<1>12. CurOK' /\ UrgentOK'
  BY <1>3, <1>7 DEF SemInv, CurOK, UrgentOK, Deleting, SameTasks, SameControl
<1>13. /\ k'.prio = k.prio /\ k'.stat = k.stat /\ k'.pend = k.pend
  BY <1>3, <1>7 DEF SameLists, SameTasks
<1>14. \A u \in Waiters : pc'[u] \in {"takeSched", "takeBack"}
  BY WaitersKept
<1>15. SemInv'
  BY <1>1, <1>7, <1>8, <1>9, <1>10, <1>11, <1>12, <1>13, <1>14, KernelStep
<1> QED
  BY <1>8, <1>13, <1>15

(* The callback that serves a waiter: it has no timeout, so that the       *)
(* cursor of os_timer_check stays in the list.                             *)
LEMMA CallbackServes ==
    ASSUME Risky = {}, SemInv, Due(k), k.n \in UserTimer, CallbackGives,
           k.pend[Sem] # <<>>,
           k' = TimerAfter(IsrGiveTo(TimerTake(k)), k.n), GiveValue,
           pc' = pc, arg' = arg
    PROVE  /\ SemInv' /\ k'.error = k.error
           /\ k'.pend[Sem] = Unlink(k.pend[Sem], Foremost(k, Sem))
<1> DEFINE x == k.n
           s == TimerTake(k)
           r == IsrGiveTo(s)
           w == Foremost(s, Sem)
<1>1. /\ k \in Kernel /\ KernelOK(k, {}) /\ Waiters \subseteq Task
      /\ pc \in [Task -> Step] /\ k.stat[Idle] = "READY" /\ Sem \in Obj
      /\ k.stat \in [Task -> Stat]
  BY SemFacts
<1>2. x \in ToSet(k.timers) /\ x \in Timer /\ x \notin Task
  BY DueTimer, KernelAssumption
<1>3. /\ KernelOK(s, {})
      /\ ToSet(s.timers) = ToSet(k.timers) \ {x}
      /\ s.n = ListHead \/ s.n \in ToSet(s.timers)
      /\ SameLists(k, s) /\ SameTasks(k, s) /\ s.act = k.act
      /\ s.cur = k.cur /\ s.lock = k.lock /\ s.isr = k.isr
  BY <1>1, <1>2, TimerTakeOK
<1>4. s.error = k.error
  BY <1>1, ErrorKept
<1>5. k' = TimerAfter(r, x)
  OBVIOUS
<1> HIDE DEF s, x
<1>6. s.stat[Idle] = "READY" /\ s.pend[Sem] = k.pend[Sem] /\ s.pend[Sem] # <<>>
  BY <1>1, <1>3 DEF SameLists, SameTasks
<1>7. /\ KernelOK(r, {}) /\ Served(s, r, w) /\ r.error = s.error
      /\ s.lock # 0 => r.cur = s.cur
      /\ s.lock = 0 => Chosen(r)
  BY <1>3, <1>6, IsrGiveToOK
<1> HIDE DEF r
<1>8. w \in Task /\ w \in Waiters /\ w \notin k.act /\ Deleting = {}
  <2>1. w \in ToSet(s.pend[Sem]) /\ w \in Task
    BY <1>1, <1>3, <1>6, ForemostOK
  <2>2. \A u \in Waiters : u \notin k.act
    BY DEF CallbackGives
  <2>3. Deleting = {}
    BY NobodyDeletes DEF CallbackGives
  <2> QED  BY <1>6, <2>1, <2>2, <2>3 DEF Waiters
<1>21. w = Foremost(k, Sem)
  BY <1>6 DEF Foremost
<1> HIDE DEF w
<1>9. r.timers = s.timers /\ r.n = s.n /\ r \in Kernel /\ x \notin ToSet(r.timers)
  BY <1>3, <1>7, <1>8 DEF Served, KernelOK
<1>10. /\ KernelOK(k', {})
       /\ ToSet(r.timers) \subseteq ToSet(k'.timers)
       /\ \A u \in Task : u \in ToSet(k'.timers) => u \in ToSet(r.timers)
       /\ SameLists(r, k') /\ SameTasks(r, k') /\ SameControl(r, k')
  BY <1>2, <1>5, <1>7, <1>9, TimerAfterOK
<1>11. k'.error = k.error
  BY <1>4, <1>5, <1>7, <1>9, ErrorKept
<1>12. /\ k'.stat = [k.stat EXCEPT ![w] = "READY"] /\ k'.prio = k.prio
       /\ k'.lock = k.lock /\ k'.isr = k.isr /\ k'.n = s.n
  BY <1>3, <1>7, <1>9, <1>10 DEF SameTasks, SameControl, Served
<1>13. k'.pend[Sem] = Unlink(k.pend[Sem], w)
  BY <1>1, <1>6, <1>7, <1>10 DEF SameLists, Served
<1>14. /\ w \notin ToSet(k'.timers)
       /\ \A u \in Task : u # w => (u \in ToSet(k'.timers) <=> u \in ToSet(k.timers))
  <2>1. w \notin ToSet(r.timers)
    BY <1>7 DEF Served
  <2> QED  BY <1>2, <1>3, <1>8, <1>9, <1>10, <2>1
<1>15. \A u \in Task : u # w => k'.error[u] = k.error[u]
  BY <1>11
<1>16. Deleting' = {} /\ DeleteOK'
  BY <1>8, NoDeletion
<1>17. CursorOK'
  BY <1>3, <1>9, <1>10, <1>12 DEF CursorOK
<1>18. CurOK' /\ UrgentOK'
  <2>1. \A u \in Task : k.stat[u] = "READY" => k'.stat[u] = "READY"
    BY <1>1, <1>8, <1>12
  <2>2. k.lock # 0 => k'.cur = k.cur
    BY <1>3, <1>7, <1>10 DEF SameControl
  <2>3. k.lock = 0 => Chosen(k')
    BY <1>3, <1>7, <1>10 DEF SameControl, SameTasks, Chosen
  <2> QED  BY <1>12, <1>16, <2>1, <2>2, <2>3, SchedCur
<1>19. TypeOK'
  BY <1>10, GiveValueOK DEF SemInv, TypeOK, KernelOK
<1>20. \A u \in Waiters : /\ pc'[u] \in {"takeSched", "takeBack"}
                          /\ arg'[u] = arg[u]
  BY WaitersKept
<1>22. SemInv'
  BY <1>8, <1>10, <1>12, <1>13, <1>14, <1>15, <1>16, <1>17, <1>18, <1>19, <1>20,
     ServedStep
<1> QED
  BY <1>11, <1>13, <1>21, <1>22

(* The timer of the application: its callback gives the semaphore.         *)
LEMMA UserTimerFireOK ==
    ASSUME Risky = {}, SemInv, UserTimerFire
    PROVE  /\ SemInv' /\ k'.error = k.error
           /\ \/ k'.pend[Sem] = k.pend[Sem] /\ value' = value
              \/ k'.pend[Sem] = k.pend[Sem] /\ k.pend[Sem] = <<>> /\ GiveValue
              \/ /\ k.pend[Sem] # <<>> /\ GiveValue
                 /\ k'.pend[Sem] = Unlink(k.pend[Sem], Foremost(k, Sem))
<1>1. /\ Due(k) /\ k.n \in UserTimer /\ pc' = pc /\ arg' = arg
      /\ IF CallbackGives
         THEN k' = TimerAfter(IsrGiveTo(TimerTake(k)), k.n) /\ GiveValue
         ELSE k' = TimerAfter(TimerTake(k), k.n) /\ value' = value
  BY DEF UserTimerFire
<1>2. TimerTake(k).pend[Sem] = k.pend[Sem]
  BY SemFacts DEF TimerTake, Kernel
<1>3. CASE ~CallbackGives
  BY <1>1, <1>3, CallbackCounts
<1>4. CASE CallbackGives /\ k.pend[Sem] = <<>>
  <2>1. IsrGiveTo(TimerTake(k)) = TimerTake(k)
    BY <1>2, <1>4 DEF IsrGiveTo
  <2> QED  BY <1>1, <1>4, <2>1, CallbackCounts
<1>5. CASE CallbackGives /\ k.pend[Sem] # <<>>
  BY <1>1, <1>5, CallbackServes
<1> QED  BY <1>3, <1>4, <1>5

-----------------------------------------------------------------------------
(* os_sem_take finds no token *)

(* What the critical section does: its task is in the list, at the end or  *)
(* in front of the first that is less urgent, with its timer if it has a   *)
(* timeout.                                                                *)
Suspended(r, t, d) ==
    /\ KernelOK(r, {})
    /\ r.stat = [k.stat EXCEPT ![t] = "SUSPEND"]
    /\ r.error = [k.error EXCEPT ![t] = "OS_OK"]
    /\ r.prio = k.prio /\ SameControl(k, r)
    /\ \A u \in Task : u # t => (u \in ToSet(r.timers) <=> u \in ToSet(k.timers))
    /\ t \in ToSet(r.timers) <=> d # Forever

Queued(r, t) ==
    \E i \in 1..Len(k.pend[Sem]) + 1 :
        /\ r.pend = [k.pend EXCEPT ![Sem] = InsertAt(@, i, t)]
        /\ Flag = "OS_IPC_FIFO" => i = Len(k.pend[Sem]) + 1
        /\ Flag # "OS_IPC_FIFO" =>
              /\ \A j \in 1..i - 1 : ~(k.prio[t] < k.prio[k.pend[Sem][j]])
              /\ i <= Len(k.pend[Sem]) => k.prio[t] < k.prio[k.pend[Sem][i]]

(* The state after the critical section of an os_sem_take that waits.      *)
LEMMA TakeWaitState ==
    ASSUME Risky = {}, SemInv, NEW t \in Task, NEW d \in Timeout, TakeWait(t, d)
    PROVE  Suspended(k', t, d) /\ Queued(k', t)
<1> DEFINE a == SetError(k, t, "OS_OK")
           s == ListSuspend(a, Sem, t, Flag)
<1>1. /\ Runs(t) /\ pc[t] = "app"
      /\ k' = IF d # Forever THEN TimerStart(s, t, d) ELSE s
  BY DEF TakeWait, Calls, SetError
<1>2. /\ k \in Kernel /\ KernelOK(k, {}) /\ Sem \in Obj /\ t \notin {}
      /\ "OS_OK" \in Errno /\ k.error \in [Task -> Errno]
      /\ k.stat \in [Task -> Stat] /\ t \in Timer /\ d \in Nat
  BY SemFacts, SemAssumption DEF Errno, Timer
<1>3. k.stat[t] = "READY" /\ t \notin Waiters /\ t \notin ToSet(k.timers)
  BY <1>1, BusyNotWaiting DEF SemInv, WaitersExact
<1>4. /\ KernelOK(a, {})
      /\ SameLists(k, a) /\ SameTasks(k, a) /\ SameTimers(k, a)
      /\ SameControl(k, a)
  BY <1>2, SetErrorOK
<1>5. a.error = [k.error EXCEPT ![t] = "OS_OK"]
  BY <1>2 DEF SetError, Kernel
<1>6. s = ListSuspend(a, Sem, t, Flag)
  OBVIOUS
<1> HIDE DEF a, s
<1>7. a.stat[t] = "READY"
  BY <1>3, <1>4 DEF SameTasks
<1>8. /\ KernelOK(s, {})
      /\ s.stat = [a.stat EXCEPT ![t] = "SUSPEND"]
      /\ s.prio = a.prio /\ s.error = a.error /\ s.defunct = a.defunct
      /\ ToSet(s.timers) = ToSet(a.timers) /\ s.act = a.act \ {t}
      /\ SameControl(a, s)
      /\ \E i \in 1..Len(a.pend[Sem]) + 1 :
            /\ s.pend = [a.pend EXCEPT ![Sem] = InsertAt(@, i, t)]
            /\ Flag = "OS_IPC_FIFO" => i = Len(a.pend[Sem]) + 1
            /\ Flag # "OS_IPC_FIFO" =>
                  /\ \A j \in 1..i - 1 : ~(a.prio[t] < a.prio[a.pend[Sem][j]])
                  /\ i <= Len(a.pend[Sem]) => a.prio[t] < a.prio[a.pend[Sem][i]]
  BY <1>2, <1>4, <1>6, <1>7, ListSuspendOK
<1>9. a.pend = k.pend /\ a.prio = k.prio /\ a.stat = k.stat
  BY <1>4 DEF SameLists, SameTasks
<1>10. Queued(s, t)
  BY <1>8, <1>9 DEF Queued
<1>11. /\ KernelOK(s, {}) /\ s.stat = [k.stat EXCEPT ![t] = "SUSPEND"]
       /\ s.error = [k.error EXCEPT ![t] = "OS_OK"] /\ s.prio = k.prio
       /\ ToSet(s.timers) = ToSet(k.timers) /\ SameControl(k, s)
  BY <1>4, <1>5, <1>8, <1>9 DEF SameTimers, SameControl
<1>12. s.stat[t] = "SUSPEND" /\ s \in Kernel
  BY <1>2, <1>11 DEF KernelOK
<1>13. CASE d = Forever
  <2>1. k' = s
    BY <1>1, <1>13
  <2> QED  BY <1>3, <1>10, <1>11, <1>13, <2>1 DEF Suspended
<1>14. CASE d # Forever
  <2>1. k' = TimerStart(s, t, d)
    BY <1>1, <1>14
  <2>2. /\ KernelOK(k', {}) /\ ToSet(k'.timers) = ToSet(s.timers) \cup {t}
        /\ k'.act = s.act \cup {t}
        /\ SameLists(s, k') /\ SameTasks(s, k') /\ SameControl(s, k')
    BY <1>2, <1>11, <1>12, <2>1, TimerStartOK
  <2>3. k'.error = s.error
    BY <1>12, <2>1, ErrorKept
  <2>4. Suspended(k', t, d)
    BY <1>11, <1>14, <2>2, <2>3 DEF Suspended, SameTasks, SameControl
  <2>5. k'.pend = s.pend
    BY <2>2 DEF SameLists
  <2> QED  BY <1>10, <2>4, <2>5 DEF Queued
<1> QED  BY <1>13, <1>14

(* os_sem_take that waits.                                                 *)
LEMMA TakeWaitOK ==
    ASSUME Risky = {}, SemInv, NEW t \in Task, NEW d \in Timeout, TakeWait(t, d)
    PROVE  SemInv'
<1>1. /\ Runs(t) /\ pc[t] = "app" /\ t # Idle /\ k.lock = 0 /\ Deleting = {}
      /\ value' = value /\ pc' = [pc EXCEPT ![t] = "takeSched"]
      /\ arg' = [arg EXCEPT ![t] = d]
  BY NobodyDeletes DEF TakeWait, Calls, Goto, CanBlock
<1>2. /\ IsList(k.pend[Sem], Task) /\ k.pend \in [Obj -> Seq(Task)] /\ Sem \in Obj
      /\ k.prio \in [Task -> Nat] /\ k.stat \in [Task -> Stat]
      /\ k.error \in [Task -> Errno] /\ Waiters \subseteq Task
      /\ pc \in [Task -> Step] /\ arg \in [Task -> Timeout \cup {Forever}]
      /\ Flag = "OS_IPC_PRIO" => Ordered(k.pend[Sem], k.prio)
  BY SemFacts
<1>3. t \notin Waiters /\ k.cur = t /\ k.isr = 0
  BY <1>1, BusyNotWaiting DEF Runs
<1>4. Suspended(k', t, d) /\ Queued(k', t)
  BY TakeWaitState
<1>5. /\ pc'[t] = "takeSched" /\ \A u \in Task : u # t => pc'[u] = pc[u]
      /\ pc' \in [Task -> Step]
      /\ arg'[t] = d /\ \A u \in Task : u # t => arg'[u] = arg[u]
      /\ arg' \in [Task -> Timeout \cup {Forever}]
  BY <1>1, <1>2 DEF Step
<1>6. PICK i \in 1..Len(k.pend[Sem]) + 1 :
         /\ k'.pend = [k.pend EXCEPT ![Sem] = InsertAt(@, i, t)]
         /\ Flag # "OS_IPC_FIFO" =>
               /\ \A j \in 1..i - 1 : ~(k.prio[t] < k.prio[k.pend[Sem][j]])
               /\ i <= Len(k.pend[Sem]) => k.prio[t] < k.prio[k.pend[Sem][i]]
  BY <1>4 DEF Queued
<1>7. k'.pend[Sem] = InsertAt(k.pend[Sem], i, t)
  BY <1>2, <1>6
<1>8. Waiters' = Waiters \cup {t}
  BY <1>2, <1>3, <1>7, InsertAtList DEF Waiters
<1>9. Comes(t) /\ \A u \in Task : u # t => Stays(u)
  <2>1. Comes(t)
    BY <1>1, <1>2, <1>4, <1>5, <1>8 DEF Comes, Suspended
  <2>2. ASSUME NEW u \in Task, u # t
        PROVE  Stays(u)
    BY <1>2, <1>4, <1>5, <1>8, <2>2 DEF Stays, Suspended, SemInv, WaitersExact
  <2> QED  BY <2>1, <2>2
<1>10. PendingByPriority'
  <2>1. CASE Flag = "OS_IPC_PRIO"
    <3>1. t \notin ToSet(k.pend[Sem])
      BY <1>3 DEF Waiters
    <3>2. Ordered(InsertAt(k.pend[Sem], i, t), k.prio)
      BY <1>2, <1>6, <2>1, <3>1, OrderedInsert
    <3>3. k'.prio = k.prio
      BY <1>4 DEF Suspended
    <3> QED  BY <1>7, <3>2, <3>3 DEF PendingByPriority, Ordered
  <2>2. CASE Flag # "OS_IPC_PRIO"
    BY <2>2 DEF PendingByPriority
  <2> QED  BY <2>1, <2>2
<1>11. Deleting' = {} /\ DeleteOK'
  BY <1>1, <1>5, NoDeletion
<1>12. CurOK' /\ CursorOK' /\ UrgentOK'
  BY <1>1, <1>3, <1>4, <1>5, <1>11
     DEF CurOK, CursorOK, UrgentOK, Suspended, SameControl
<1>13. TypeOK' /\ KernelOK(k', {}) /\ k'.prio = k.prio
  BY <1>1, <1>4, <1>5 DEF SemInv, TypeOK, Suspended, KernelOK
<1> QED
  BY <1>9, <1>10, <1>11, <1>12, <1>13, WaitStep

-----------------------------------------------------------------------------
(* The theorems *)

(* SemInv holds when the application starts.                               *)
LEMMA SemInit ==
    ASSUME Init
    PROVE  SemInv
<1>1. IsFiniteSet(Task) /\ BasePrio \in [Task -> Prio] /\ Sem \in Obj
      /\ k = Running(BasePrio) /\ value = Value
      /\ pc = [t \in Task |-> "app"] /\ arg = [t \in Task |-> Forever]
  BY SemAssumption DEF Init
<1>2. /\ KernelOK(k, {})
      /\ \A t \in Task : k.stat[t] = "READY" /\ k.error[t] = "OS_OK"
      /\ \A o \in Obj : k.pend[o] = <<>>
      /\ k.prio = BasePrio /\ k.timers = <<>> /\ k.act = {}
      /\ k.lock = 0 /\ k.isr = 0 /\ k.n = ListHead /\ k.cur \in Task
      /\ \A u \in Task : k.prio[k.cur] <= k.prio[u]
  BY <1>1, RunningOK
<1>3. Waiters = {} /\ ToSet(k.timers) = {} /\ k.pend[Sem] = <<>>
  BY <1>1, <1>2, EmptyList DEF Waiters
<1>4. TypeOK
  BY <1>1, <1>2, SemAssumption DEF TypeOK, KernelOK, Step
<1>5. TasksOK /\ CurOK /\ CursorOK
  BY <1>2, KernelAssumption DEF TasksOK, CurOK, CursorOK
<1>6. WaitersExact /\ PendingByPriority /\ ErrorOK
  BY <1>2, <1>3 DEF WaitersExact, PendingByPriority, ErrorOK
<1>7. Deleting = {}
  BY <1>1 DEF Deleting
<1>8. DeleteOK /\ UrgentOK
  BY <1>1, <1>2, <1>7 DEF DeleteOK, UrgentOK
<1> QED
  BY <1>2, <1>4, <1>5, <1>6, <1>8 DEF SemInv

(* Each step keeps SemInv: one case for each action.                       *)
LEMMA SemStep ==
    ASSUME Risky = {}, SemInv, [Next]_vars
    PROVE  SemInv'
<1>1. ASSUME NEW t \in Task, Call(t)
      PROVE  SemInv'
  <2>1. CASE TakeNow(t)                       BY <2>1, TakeNowOK
  <2>2. CASE Give(t)                          BY <2>2, GiveOK
  <2>3. CASE Delete(t)                        BY <2>3, DeleteOKStep
  <2>4. CASE Lock(t)                          BY <2>4, LockOK
  <2>5. CASE Unlock(t)                        BY <2>5, UnlockOK
  <2>6. CASE \E d \in Timeout : TakeWait(t, d)    BY <2>6, TakeWaitOK
  <2>7. CASE \E v \in 0..MaxValue : Reset(t, v)   BY <2>7, ResetOK
  <2>8. CASE \E x \in UserTimer : StartTimer(t, x)  BY <2>8, StartTimerOK
  <2> QED
    BY <1>1, <2>1, <2>2, <2>3, <2>4, <2>5, <2>6, <2>7, <2>8 DEF Call
<1>2. ASSUME NEW t \in Task, Continue(t)
      PROVE  SemInv'
  BY <1>2, ScheduleOK, TakeReturnOK, DeleteCheckOK, DeleteNextOK DEF Continue
<1>3. CASE IsrGive         BY <1>3, IsrGiveOK
<1>4. CASE Tick            BY <1>4, TickOK
<1>5. CASE TaskTimerFire   BY <1>5, TaskTimerFireOK
<1>6. CASE UserTimerFire   BY <1>6, UserTimerFireOK
<1>7. CASE TickEnd         BY <1>7, TickEndOK
<1>8. CASE UNCHANGED vars
  <2>1. k' = k /\ value' = value /\ pc' = pc /\ arg' = arg
    BY <1>8 DEF vars
  <2> QED
    BY <2>1 DEF SemInv, TypeOK, TasksOK, CurOK, CursorOK, WaitersExact, Waiters,
                PendingByPriority, ErrorOK, DeleteOK, UrgentOK, Deleting
<1> QED
  BY <1>1, <1>2, <1>3, <1>4, <1>5, <1>6, <1>7, <1>8 DEF Next

(* An application that deletes the semaphore only when nobody else uses    *)
(* it, does not block while the scheduler is locked and leaves a timed     *)
(* waiter alone in its callbacks finds the kernel in order after every     *)
(* step of a task, of the clock and of an interrupt.                       *)
THEOREM SemInductive ==
    ASSUME Risky = {}
    PROVE  Spec => []SemInv
<1>1. Init => SemInv
  BY SemInit
<1>2. SemInv /\ [Next]_vars => SemInv'
  BY SemStep
<1> QED
  BY <1>1, <1>2, PTL DEF Spec

(* The list of os_sem_take holds exactly the tasks that wait, with their   *)
(* timers, in the order of their priorities.                               *)
THEOREM PendingAlwaysExact ==
    ASSUME Risky = {}
    PROVE  Spec => []PendingExact
<1>1. SemInv => PendingExact
  BY DEF SemInv, PendingExact, WaitersExact, WaitsWhenUnavailable, CurOK, Runs
<1> QED
  BY <1>1, SemInductive, PTL

(* The callback of a task's timer finds it suspended, as the assertion of  *)
(* os_task_timeout demands.                                                *)
THEOREM TimeoutFindsSuspended ==
    ASSUME Risky = {}
    PROVE  Spec => []TimeoutOnlyWhenSuspended
<1>1. SemInv => TimeoutOnlyWhenSuspended
  <2>1. ASSUME SemInv, Due(k), k.n \in Task
        PROVE  k.stat[k.n] = "SUSPEND"
    BY <2>1, DueTimer DEF SemInv, WaitersExact
  <2> QED  BY <2>1 DEF TimeoutOnlyWhenSuspended
<1> QED
  BY <1>1, SemInductive, PTL

(* Without os_sem_delete, whose tasks become READY without an os_sched, no *)
(* READY task is more urgent than application code that runs unlocked.     *)
THEOREM MostUrgentAlwaysRuns ==
    ASSUME Risky = {}, "delete" \notin Ops
    PROVE  Spec => []MostUrgentRuns
<1>1. SemInv => MostUrgentRuns
  BY DEF SemInv, UrgentOK, MostUrgentRuns
<1> QED
  BY <1>1, SemInductive, PTL

-----------------------------------------------------------------------------
(* The abstract semaphore *)

InTake(t) == pc[t] \in {"takeSched", "takeBack"}

(* What a task in os_sem_take is told, in terms of the kernel.             *)
LEMMA OutcomeOf ==
    ASSUME SemInv
    PROVE  \A t \in Task :
              /\ t \in Waiters => Outcome[t] = "waiting" /\ InTake(t)
              /\ ~InTake(t) => Outcome[t] = "none" /\ t \notin Waiters
              /\ InTake(t) /\ t \notin Waiters =>
                    Outcome[t] = k.error[t] /\ k.error[t] \in Errno
BY SemFacts DEF SemInv, WaitersExact, Outcome, InTake

(* A step that neither changes the list, nor an answer, nor enters or      *)
(* leaves os_sem_take.                                                     *)
LEMMA OutcomeKept ==
    ASSUME k'.pend[Sem] = k.pend[Sem], k'.error = k.error,
           \A t \in Task : InTake(t)' <=> InTake(t)
    PROVE  Outcome' = Outcome
<1>1. Waiters' = Waiters
  BY DEF Waiters
<1> QED  BY <1>1 DEF Outcome, InTake

(* One waiter is told e.                                                   *)
LEMMA OutcomeTold ==
    ASSUME SemInv, SemInv', NEW w \in Waiters, Waiters' = Waiters \ {w},
           NEW e, k'.error[w] = e,
           \A t \in Task : t # w => k'.error[t] = k.error[t],
           \A t \in Task : InTake(t)' <=> InTake(t)
    PROVE  Outcome' = [Outcome EXCEPT ![w] = e]
<1>1. w \in Task /\ InTake(w)
  BY SemFacts, OutcomeOf
<1>2. Outcome' = [t \in Task |->
         IF ~InTake(t)' THEN "none"
         ELSE IF t \in Waiters' THEN "waiting" ELSE k'.error[t]]
  BY DEF Outcome, InTake
<1>3. Outcome = [t \in Task |->
         IF ~InTake(t) THEN "none"
         ELSE IF t \in Waiters THEN "waiting" ELSE k.error[t]]
  BY DEF Outcome, InTake
<1> QED  BY <1>1, <1>2, <1>3

(* A give with a waiter is a give of the abstract semaphore.               *)
LEMMA AbstractGive ==
    ASSUME SemInv, SemInv', k.pend[Sem] # <<>>, GiveValue,
           k'.pend[Sem] = Unlink(k.pend[Sem], Foremost(k, Sem)),
           k'.error = k.error, \A t \in Task : InTake(t)' <=> InTake(t)
    PROVE  Abstract!Give
<1> DEFINE w == Foremost(k, Sem)
<1>1. /\ KernelOK(k, {}) /\ Sem \in Obj /\ IsList(k.pend[Sem], Task)
  BY SemFacts
<1>2. /\ w \in Task /\ w \in ToSet(k.pend[Sem])
      /\ Unlink(k.pend[Sem], w) = Tail(k.pend[Sem])
  BY <1>1, ForemostOK
<1>3. w = Head(k.pend[Sem])
  BY <1>1 DEF Foremost, IsList
<1>4. Waiters' = Waiters \ {w} /\ w \in Waiters
  BY <1>1, <1>2, UnlinkList DEF Waiters
<1>5. k'.error[w] = "OS_OK"
  BY <1>4 DEF SemInv, ErrorOK
<1> HIDE DEF w
<1>6. Outcome' = [Outcome EXCEPT ![w] = "OS_OK"]
  BY <1>4, <1>5, OutcomeTold
<1>7. value' = value
  BY DEF GiveValue
<1>8. k'.pend[Sem] = Tail(k.pend[Sem])
  BY <1>2 DEF w
<1> QED  BY <1>3, <1>6, <1>7, <1>8 DEF Abstract!Give

(* A give without a waiter adds a token.                                   *)
LEMMA AbstractCount ==
    ASSUME k.pend[Sem] = <<>>, GiveValue, k'.pend[Sem] = k.pend[Sem],
           k'.error = k.error, \A t \in Task : InTake(t)' <=> InTake(t)
    PROVE  Abstract!Give
BY OutcomeKept DEF GiveValue, Abstract!Give

(* What changes neither tokens nor queue nor outcomes is a stutter.        *)
LEMMA AbstractStutter ==
    ASSUME value' = value, k'.pend[Sem] = k.pend[Sem],
           k'.error = k.error, \A t \in Task : InTake(t)' <=> InTake(t)
    PROVE  UNCHANGED Abstract!svars
BY OutcomeKept DEF Abstract!svars

(* os_sem_take that waits enters the abstract queue.                       *)
LEMMA WaitRefines ==
    ASSUME Risky = {}, SemInv, SemInv', NEW t \in Task, NEW d \in Timeout,
           TakeWait(t, d)
    PROVE  Abstract!Wait(t)
<1>1. /\ Runs(t) /\ pc[t] = "app" /\ value = 0 /\ value' = value
      /\ pc' = [pc EXCEPT ![t] = "takeSched"]
  BY DEF TakeWait, Calls, Goto
<1>2. /\ k.pend \in [Obj -> Seq(Task)] /\ Sem \in Obj /\ Waiters \subseteq Task
      /\ IsList(k.pend[Sem], Task) /\ k.error \in [Task -> Errno]
      /\ pc \in [Task -> Step]
  BY SemFacts
<1>3. Suspended(k', t, d) /\ Queued(k', t)
  BY TakeWaitState
<1>4. PICK i \in 1..Len(k.pend[Sem]) + 1 :
         /\ k'.pend = [k.pend EXCEPT ![Sem] = InsertAt(@, i, t)]
         /\ Flag = "OS_IPC_FIFO" => i = Len(k.pend[Sem]) + 1
  BY <1>3 DEF Queued
<1>5. k'.pend[Sem] = InsertAt(k.pend[Sem], i, t)
  BY <1>2, <1>4
<1>6. k'.pend[Sem] = Abstract!InsertAt(k.pend[Sem], i, t)
  BY <1>5 DEF InsertAt, Abstract!InsertAt
<1>7. t \notin Waiters /\ Outcome[t] = "none"
  BY <1>1, BusyNotWaiting, OutcomeOf DEF InTake
<1>8. Waiters' = Waiters \cup {t}
  BY <1>2, <1>5, <1>7, InsertAtList DEF Waiters
<1>9. \A u \in Task : u # t => pc'[u] = pc[u] /\ k'.error[u] = k.error[u]
  BY <1>1, <1>2, <1>3 DEF Suspended
<1>10. pc'[t] = "takeSched"
  BY <1>1, <1>2
<1>11. Outcome' = [Outcome EXCEPT ![t] = "waiting"]
  <2>1. \A u \in Task : u # t => Outcome'[u] = Outcome[u]
    BY <1>8, <1>9 DEF Outcome
  <2>2. Outcome'[t] = "waiting"
    BY <1>8, <1>10 DEF Outcome
  <2> DEFINE f == Outcome'
             g == Outcome
  <2>3. f = [u \in Task |-> f[u]] /\ g = [u \in Task |-> g[u]]
    BY DEF Outcome
  <2> HIDE DEF f, g
  <2>4. f = [g EXCEPT ![t] = "waiting"]
    BY <2>1, <2>2, <2>3 DEF f, g
  <2> QED  BY <2>4 DEF f, g
<1> QED  BY <1>1, <1>4, <1>6, <1>7, <1>11 DEF Abstract!Wait

(* os_sem_take returns the outcome the abstract semaphore has for it.      *)
LEMMA ReturnRefines ==
    ASSUME SemInv, NEW t \in Task, TakeReturn(t)
    PROVE  Abstract!Return(t)
<1>1. /\ Runs(t) /\ pc[t] = "takeBack" /\ k' = k /\ value' = value
      /\ pc' = [pc EXCEPT ![t] = "app"] /\ pc \in [Task -> Step]
  BY SemFacts DEF TakeReturn, Goto
<1>2. t \notin Waiters
  BY <1>1, BusyNotWaiting
<1>3. Outcome[t] \in Errno
  BY <1>1, <1>2, OutcomeOf DEF InTake
<1>4. Waiters' = Waiters
  BY <1>1 DEF Waiters
<1>5. Outcome' = [Outcome EXCEPT ![t] = "none"]
  BY <1>1, <1>4 DEF Outcome
<1> QED  BY <1>1, <1>3, <1>5 DEF Abstract!Return, Errno

(* os_sem_reset is the abstract reset.                                     *)
LEMMA ResetRefines ==
    ASSUME Risky = {}, SemInv, SemInv', NEW t \in Task, NEW v \in 0..MaxValue,
           Reset(t, v)
    PROVE  Abstract!Reset
<1>1. /\ Runs(t) /\ pc[t] = "app" /\ k' = ListResumeAll(k, Sem) /\ value' = v
      /\ pc' = [pc EXCEPT ![t] = "sched"]
  BY DEF Reset, Calls, Goto
<1>2. KernelOK(k, {}) /\ Sem \in Obj /\ pc \in [Task -> Step] /\ Waiters \subseteq Task
  BY SemFacts
<1>3. Emptied(k, k', Sem) /\ k'.pend[Sem] = <<>>
  BY <1>1, <1>2, ListResumeAllOK
<1>4. Waiters' = {} /\ \A u \in Task : InTake(u)' <=> InTake(u)
  BY <1>1, <1>2, <1>3, EmptyList DEF Waiters, InTake
<1>5. \A u \in Task : k'.error[u] = IF u \in Waiters THEN "OS_ERROR" ELSE k.error[u]
  BY <1>3, <1>4 DEF Emptied, Waiters
<1>6. \A u \in Task : /\ u \in Waiters => InTake(u)
                      /\ Outcome[u] = "waiting" <=> u \in Waiters
  BY OutcomeOf DEF Errno
<1>7. Outcome' = [u \in Task |->
         IF ~InTake(u)' THEN "none"
         ELSE IF u \in Waiters' THEN "waiting" ELSE k'.error[u]]
  BY DEF Outcome, InTake
<1>8. \A u \in Task : ~InTake(u) => Outcome[u] = "none"
  BY OutcomeOf
<1>9. \A u \in Task : InTake(u) /\ u \notin Waiters => Outcome[u] = k.error[u]
  BY OutcomeOf
<1>10. Outcome' = [u \in Task |->
          IF Outcome[u] = "waiting" THEN "OS_ERROR" ELSE Outcome[u]]
  BY <1>4, <1>5, <1>6, <1>7, <1>8, <1>9
<1> QED  BY <1>1, <1>3, <1>10 DEF Abstract!Reset

(* Each turn of os_list_resume_all in os_sem_delete cancels one waiter.    *)
LEMMA CancelRefines ==
    ASSUME SemInv, SemInv', NEW t \in Task, DeleteNext(t)
    PROVE  Abstract!Cancel
<1>1. /\ Runs(t) /\ pc[t] = "delNext" /\ k' = WakeHead(k, Sem)
      /\ k.pend[Sem] # <<>> /\ value' = value
      /\ pc' = [pc EXCEPT ![t] = "delCheck"]
  BY DEF DeleteNext, Goto
<1>2. /\ KernelOK(k, {}) /\ Sem \in Obj /\ pc \in [Task -> Step]
      /\ IsList(k.pend[Sem], Task) /\ k.error \in [Task -> Errno]
  BY SemFacts
<1> DEFINE w == Foremost(k, Sem)
<1>3. w = Head(k.pend[Sem])
  BY <1>1, <1>2 DEF Foremost, IsList
<1>4. w \in ToSet(k.pend[Sem]) /\ w \in Task
  BY <1>1, <1>2, ForemostOK
<1>5. Leaves(k, k', Sem, w) /\ k'.error = [k.error EXCEPT ![w] = "OS_ERROR"]
  BY <1>1, <1>2, WakeHeadOK
<1> HIDE DEF w
<1>6. k'.pend[Sem] = Tail(k.pend[Sem]) /\ k'.pend[Sem] = Unlink(k.pend[Sem], w)
  BY <1>2, <1>5 DEF Leaves
<1>7. Waiters' = Waiters \ {w} /\ w \in Waiters
  BY <1>2, <1>4, <1>6, UnlinkList DEF Waiters
<1>8. /\ k'.error[w] = "OS_ERROR"
      /\ \A u \in Task : u # w => k'.error[u] = k.error[u]
      /\ \A u \in Task : InTake(u)' <=> InTake(u)
  BY <1>1, <1>2, <1>4, <1>5 DEF InTake
<1>9. Outcome' = [Outcome EXCEPT ![w] = "OS_ERROR"]
  BY <1>7, <1>8, OutcomeTold
<1> QED  BY <1>1, <1>3, <1>6, <1>9 DEF Abstract!Cancel

(* A timeout is a waiter of the abstract semaphore that gives up.          *)
LEMMA GiveUpRefines ==
    ASSUME SemInv, SemInv', TaskTimerFire
    PROVE  k.n \in Task /\ Abstract!GiveUp(k.n)
<1> DEFINE w == k.n
<1>1. /\ w \in Task /\ w \in Waiters
      /\ k'.pend[Sem] = Unlink(k.pend[Sem], w)
      /\ k'.error = [k.error EXCEPT ![w] = "OS_TIMEOUT"]
      /\ value' = value /\ pc' = pc
  BY TaskTimerFireOK DEF TaskTimerFire
<1> HIDE DEF w
<1>2. IsList(k.pend[Sem], Task) /\ k.error \in [Task -> Errno]
  BY SemFacts
<1>3. PICK i \in DOMAIN k.pend[Sem] : k.pend[Sem][i] = w
  BY <1>1 DEF Waiters, ToSet
<1>4. k'.pend[Sem] = Abstract!RemoveAt(k.pend[Sem], i)
  <2>1. k'.pend[Sem] = RemoveAt(k.pend[Sem], i)
    BY <1>1, <1>2, <1>3, UnlinkAt
  <2> QED  BY <2>1 DEF RemoveAt, Abstract!RemoveAt
<1>5. Waiters' = Waiters \ {w}
  BY <1>1, <1>2, UnlinkList DEF Waiters
<1>6. /\ k'.error[w] = "OS_TIMEOUT"
      /\ \A u \in Task : u # w => k'.error[u] = k.error[u]
      /\ \A u \in Task : InTake(u)' <=> InTake(u)
  BY <1>1, <1>2 DEF InTake
<1>7. Outcome' = [Outcome EXCEPT ![w] = "OS_TIMEOUT"]
  BY <1>1, <1>5, <1>6, OutcomeTold
<1>8. Outcome[w] = "waiting"
  BY <1>1, OutcomeOf
<1>9. Abstract!GiveUp(w)
  BY <1>1, <1>3, <1>4, <1>7, <1>8 DEF Abstract!GiveUp
<1> QED  BY <1>1, <1>9 DEF w

(* The scheduler, its lock, the clock and a timer that starts are no       *)
(* business of the semaphore's.                                            *)
LEMMA SchedulerStutters ==
    ASSUME SemInv, NEW t \in Task,
           Schedule(t) \/ Lock(t) \/ Unlock(t) \/ \E x \in UserTimer : StartTimer(t, x)
    PROVE  UNCHANGED Abstract!svars
<1>1. k \in Kernel /\ pc \in [Task -> Step]
  BY SemFacts
<1>2. CASE Schedule(t)
  <2>1. value' = value /\ k' = Sched(k)
    BY <1>2 DEF Schedule
  <2>2. k'.pend = k.pend /\ k'.error = k.error
    BY <1>1, <2>1, ErrorKept DEF Sched, Kernel
  <2>3. \A u \in Task : InTake(u)' <=> InTake(u)
    BY <1>1, <1>2 DEF Schedule, Goto, InTake
  <2> QED  BY <2>1, <2>2, <2>3, AbstractStutter
<1>3. CASE Lock(t)
  <2>1. /\ value' = value /\ k'.pend = k.pend /\ k'.error = k.error
        /\ \A u \in Task : InTake(u)' <=> InTake(u)
    BY <1>1, <1>3 DEF Lock, Kernel, InTake
  <2> QED  BY <2>1, AbstractStutter
<1>4. CASE Unlock(t)
  <2>1. /\ value' = value /\ k'.pend = k.pend /\ k'.error = k.error
        /\ \A u \in Task : InTake(u)' <=> InTake(u)
    BY <1>1, <1>4 DEF Unlock, Calls, Goto, Kernel, InTake
  <2> QED  BY <2>1, AbstractStutter
<1>5. ASSUME NEW x \in UserTimer, StartTimer(t, x)
      PROVE  UNCHANGED Abstract!svars
  <2>1. value' = value /\ pc' = pc /\ k' = TimerStart(k, x, Period[x])
    BY <1>5 DEF StartTimer
  <2>2. k'.pend = k.pend /\ k'.error = k.error
    BY <1>1, <2>1, ErrorKept DEF TimerStart, Kernel
  <2>3. \A u \in Task : InTake(u)' <=> InTake(u)
    BY <2>1 DEF InTake
  <2> QED  BY <2>1, <2>2, <2>3, AbstractStutter
<1> QED  BY <1>2, <1>3, <1>4, <1>5

(* The clock is not seen by the abstract semaphore.                        *)
LEMMA ClockStutters ==
    ASSUME SemInv, Tick \/ TickEnd
    PROVE  UNCHANGED Abstract!svars
<1>1. /\ k \in Kernel /\ KernelOK(k, {}) /\ k.stat[Idle] = "READY" /\ Idle \notin {}
      /\ k.cur \in Task /\ k.cur \notin {}
  BY SemFacts
<1>2. value' = value /\ \A u \in Task : InTake(u)' <=> InTake(u)
  BY DEF Tick, TickEnd, InTake
<1>3. CASE Tick
  <2>1. k' = TickIncrease(k)
    BY <1>3 DEF Tick
  <2>2. k'.pend = k.pend
    BY <1>1, <2>1, TickIncreaseOK
  <2>3. k'.error = k.error
    BY <1>1, <2>1, ErrorKept
  <2> QED  BY <1>2, <2>2, <2>3, AbstractStutter
<1>4. CASE TickEnd
  <2>1. k'.pend = k.pend /\ k'.error = k.error
    BY <1>1, <1>4 DEF TickEnd, IsrLeave, Kernel
  <2> QED  BY <1>2, <2>1, AbstractStutter
<1> QED  BY <1>3, <1>4

(* os_sem_release is the abstract give.                                    *)
LEMMA GiveRefines ==
    ASSUME SemInv, SemInv', (\E t \in Task : Give(t)) \/ IsrGive
    PROVE  Abstract!Give
<1>1. /\ KernelOK(k, {}) /\ Sem \in Obj /\ pc \in [Task -> Step]
      /\ k.stat[Idle] = "READY"
  BY SemFacts
<1>2. GiveValue
  BY DEF Give, IsrGive
<1>3. \A u \in Task : InTake(u)' <=> InTake(u)
  BY <1>1 DEF Give, IsrGive, Goto, Calls, InTake
<1>4. CASE k.pend[Sem] = <<>>
  <2>1. k' = k
    BY <1>4 DEF Give, IsrGive, GiveTo, IsrGiveTo
  <2> QED  BY <1>2, <1>3, <1>4, <2>1, AbstractCount
<1>5. CASE k.pend[Sem] # <<>>
  <2>1. /\ k'.pend = [q \in Obj |-> Unlink(k.pend[q], Foremost(k, Sem))]
        /\ k'.error = k.error
    <3>1. CASE k' = IsrGiveTo(k)
      BY <1>1, <1>5, <3>1, IsrGiveToOK DEF Served
    <3>2. CASE k' = ListResume(k, Sem)
      <4>1. Leaves(k, k', Sem, Foremost(k, Sem)) /\ k'.error = k.error
        BY <1>1, <1>5, <3>2, ListResumeOK
      <4> QED  BY <4>1 DEF Leaves
    <3> QED  BY <1>5, <3>1, <3>2 DEF Give, IsrGive, GiveTo
  <2>2. k'.pend[Sem] = Unlink(k.pend[Sem], Foremost(k, Sem))
    BY <1>1, <2>1
  <2> QED  BY <1>2, <1>3, <1>5, <2>1, <2>2, AbstractGive
<1> QED  BY <1>4, <1>5

(* The callback of the timer of the application gives or does nothing.     *)
LEMMA CallbackRefines ==
    ASSUME Risky = {}, SemInv, SemInv', UserTimerFire
    PROVE  Abstract!Give \/ UNCHANGED Abstract!svars
<1>1. \A u \in Task : InTake(u)' <=> InTake(u)
  BY DEF UserTimerFire, InTake
<1> QED
  BY <1>1, UserTimerFireOK, AbstractGive, AbstractCount, AbstractStutter

(* Each step is a step of the abstract semaphore or a stutter.             *)
LEMMA StepRefines ==
    ASSUME Risky = {}, SemInv, SemInv', [Next]_vars
    PROVE  [Abstract!Next]_(Abstract!svars)
<1>1. ASSUME NEW t \in Task, Call(t)
      PROVE  [Abstract!Next]_(Abstract!svars)
  <2>1. CASE TakeNow(t)
    <3>1. Abstract!TakeNow
      BY <2>1, OutcomeKept DEF TakeNow, InTake, Abstract!TakeNow
    <3> QED  BY <3>1 DEF Abstract!Next
  <2>2. CASE Give(t)
    BY <2>2, GiveRefines DEF Abstract!Next
  <2>3. CASE Delete(t)
    <3>1. /\ value' = value /\ k' = k
          /\ \A u \in Task : InTake(u)' <=> InTake(u)
      BY <2>3, SemFacts DEF Delete, Calls, Goto, InTake
    <3> QED  BY <3>1, AbstractStutter
  <2>4. CASE \E d \in Timeout : TakeWait(t, d)
    BY <2>4, WaitRefines DEF Abstract!Next
  <2>5. CASE \E v \in 0..MaxValue : Reset(t, v)
    BY <2>5, ResetRefines DEF Abstract!Next
  <2> QED
    BY <1>1, <2>1, <2>2, <2>3, <2>4, <2>5, SchedulerStutters DEF Call
<1>2. ASSUME NEW t \in Task, Continue(t)
      PROVE  [Abstract!Next]_(Abstract!svars)
  <2>1. CASE TakeReturn(t)
    BY <2>1, ReturnRefines DEF Abstract!Next
  <2>2. CASE DeleteCheck(t)
    <3>1. /\ value' = value /\ k' = k
          /\ \A u \in Task : InTake(u)' <=> InTake(u)
      BY <2>2, SemFacts DEF DeleteCheck, Goto, InTake
    <3> QED  BY <3>1, AbstractStutter
  <2>3. CASE DeleteNext(t)
    BY <2>3, CancelRefines DEF Abstract!Next
  <2> QED
    BY <1>2, <2>1, <2>2, <2>3, SchedulerStutters DEF Continue
<1>3. CASE IsrGive
  BY <1>3, GiveRefines DEF Abstract!Next
<1>4. CASE Tick \/ TickEnd
  BY <1>4, ClockStutters
<1>5. CASE TaskTimerFire
  BY <1>5, GiveUpRefines DEF Abstract!Next
<1>6. CASE UserTimerFire
  BY <1>6, CallbackRefines DEF Abstract!Next
<1>7. CASE UNCHANGED vars
  <2>1. /\ value' = value /\ k' = k
        /\ \A u \in Task : InTake(u)' <=> InTake(u)
    BY <1>7 DEF vars, InTake
  <2> QED  BY <2>1, AbstractStutter
<1> QED
  BY <1>1, <1>2, <1>3, <1>4, <1>5, <1>6, <1>7 DEF Next

(* With tasks, priorities, timeouts, ticks and interrupts underneath, the  *)
(* semaphore is the one its callers were promised: every os_sem_take has   *)
(* one outcome, OS_OK only for a token, and the waiters are served in the  *)
(* order of the list.                                                      *)
THEOREM SemaphoreImplemented ==
    ASSUME Risky = {}
    PROVE  Spec => ImplementsSemaphore
<1>1. Init => Abstract!Init
  <2>1. ASSUME Init
        PROVE  Abstract!Init
    <3>1. SemInv /\ pc = [t \in Task |-> "app"] /\ value = Value
      BY <2>1, SemInit DEF Init
    <3>2. k.pend[Sem] = <<>>
      BY <2>1, SemAssumption, RunningOK DEF Init
    <3>3. Outcome = [t \in Task |-> "none"]
      BY <3>1 DEF Outcome
    <3> QED  BY <3>1, <3>2, <3>3 DEF Abstract!Init
  <2> QED  BY <2>1
<1>2. SemInv /\ SemInv' /\ [Next]_vars => [Abstract!Next]_(Abstract!svars)
  BY StepRefines
<1>3. Spec => []SemInv
  BY SemInductive
<1> QED
  BY <1>1, <1>2, <1>3, PTL DEF Spec, Abstract!Spec, ImplementsSemaphore
=============================================================================
