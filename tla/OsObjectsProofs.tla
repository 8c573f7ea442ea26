-------------------------- MODULE OsObjectsProofs ---------------------------
(***************************************************************************)
(* What the mailbox, the message queue, the mutexes, the event and the     *)
(* memory pool guarantee on one kernel, for every number of tasks, levels, *)
(* messages, nodes, mutexes, bits and blocks.                              *)
(***************************************************************************)
EXTENDS OsObjectsInv, OsKernelProofs, SequenceTheorems

-----------------------------------------------------------------------------
(* What the functions of the objects do to the tasks that wait *)

(* From s to r the task t enters the list of o, at i, in the order of the  *)
(* priorities.                                                             *)
Queues(s, r, o, t, i) ==
    /\ i \in 1..Len(s.pend[o]) + 1
    /\ r.pend = [s.pend EXCEPT ![o] = InsertAt(@, i, t)]
    /\ \A j \in 1..i - 1 : ~(s.prio[t] < s.prio[s.pend[o][j]])
    /\ i <= Len(s.pend[o]) => s.prio[t] < s.prio[s.pend[o][i]]

(* From s to r the task t enters the list of o, and no other, for d ticks. *)
LinesUp(s, r, o, t, d) ==
    /\ \A u \in Obj \ {o} : r.pend[u] = s.pend[u]
    /\ Flag = "OS_IPC_PRIO" => \E i : Queues(s, r, o, t, i)
    /\ d = Forever => ToSet(r.timers) \subseteq ToSet(s.timers)

(* os_list_resume, when the list is not empty.                             *)
LEMMA ResumeHeadEnds ==
    ASSUME NEW s, Works(s), s.isr = 0, NEW o \in Obj, NEW r, r = ResumeHead(s, o)
    PROVE  /\ Ends(s, r, Firsts(s, o))
           /\ r.error = s.error /\ r.prio = s.prio /\ r.isr = 0 /\ r.cur = s.cur
           /\ Firsts(s, o) \subseteq ToSet(s.pend[o]) /\ Alike(s, r, Obj)
           /\ r.pend[o] = IF s.pend[o] # <<>> THEN Tail(s.pend[o]) ELSE <<>>
<1>1. CASE s.pend[o] # <<>>
  <2> DEFINE t == Foremost(s, o)
  <2>1. /\ t \in Task /\ t \in ToSet(s.pend[o]) /\ s.stat[t] = "SUSPEND"
        /\ Unlink(s.pend[o], t) = Tail(s.pend[o])
    BY <1>1, ForemostOK DEF Works
  <2>2. r = TaskResume(s, t) /\ Firsts(s, o) = {t}
    BY <1>1 DEF ResumeHead, ListResume, Foremost, Firsts
  <2> HIDE DEF t
  <2>3. /\ Ends(s, r, {t})
        /\ r.error = s.error /\ r.prio = s.prio /\ r.isr = 0 /\ r.cur = s.cur
        /\ r.pend = [q \in Obj |-> Unlink(s.pend[q], t)]
    BY <2>1, <2>2, ResumeEnds
  <2>4. Firsts(s, o) \subseteq ToSet(s.pend[o])
    BY <2>1, <2>2
  <2>5. Alike(s, r, Obj)
    BY <2>3, UnlinkAlike
  <2> QED  BY <1>1, <2>1, <2>2, <2>3, <2>4, <2>5
<1>2. CASE s.pend[o] = <<>>
  BY <1>2, EndsNone DEF ResumeHead, Firsts, Alike
<1> QED  BY <1>1, <1>2

(* os_list_resume and os_sched, in a handler.                              *)
LEMMA IsrResumeHeadEnds ==
    ASSUME NEW s, Works(s), s.isr = 0, NEW o \in Obj, NEW r, r = IsrResumeHead(s, o)
    PROVE  /\ Ends(s, r, Firsts(s, o))
           /\ r.error = s.error /\ r.prio = s.prio /\ (r = s \/ Top(r))
           /\ Firsts(s, o) \subseteq ToSet(s.pend[o]) /\ Alike(s, r, Obj)
<1>1. CASE s.pend[o] # <<>>
  <2> DEFINE q == ResumeHead(s, o)
  <2>1. r = Sched(q)
    BY <1>1 DEF ResumeHead, IsrResumeHead
  <2>2. /\ Ends(s, q, Firsts(s, o)) /\ q.error = s.error /\ q.prio = s.prio
        /\ Firsts(s, o) \subseteq ToSet(s.pend[o]) /\ Alike(s, q, Obj)
    BY ResumeHeadEnds
  <2> HIDE DEF q
  <2>3. Works(q)
    BY <2>2 DEF Ends
  <2>4. /\ Ends(q, r, {}) /\ r.error = q.error /\ r.prio = q.prio
        /\ r.pend = q.pend /\ Top(r)
    BY <2>1, <2>3, SchedEnds
  <2>5. Ends(s, r, Firsts(s, o) \cup {})
    BY <2>2, <2>4, EndsBoth
  <2>6. Firsts(s, o) \cup {} = Firsts(s, o)
    OBVIOUS
  <2>7. Alike(s, r, Obj)
    BY <2>2, <2>4 DEF Alike
  <2> QED  BY <2>2, <2>4, <2>5, <2>6, <2>7
<1>2. CASE s.pend[o] = <<>>
  BY <1>2, EndsNone DEF IsrResumeHead, Firsts, Alike
<1> QED  BY <1>1, <1>2

(* os_mpool_free resumes the task at the head, whose error is OS_OK.       *)
LEMMA PoolResumeEnds ==
    ASSUME NEW s, Works(s), s.isr = 0, Pool \in Obj, s.pend[Pool] # <<>>,
           NEW r, r = PoolResume(s)
    PROVE  /\ Ends(s, r, Firsts(s, Pool))
           /\ r.error = [s.error EXCEPT ![Foremost(s, Pool)] = "OS_OK"]
           /\ r.prio = s.prio /\ r.isr = 0 /\ r.cur = s.cur
           /\ Firsts(s, Pool) \subseteq ToSet(s.pend[Pool])
           /\ r.pend[Pool] = Tail(s.pend[Pool])
<1> DEFINE t == Foremost(s, Pool)
           q == SetError(s, t, "OS_OK")
<1>1. /\ t \in Task /\ t \in ToSet(s.pend[Pool]) /\ s.stat[t] = "SUSPEND"
      /\ Unlink(s.pend[Pool], t) = Tail(s.pend[Pool])
  BY ForemostOK DEF Works
<1>2. r = TaskResume(q, t) /\ Firsts(s, Pool) = {t}
  BY DEF PoolResume, Foremost, SetError, Firsts
<1>3. q.error = [s.error EXCEPT ![t] = "OS_OK"] /\ s.error \in [Task -> Errno]
  BY DEF SetError, Works, KernelOK, Kernel
<1> HIDE DEF t
<1>4. KernelOK(s, {}) /\ "OS_OK" \in Errno
  BY DEF Works, Errno
<1>5. /\ KernelOK(q, {})
      /\ SameLists(s, q) /\ SameTasks(s, q) /\ SameTimers(s, q)
      /\ SameControl(s, q)
  BY <1>1, <1>4, SetErrorOK
<1> HIDE DEF q
<1>6. Works(q) /\ q.isr = 0 /\ q.stat[t] = "SUSPEND"
  BY <1>1, <1>5 DEF Works, SameLists, SameTasks, SameTimers, SameControl
<1>7. /\ Ends(q, r, {t})
      /\ r.error = q.error /\ r.prio = q.prio /\ r.isr = 0 /\ r.cur = q.cur
      /\ r.pend = [o \in Obj |-> Unlink(q.pend[o], t)]
  BY <1>1, <1>2, <1>6, ResumeEnds
<1>8. \A u \in Task \ {t} : r.error[u] = s.error[u]
  BY <1>3, <1>7
<1>9. Ends(s, r, {t})
  BY <1>5, <1>7, <1>8 DEF Ends, SameLists, SameTasks, SameTimers, SameControl
<1>10. r.pend[Pool] = Tail(s.pend[Pool])
  BY <1>1, <1>5, <1>7 DEF SameLists
<1> QED
  BY <1>1, <1>2, <1>3, <1>5, <1>7, <1>9, <1>10 DEF SameTasks, SameControl, t

(* It does so when its timeout is finite.                                  *)
LEMMA DelayBegins ==
    ASSUME NEW s, NEW q, NEW Os, NEW t \in Task, t # Idle, Begins(s, q, Os, t),
           NEW d \in Nat, NEW r, r = IF d = Forever THEN q ELSE TimerStart(q, t, d)
    PROVE  /\ Begins(s, r, Os, t) /\ r.prio = q.prio
           /\ r.pend = q.pend
           /\ d = Forever => r.timers = q.timers
<1>1. KernelOK(q, {}) /\ t \in Timer /\ q.stat[t] = "SUSPEND"
  BY DEF Begins, Works, Timer, KernelOK, Kernel
<1>2. CASE d # Forever
  <2>1. r = TimerStart(q, t, d)
    BY <1>2
  <2>2. Begins(s, r, Os, t) /\ r.prio = q.prio
    BY <2>1, TimerBegins
  <2>3. SameLists(q, r)
    BY <1>1, <2>1, TimerStartOK
  <2> QED  BY <1>2, <2>2, <2>3 DEF SameLists
<1> QED  BY <1>2

(* os_list_suspend in the functions that wait, with the timer when the     *)
(* timeout is finite.                                                      *)
LEMMA WaitInBegins ==
    ASSUME NEW s, Works(s), s.isr = 0, NEW t \in Task, t # Idle,
           s.stat[t] = "READY", NEW o \in Obj, NEW d \in Nat,
           NEW r, r = WaitIn(s, o, t, d)
    PROVE  /\ Begins(s, r, {o}, t) /\ r.prio = s.prio
           /\ LinesUp(s, r, o, t, d)
<1> DEFINE q == SetError(s, t, "OS_OK")
           w == ListSuspend(q, o, t, Flag)
<1>1. r = IF d = Forever THEN w ELSE TimerStart(w, t, d)
  BY DEF WaitIn, SetError
<1>2. "OS_OK" \in Errno
  BY DEF Errno
<1>3. /\ Ends(s, q, {t}) /\ q.error[t] = "OS_OK" /\ q.prio = s.prio
      /\ q.isr = s.isr /\ q.cur = s.cur /\ q.pend = s.pend
  BY <1>2, ErrorEnds
<1> HIDE DEF q
<1>4. Works(q) /\ q.stat[t] = "READY" /\ q.stat = s.stat
  <2>1. q.stat \in [Task -> Stat] /\ s.stat \in [Task -> Stat] /\ Works(q)
    BY <1>3 DEF Ends, Works, KernelOK, Kernel
  <2>2. \A u \in Task : q.stat[u] = s.stat[u]
    BY <1>3 DEF Ends
  <2> QED  BY <2>1, <2>2
<1>5. KernelOK(q, {}) /\ t \notin {} /\ q.pend \in [Obj -> Seq(Task)]
      /\ q.stat \in [Task -> Stat]
  BY <1>4 DEF Works, KernelOK, Kernel
<1>6. /\ KernelOK(w, {})
      /\ w.stat = [q.stat EXCEPT ![t] = "SUSPEND"]
      /\ w.prio = q.prio /\ w.error = q.error /\ w.defunct = q.defunct
      /\ ToSet(w.timers) = ToSet(q.timers) /\ w.act = q.act \ {t}
      /\ SameControl(q, w)
      /\ \E i \in 1..Len(q.pend[o]) + 1 :
             /\ w.pend = [q.pend EXCEPT ![o] = InsertAt(@, i, t)]
             /\ Flag = "OS_IPC_FIFO" => i = Len(q.pend[o]) + 1
             /\ Flag # "OS_IPC_FIFO" =>
                   /\ \A j \in 1..i - 1 : ~(q.prio[t] < q.prio[q.pend[o][j]])
                   /\ i <= Len(q.pend[o]) => q.prio[t] < q.prio[q.pend[o][i]]
  BY <1>4, <1>5, ListSuspendOK
<1> HIDE DEF w
<1>7. PICK i \in 1..Len(q.pend[o]) + 1 :
          /\ w.pend = [q.pend EXCEPT ![o] = InsertAt(@, i, t)]
          /\ Flag # "OS_IPC_FIFO" =>
                /\ \A j \in 1..i - 1 : ~(q.prio[t] < q.prio[q.pend[o][j]])
                /\ i <= Len(q.pend[o]) => q.prio[t] < q.prio[q.pend[o][i]]
  BY <1>6
<1>8. IsList(q.pend[o], Task) /\ t \notin ToSet(q.pend[o])
  BY <1>4, <1>5 DEF KernelOK, PendingLists, IsList
<1>9. ToSet(InsertAt(q.pend[o], i, t)) = ToSet(q.pend[o]) \cup {t}
  BY <1>8, InsertAtList
<1>10. \A u \in Obj : ToSet(w.pend[u]) = IF u \in {o} THEN ToSet(q.pend[u]) \cup {t}
                                         ELSE ToSet(q.pend[u])
  BY <1>5, <1>7, <1>9
<1>11. Works(w)
  BY <1>3, <1>4, <1>5, <1>6, KernelAssumption DEF Works, SameControl
<1>12. Begins(q, w, {o}, t)
  BY <1>3, <1>6, <1>10, <1>11 DEF Begins, SameControl
<1>13. /\ \A u \in Task \ {t} : q.error[u] = s.error[u]
       /\ ToSet(q.timers) \subseteq ToSet(s.timers)
  BY <1>3 DEF Ends
<1>14. Begins(s, w, {o}, t)
  BY <1>3, <1>4, <1>12, <1>13, ThenBegins
<1>15. /\ Begins(s, r, {o}, t) /\ r.prio = w.prio
       /\ r.pend = w.pend
       /\ d = Forever => r.timers = w.timers
  BY <1>1, <1>14, DelayBegins
<1>16. \A u \in Obj \ {o} : r.pend[u] = s.pend[u]
  <2>1. r.pend = [s.pend EXCEPT ![o] = InsertAt(@, i, t)] /\ s.pend \in [Obj -> Seq(Task)]
    BY <1>3, <1>5, <1>7, <1>15
  <2> QED  BY <2>1
<1>17. Flag = "OS_IPC_PRIO" => \E j : Queues(s, r, o, t, j)
  <2>1. Flag = "OS_IPC_PRIO" => Queues(s, r, o, t, i)
    BY <1>3, <1>7, <1>15 DEF Queues
  <2> QED  BY <2>1
<1>18. d = Forever => ToSet(r.timers) \subseteq ToSet(s.timers)
  <2>1. ToSet(w.timers) \subseteq ToSet(s.timers) /\ (d = Forever => r.timers = w.timers)
    BY <1>6, <1>13, <1>15
  <2> QED  BY <2>1
<1> QED  BY <1>3, <1>6, <1>15, <1>16, <1>17, <1>18 DEF LinesUp

(* os_mpool_alloc puts the task before the others.                         *)
PoolList(s, t) == SetPend(SuspendReady(s, t), Pool, <<t>> \o s.pend[Pool])

(* The list of the pool is entered at its head.                            *)
LEMMA PoolListBegins ==
    ASSUME NEW s, Works(s), s.isr = 0, NEW t \in Task, t # Idle,
           s.stat[t] = "READY", s.error[t] = "OS_OK", Pool \in Obj,
           NEW r, r = PoolList(s, t)
    PROVE  /\ Begins(s, r, {Pool}, t) /\ r.prio = s.prio
           /\ ToSet(r.timers) = ToSet(s.timers)
           /\ Len(r.pend[Pool]) = Len(s.pend[Pool]) + 1
<1> DEFINE m == <<t>> \o s.pend[Pool]
<1>1. /\ IsList(s.pend[Pool], Task) /\ t \notin ToSet(s.pend[Pool])
      /\ s.pend \in [Obj -> Seq(Task)]
  BY DEF Works, KernelOK, Kernel, PendingLists, IsList
<1>2. /\ IsList(m, Task) /\ ToSet(m) = ToSet(s.pend[Pool]) \cup {t}
      /\ Len(m) = Len(s.pend[Pool]) + 1
  <2>1. Len(m) = Len(s.pend[Pool]) + 1
    BY <1>1 DEF IsList
  <2> QED  BY <1>1, <2>1, ConsList
<1>3. r = SetPend(SuspendReady(s, t), Pool, m)
  BY DEF PoolList
<1>4. PICK o \in Obj : o = Pool
  OBVIOUS
<1> HIDE DEF m
<1>5. /\ IsList(m, Task) /\ ToSet(m) = ToSet(s.pend[o]) \cup {t}
      /\ r = SetPend(SuspendReady(s, t), o, m)
  BY <1>2, <1>3, <1>4
<1>6. /\ Begins(s, r, {o}, t) /\ r.prio = s.prio
      /\ ToSet(r.timers) = ToSet(s.timers)
      /\ r.pend = [s.pend EXCEPT ![o] = m]
  BY <1>5, SuspendBegins
<1> QED  BY <1>1, <1>2, <1>4, <1>6

PoolWaiting(s, t, d) ==
    LET w == PoolList(SetError(s, t, "OS_OK"), t)
    IN  IF d = Forever THEN w ELSE TimerStart(w, t, d)

(* A wait without a timeout starts no timer. *)
Untimed(s, r, d) == d = Forever => ToSet(r.timers) = ToSet(s.timers)

(* A task that waits for a block, with a timeout or without.               *)
LEMMA PoolWaitBegins ==
    ASSUME NEW s, Works(s), s.isr = 0, NEW t \in Task, t # Idle,
           s.stat[t] = "READY", Pool \in Obj, NEW d \in Nat,
           NEW r, r = PoolWaiting(s, t, d)
    PROVE  /\ Begins(s, r, {Pool}, t) /\ r.prio = s.prio
           /\ Untimed(s, r, d)
           /\ Len(r.pend[Pool]) = Len(s.pend[Pool]) + 1
<1> DEFINE q == SetError(s, t, "OS_OK")
<1>1. "OS_OK" \in Errno
  BY DEF Errno
<1>2. /\ Ends(s, q, {t}) /\ q.error[t] = "OS_OK" /\ q.prio = s.prio
      /\ q.isr = s.isr /\ q.cur = s.cur /\ q.pend = s.pend
  BY <1>1, ErrorEnds
<1>3. q.timers = s.timers
  BY DEF SetError, Works, KernelOK, Kernel
<1> HIDE DEF q
<1>4. Works(q) /\ q.isr = 0 /\ q.stat[t] = "READY" /\ q.stat = s.stat
  <2>1. q.stat \in [Task -> Stat] /\ s.stat \in [Task -> Stat] /\ Works(q)
    BY <1>2 DEF Ends, Works, KernelOK, Kernel
  <2>2. \A u \in Task : q.stat[u] = s.stat[u]
    BY <1>2 DEF Ends
  <2> QED  BY <1>2, <2>1, <2>2
<1> DEFINE w == PoolList(q, t)
<1>5. /\ Begins(q, w, {Pool}, t) /\ w.prio = q.prio
      /\ ToSet(w.timers) = ToSet(q.timers)
      /\ Len(w.pend[Pool]) = Len(q.pend[Pool]) + 1
  BY <1>2, <1>4, PoolListBegins
<1>6. r = IF d = Forever THEN w ELSE TimerStart(w, t, d)
  BY DEF PoolWaiting, q
<1> HIDE DEF w
<1>7. /\ \A u \in Task \ {t} : q.error[u] = s.error[u]
      /\ ToSet(q.timers) \subseteq ToSet(s.timers)
  BY <1>2, <1>3 DEF Ends
<1>8. Begins(s, w, {Pool}, t)
  BY <1>2, <1>4, <1>5, <1>7, ThenBegins
<1>9. /\ Begins(s, r, {Pool}, t) /\ r.prio = w.prio
      /\ r.pend = w.pend
      /\ d = Forever => r.timers = w.timers
  BY <1>6, <1>8, DelayBegins
<1> QED  BY <1>2, <1>3, <1>5, <1>9 DEF Untimed

-----------------------------------------------------------------------------
(* What a step does to the other tasks, and the inductive invariant        *)

(* What every step may use of WaitInv.                                     *)
LEMMA WaitFacts ==
    ASSUME WaitInv
    PROVE  /\ Works(k) /\ KernelOK(k, {}) /\ k \in Kernel /\ Idle \in Task
           /\ k.stat \in [Task -> Stat] /\ k.error \in [Task -> Errno]
           /\ k.prio \in [Task -> Prio] /\ k.cur \in Task
           /\ \A o \in Obj : IsList(k.pend[o], Task) /\ Waiters(o) \subseteq Task
           /\ \A o \in Obj : \A t \in Waiters(o) : k.stat[t] = "SUSPEND"
           /\ pc \in [Task -> Step] /\ val \in [Task -> Val \cup {NoVal}]
           /\ arg \in [Task -> 0..Forever] /\ todo \in [Task -> Seq(Obj)]
           /\ pc[Idle] = "app" /\ k.stat[Idle] = "READY"
           /\ {Recv, Send, Queue, Event, Pool} \subseteq Obj /\ Mutex \subseteq Obj
<1>1. KernelOK(k, {}) /\ k \in Kernel /\ Idle \in Task
  BY KernelAssumption DEF WaitInv, Works, KernelOK
<1>2. \A o \in Obj : IsList(k.pend[o], Task)
  BY <1>1 DEF KernelOK, PendingLists, Kernel, IsList
<1>3. \A o \in Obj : Waiters(o) \subseteq Task
  BY <1>2, MemberOfList DEF Waiters
<1>4. \A o \in Obj : \A t \in Waiters(o) : k.stat[t] = "SUSPEND"
  BY <1>1 DEF KernelOK, PendingLists, Waiters
<1>5. {Recv, Send, Queue, Event, Pool} \subseteq Obj /\ Mutex \subseteq Obj
  BY MboxAssumption, MqueueAssumption, MutexAssumption, EventAssumption,
     MpoolAssumption
<1>6. /\ k.stat \in [Task -> Stat] /\ k.error \in [Task -> Errno]
      /\ k.prio \in [Task -> Prio]
  BY <1>1 DEF Kernel
<1> QED
  BY <1>1, <1>2, <1>3, <1>4, <1>5, <1>6 DEF WaitInv, WaitTypeOK, AsksOK, Works

(* The objects are different ones.                                         *)
LEMMA ObjectsDiffer ==
    /\ Recv # Send /\ Recv # Queue /\ Recv # Event /\ Recv # Pool
    /\ Send # Queue /\ Send # Event /\ Send # Pool
    /\ Queue # Event /\ Queue # Pool /\ Event # Pool
    /\ Recv \notin Mutex /\ Send \notin Mutex /\ Queue \notin Mutex
    /\ Event \notin Mutex /\ Pool \notin Mutex
<1> DEFINE o == <<Recv, Send, Queue, Event, Pool>>
<1>1. \A i, j \in 1..5 : o[i] = o[j] => i = j
  BY ObjectsAssumption
<1>2. /\ o[1] = Recv /\ o[2] = Send /\ o[3] = Queue /\ o[4] = Event /\ o[5] = Pool
      /\ {1, 2, 3, 4, 5} \subseteq 1..5
  OBVIOUS
<1> HIDE DEF o
<1>3. /\ Recv # Send /\ Recv # Queue /\ Recv # Event /\ Recv # Pool
      /\ Send # Queue /\ Send # Event /\ Send # Pool
      /\ Queue # Event /\ Queue # Pool /\ Event # Pool
  BY <1>1, <1>2
<1> QED  BY <1>3, ObjectsAssumption

(* A task waits for one object.                                            *)
LEMMA OnePlace ==
    ASSUME NEW t, NEW o \in Obj, NEW q \in Obj, Place(t, o), Place(t, q)
    PROVE  o = q
BY ObjectsDiffer DEF Place

(* A task that executes a step waits for nothing.                          *)
LEMMA ActorFree ==
    ASSUME WaitInv, NEW t \in Task, k.cur = t, t \notin resched
    PROVE  k.stat[t] = "READY" /\ \A o \in Obj : t \notin Waiters(o)
<1>1. k.stat[t] = "READY"
  BY DEF WaitInv, CurOK, Works
<1> QED  BY <1>1, WaitFacts

(* What a step of task t, or of the kernel when t is the idle task, that   *)
(* works on the pending lists of Os does to the other tasks and lists: a   *)
(* wait for another object ends only by its timeout or by the deletion.    *)
Shift(t, Os) ==
    /\ \A u \in Task \ {t} :
          /\ pc'[u] = pc[u] /\ todo'[u] = todo[u]
          /\ pc[u] # "evBack" => val'[u] = val[u]
          /\ k.stat[u] = "READY" => k'.error[u] = k.error[u]
          /\ u \in ToSet(k'.timers) => u \in ToSet(k.timers)
    /\ \A o \in Obj \ Os :
          /\ Waiters(o)' \subseteq Waiters(o)
          /\ \A u \in Waiters(o) \ Waiters(o)' :
                /\ k'.error[u] # "OS_OK"
                /\ \/ u \in ToSet(k.timers)
                   \/ \E v \in Task : pc[v] = "resumeNext" /\ o = Head(todo[v])
    /\ Os \cap Mutex = {} => k'.prio = k.prio

(* A step that ends waits keeps the invariant.                             *)
LEMMA EndsShift ==
    ASSUME WaitInv, NEW t \in Task, NEW S, NEW Os, Ends(k, k', S),
           \A u \in S \ {t} : k.stat[u] = "SUSPEND",
           \A o \in Obj \ Os : \A u \in S \cap Waiters(o) :
              /\ k'.error[u] # "OS_OK"
              /\ \/ u \in ToSet(k.timers)
                 \/ \E v \in Task : pc[v] = "resumeNext" /\ o = Head(todo[v]),
           \A u \in Task \ {t} : /\ pc'[u] = pc[u] /\ todo'[u] = todo[u]
                                 /\ pc[u] # "evBack" => val'[u] = val[u],
           k.stat[t] = "READY", Os \cap Mutex = {} => k'.prio = k.prio,
           resched \subseteq resched' \/ k'.stat[k'.cur] = "READY",
           WaitTypeOK(Step)', AsksOK', OwnersOK', mb' \in Mailbox
    PROVE  WaitInv' /\ Shift(t, Os)
<1>1. Works(k)'
  BY DEF Ends, Works
<1>2. \A o \in Obj : Waiters(o)' = Waiters(o) \ S
  BY DEF Ends, Waiters
<1>3. CurOK'
  BY DEF Ends, CurOK, WaitInv, Works
<1>4. \A o \in Obj : \A u \in Waiters(o) : u \in Task \ {t}
  BY WaitFacts
<1>5. PlacesOK'
  BY <1>2, <1>4 DEF Ends, WaitInv, PlacesOK, Place
<1>6. SleepersOK'
  BY <1>2 DEF Ends, WaitInv, SleepersOK
<1>7. \A u \in Task \ {t} : k.stat[u] = "READY" => k'.error[u] = k.error[u]
  BY DEF Ends
<1>8. \A u \in Task \ {t} : u \in ToSet(k'.timers) => u \in ToSet(k.timers)
  BY DEF Ends
<1> QED
  BY <1>1, <1>2, <1>3, <1>5, <1>6, <1>7, <1>8 DEF WaitInv, Shift

(* So does one in which a task begins to wait or to sleep.                 *)
LEMMA BeginsShift ==
    ASSUME WaitInv, NEW t \in Task, NEW Os, Begins(k, k', Os, t),
           k.cur = t, k.stat[t] = "READY", t \in resched', resched \subseteq resched',
           \A u \in Task \ {t} : /\ pc'[u] = pc[u] /\ todo'[u] = todo[u]
                                 /\ val'[u] = val[u],
           \A o \in Os : Place(t, o)', Os \subseteq Obj,
           Os = {} => pc'[t] = "slept",
           Os \cap Mutex = {} => k'.prio = k.prio,
           WaitTypeOK(Step)', AsksOK', OwnersOK', mb' \in Mailbox
    PROVE  WaitInv' /\ Shift(t, Os)
<1>1. Works(k)'
  BY DEF Begins, Works
<1>2. \A o \in Obj : Waiters(o)' = IF o \in Os THEN Waiters(o) \cup {t} ELSE Waiters(o)
  BY DEF Begins, Waiters
<1>3. CurOK'
  BY DEF Begins, CurOK, WaitInv, Works
<1>4. \A o \in Obj : \A u \in Waiters(o) : u \in Task \ {t}
  BY WaitFacts
<1>5. PlacesOK'
  <2> SUFFICES ASSUME NEW o \in Obj, NEW u \in Waiters(o)'
               PROVE  Place(u, o)' /\ k'.error[u] = "OS_OK"
    BY DEF PlacesOK
  <2>1. CASE u \in Waiters(o)
    BY <1>4, <2>1 DEF Begins, WaitInv, PlacesOK, Place
  <2>2. CASE u \notin Waiters(o)
    <3>1. o \in Os /\ u = t
      BY <1>2, <2>2
    <3> QED  BY <3>1 DEF Begins
  <2> QED  BY <2>1, <2>2
<1>6. SleepersOK'
  <2> SUFFICES ASSUME NEW u \in Task, k'.stat[u] = "SUSPEND"
               PROVE  pc'[u] = "slept" \/ \E o \in Obj : u \in Waiters(o)'
    BY DEF SleepersOK
  <2>1. CASE u = t
    <3>1. CASE Os = {}  BY <2>1, <3>1
    <3>2. CASE Os # {}
      <4>1. PICK o \in Os : o \in Obj
        BY <3>2
      <4>2. u \in Waiters(o)'
        BY <1>2, <2>1, <4>1
      <4> QED  BY <4>1, <4>2
    <3> QED  BY <3>1, <3>2
  <2>2. CASE u # t
    <3>1. k.stat[u] = "SUSPEND"
      BY <2>2, WaitFacts DEF Begins
    <3> QED  BY <1>2, <2>2, <3>1 DEF WaitInv, SleepersOK
  <2> QED  BY <2>1, <2>2
<1>7. \A u \in Task \ {t} : /\ k'.error[u] = k.error[u]
                            /\ u \in ToSet(k'.timers) => u \in ToSet(k.timers)
  BY DEF Begins
<1> QED
  BY <1>1, <1>2, <1>3, <1>5, <1>6, <1>7 DEF WaitInv, Shift

(* The variables of a call of task t, which goes to step s.                *)
Moved(t, s) ==
    /\ pc' = [pc EXCEPT ![t] = s]
    /\ \E d \in 0..Forever : arg' = [arg EXCEPT ![t] = d]
    /\ \E d \in 0..Forever : since' = [since EXCEPT ![t] = d]
    /\ \E v \in Val \cup {NoVal} : val' = [val EXCEPT ![t] = v]
    /\ \E os \in Seq(Obj \ {Pool}) : todo' = [todo EXCEPT ![t] = os]

(* A call that ends, and one that only goes on.                            *)
LEMMA FinishMoves ==
    ASSUME WaitInv, NEW t \in Task, Finish(t)
    PROVE  /\ Moved(t, "app") /\ todo' = todo
           /\ pc' = [pc EXCEPT ![t] = "app"] /\ val' = [val EXCEPT ![t] = NoVal]
<1>1. Forever \in 0..Forever /\ 0 \in 0..Forever
  BY WaitAssumption
<1>2. todo = [todo EXCEPT ![t] = todo[t]] /\ todo[t] \in Seq(Obj \ {Pool})
  BY DEF WaitInv, WaitTypeOK, AsksOK
<1> QED  BY <1>1, <1>2 DEF Moved, Finish, Goto

(* A step to another place in the same function.                           *)
LEMMA GotoMoves ==
    ASSUME WaitInv, NEW t \in Task, NEW s, pc' = [pc EXCEPT ![t] = s],
           UNCHANGED <<arg, since, todo>>,
           NEW v \in Val \cup {NoVal}, val' = [val EXCEPT ![t] = v]
    PROVE  Moved(t, s)
<1>1. /\ arg = [arg EXCEPT ![t] = arg[t]] /\ arg[t] \in 0..Forever
      /\ since = [since EXCEPT ![t] = since[t]] /\ since[t] \in 0..Forever
      /\ todo = [todo EXCEPT ![t] = todo[t]] /\ todo[t] \in Seq(Obj \ {Pool})
  BY DEF WaitInv, WaitTypeOK, AsksOK
<1> QED  BY <1>1 DEF Moved

(* A step that leaves the task where it is.                                *)
LEMMA StayMoves ==
    ASSUME WaitInv, NEW t \in Task, UNCHANGED <<pc, arg, since, val, todo>>
    PROVE  Moved(t, pc[t])
<1>1. /\ pc = [pc EXCEPT ![t] = pc[t]]
      /\ val = [val EXCEPT ![t] = val[t]] /\ val[t] \in Val \cup {NoVal}
  BY DEF WaitInv, WaitTypeOK
<1> QED  BY <1>1, GotoMoves

(* A step that begins to wait.                                             *)
LEMMA BeginMoves ==
    ASSUME WaitInv, NEW t \in Task, NEW s, NEW d \in 0..Forever, Goto(t, s),
           arg' = [arg EXCEPT ![t] = d],
           \E n \in 0..Forever : since' = [since EXCEPT ![t] = n],
           todo' = todo, NEW v \in Val \cup {NoVal}, val' = [val EXCEPT ![t] = v]
    PROVE  Moved(t, s)
<1>1. todo = [todo EXCEPT ![t] = todo[t]] /\ todo[t] \in Seq(Obj \ {Pool})
  BY DEF WaitInv, WaitTypeOK, AsksOK
<1> QED  BY <1>1 DEF Moved, Goto

(* The types, and the other tasks.                                         *)
LEMMA MovedOK ==
    ASSUME WaitInv, NEW t \in Task, NEW s \in Step, Moved(t, s),
           resched' \subseteq Task, k' \in Kernel,
           s = "evBack" => val'[t] \in [set : Bits, info : Info],
           s = "putBack" => val'[t] \in Msg,
           s = "resumeNext" => todo'[t] # <<>>, t = Idle => s = "app"
    PROVE  /\ WaitTypeOK(Step)' /\ AsksOK'
           /\ pc'[t] = s
           /\ \A u \in Task \ {t} : /\ pc'[u] = pc[u] /\ todo'[u] = todo[u]
                                    /\ val'[u] = val[u]
<1>1. /\ pc \in [Task -> Step] /\ arg \in [Task -> 0..Forever]
      /\ since \in [Task -> 0..Forever] /\ val \in [Task -> Val \cup {NoVal}]
      /\ todo \in [Task -> Seq(Obj)]
  BY DEF WaitInv, WaitTypeOK
<1>2. /\ pc' \in [Task -> Step] /\ arg' \in [Task -> 0..Forever]
      /\ since' \in [Task -> 0..Forever] /\ val' \in [Task -> Val \cup {NoVal}]
      /\ todo' \in [Task -> Seq(Obj)]
  BY <1>1 DEF Moved
<1>3. /\ pc'[t] = s
      /\ \A u \in Task \ {t} : /\ pc'[u] = pc[u] /\ todo'[u] = todo[u]
                               /\ val'[u] = val[u]
  BY <1>1 DEF Moved
<1>4. todo'[t] \in Seq(Obj \ {Pool})
  BY <1>1 DEF Moved
<1>5. AsksOK'
  BY <1>3, <1>4, KernelAssumption DEF WaitInv, AsksOK
<1> QED  BY <1>2, <1>3, <1>5 DEF WaitTypeOK

(* A step of a task in which waits for the objects of Os end.              *)
LEMMA ActShift ==
    ASSUME WaitInv, NEW t \in Task, k.cur = t, t \notin resched,
           NEW s \in Step \ {"evBack", "putBack"}, Moved(t, s),
           s = "resumeNext" => todo'[t] # <<>>, t = Idle => s = "app",
           NEW S, Ends(k, k', S), NEW Os, Os \subseteq Obj,
           \A u \in S \ {t} : \E o \in Os : u \in Waiters(o),
           Os \cap Mutex = {} => k'.prio = k.prio,
           resched' \in {resched, resched \cup {t}},
           OwnersOK', mb' \in Mailbox
    PROVE  WaitInv' /\ Shift(t, Os)
<1>1. k' \in Kernel /\ resched \subseteq Task
  BY DEF Ends, Works, KernelOK, WaitInv, WaitTypeOK
<1>2. /\ WaitTypeOK(Step)' /\ AsksOK'
      /\ \A u \in Task \ {t} : /\ pc'[u] = pc[u] /\ todo'[u] = todo[u]
                               /\ val'[u] = val[u]
  BY <1>1, MovedOK
<1>3. k.stat[t] = "READY" /\ \A o \in Obj : t \notin Waiters(o)
  BY ActorFree
<1>4. \A u \in S \ {t} : k.stat[u] = "SUSPEND"
  BY WaitFacts
<1>5. \A o \in Obj \ Os : \A u \in S : u \notin Waiters(o)
  <2> SUFFICES ASSUME NEW o \in Obj \ Os, NEW u \in S, u \in Waiters(o)
               PROVE  FALSE
    OBVIOUS
  <2>1. PICK q \in Os : u \in Waiters(q)
    BY <1>3
  <2>2. Place(u, o) /\ Place(u, q)
    BY <2>1 DEF WaitInv, PlacesOK
  <2> QED  BY <2>1, <2>2, OnePlace
<1> QED
  BY <1>2, <1>3, <1>4, <1>5, EndsShift

(* A step of a task that begins to wait for o.                             *)
LEMMA WaitShift ==
    ASSUME WaitInv, NEW t \in Task, k.cur = t, t \notin resched, t # Idle,
           NEW o \in Obj, NEW s \in Step, Moved(t, s), s # "resumeNext",
           s = "evBack" => val'[t] \in [set : Bits, info : Info],
           s = "putBack" => val'[t] \in Msg,
           Begins(k, k', {o}, t), Place(t, o)',
           o \notin Mutex => k'.prio = k.prio,
           ThenSched(t), OwnersOK', mb' \in Mailbox
    PROVE  WaitInv' /\ Shift(t, {o})
<1>1. k' \in Kernel /\ resched' \subseteq Task
  BY DEF Begins, Works, KernelOK, WaitInv, WaitTypeOK, ThenSched
<1>2. /\ WaitTypeOK(Step)' /\ AsksOK'
      /\ \A u \in Task \ {t} : /\ pc'[u] = pc[u] /\ todo'[u] = todo[u]
                               /\ val'[u] = val[u]
  BY <1>1, MovedOK
<1>3. k.stat[t] = "READY"
  BY ActorFree
<1> QED
  BY <1>2, <1>3, BeginsShift DEF ThenSched

-----------------------------------------------------------------------------
(* The functions of the mailbox, and the inductive invariant               *)

(* The first of the waiters of o, and with it os_sched at the end of the   *)
(* call.                                                                   *)
LEMMA GiveShift ==
    ASSUME WaitInv, NEW t \in Task, k.cur = t, k.isr = 0, t \notin resched,
           NEW s \in Step \ {"evBack", "putBack", "resumeNext"}, Moved(t, s),
           t = Idle => s = "app",
           NEW o \in Obj, o \notin Mutex, k' = ResumeHead(k, o),
           resched' \in {resched, resched \cup {t}},
           mx' = mx, mb' \in Mailbox
    PROVE  WaitInv' /\ Shift(t, {o})
<1> DEFINE S == Firsts(k, o)
<1>1. Works(k) /\ o \in Obj
  BY WaitFacts
<1>2. /\ Ends(k, k', S) /\ k'.prio = k.prio
      /\ S \subseteq ToSet(k.pend[o])
  BY <1>1, ResumeHeadEnds
<1>3. OwnersOK'
  BY DEF WaitInv, OwnersOK
<1> HIDE DEF S
<1>4. \A u \in S \ {t} : \E q \in {o} : u \in Waiters(q)
  BY <1>2 DEF Waiters
<1> QED  BY <1>2, <1>3, <1>4, ActShift

(* A step of a call that leaves the kernel alone, and one that only writes *)
(* the error of the caller.                                                *)
LEMMA OwnShift ==
    ASSUME WaitInv, NEW t \in Task, k.cur = t, t \notin resched,
           NEW s \in Step \ {"evBack", "putBack"}, Moved(t, s),
           t = Idle => s = "app", s = "resumeNext" => todo'[t] # <<>>,
           k' = k, resched' = resched, OwnersOK', mb' \in Mailbox
    PROVE  WaitInv' /\ Shift(t, {})
<1>1. Works(k)
  BY WaitFacts
<1>2. Ends(k, k', {}) /\ k'.prio = k.prio
  BY <1>1, EndsNone
<1> QED  BY <1>2, ActShift

(* A step that only writes an error number.                                *)
LEMMA ErrorShift ==
    ASSUME WaitInv, NEW t \in Task, k.cur = t, t \notin resched,
           NEW s \in Step \ {"evBack", "putBack", "resumeNext"}, Moved(t, s),
           t = Idle => s = "app", NEW e \in Errno, k' = SetError(k, t, e),
           resched' = resched, OwnersOK', mb' \in Mailbox
    PROVE  WaitInv' /\ Shift(t, {})
<1>1. Works(k)
  BY WaitFacts
<1>2. k.stat[t] = "READY"
  BY ActorFree
<1>3. Ends(k, k', {t}) /\ k'.prio = k.prio
  BY <1>1, <1>2, ErrorEnds
<1> QED  BY <1>3, ActShift

(* A call empties the lists of Os in one critical section.                 *)
LEMMA EmptyShift ==
    ASSUME WaitInv, NEW t \in Task, k.cur = t, t \notin resched, pc[t] = "app",
           UNCHANGED <<pc, arg, since, val, todo>>, ThenSched(t),
           NEW Os, Os \subseteq Obj, Os \cap Mutex = {},
           NEW S, Ends(k, k', S), k'.prio = k.prio,
           \A u \in S : \E o \in Os : u \in Waiters(o),
           mx' = mx, mb' \in Mailbox
    PROVE  WaitInv' /\ Shift(t, Os)
<1>1. Moved(t, "app") /\ "app" \in Step \ {"evBack", "putBack"}
  BY StayMoves DEF Step, WaitStep
<1>2. OwnersOK'
  BY DEF WaitInv, OwnersOK
<1>3. resched' \in {resched, resched \cup {t}}
  BY DEF ThenSched
<1> QED  BY <1>1, <1>2, <1>3, ActShift

(* A function that deletes an object begins to empty its lists.            *)
LEMMA DeleteShift ==
    ASSUME WaitInv, NEW t \in Task, Calls(t), NEW os \in Seq(Obj \ {Pool}),
           ResumeLists(t, os), mx' = mx, mb' = mb
    PROVE  WaitInv' /\ Shift(t, {})
<1>1. k.cur = t /\ t \notin resched /\ t # Idle
  BY DEF Calls, At
<1>2. Moved(t, "resume")
  <2>1. /\ arg = [arg EXCEPT ![t] = arg[t]] /\ arg[t] \in 0..Forever
        /\ since = [since EXCEPT ![t] = since[t]] /\ since[t] \in 0..Forever
        /\ val = [val EXCEPT ![t] = val[t]] /\ val[t] \in Val \cup {NoVal}
    BY DEF WaitInv, WaitTypeOK
  <2> QED  BY <2>1 DEF Moved, ResumeLists, Goto
<1>3. "resume" \in Step \ {"evBack", "putBack"}
  BY DEF Step, WaitStep
<1>4. OwnersOK' /\ mb' \in Mailbox /\ k' = k /\ resched' = resched
  BY DEF WaitInv, OwnersOK, ResumeLists
<1> QED  BY <1>1, <1>2, <1>3, <1>4, OwnShift

(* What is left of a timeout.                                              *)
LEMMA RemainingOK ==
    ASSUME WaitInv, NEW t \in Task
    PROVE  Remaining(t) \in Nat /\ Remaining(t) \in 0..Forever
<1>1. /\ arg[t] \in 0..Forever /\ since[t] \in 0..Forever /\ Forever \in Nat
  BY WaitAssumption DEF WaitInv, WaitTypeOK
<1> QED  BY <1>1 DEF Remaining, NoWait

(* A task waits for an object that is no mutex.                            *)
LEMMA CallShift ==
    ASSUME WaitInv, NEW t \in Task, k.cur = t, k.isr = 0, t \notin resched,
           t # Idle, NEW o \in Obj, o \notin Mutex, NEW d \in Nat, d \in 0..Forever,
           NEW s \in Step, s # "resumeNext", BeginWait(t, o, d, s), Place(t, o)',
           s = "evBack" => val'[t] \in [set : Bits, info : Info],
           s = "putBack" => val'[t] \in Msg,
           NEW v \in Val \cup {NoVal}, val' = [val EXCEPT ![t] = v],
           mx' = mx, mb' = mb
    PROVE  WaitInv' /\ Shift(t, {o})
<1>1. Works(k)
  BY WaitFacts
<1>2. k.stat[t] = "READY"
  BY ActorFree
<1>3. k' = WaitIn(k, o, t, d) /\ ThenSched(t)
  BY DEF BeginWait
<1>4. Begins(k, k', {o}, t) /\ k'.prio = k.prio
  BY <1>1, <1>2, <1>3, WaitInBegins
<1>5. Moved(t, s)
  <2>1. /\ Goto(t, s) /\ arg' = [arg EXCEPT ![t] = d] /\ todo' = todo
        /\ \E n \in 0..Forever : since' = [since EXCEPT ![t] = n]
    <3>1. 0 \in 0..Forever
      BY WaitAssumption
    <3> QED  BY <3>1 DEF BeginWait
  <2>2. todo = [todo EXCEPT ![t] = todo[t]] /\ todo[t] \in Seq(Obj \ {Pool})
    BY DEF WaitInv, WaitTypeOK, AsksOK
  <2> QED  BY <2>1, <2>2 DEF Moved, Goto
<1>6. OwnersOK' /\ mb' \in Mailbox
  BY DEF WaitInv, OwnersOK
<1> QED  BY <1>3, <1>4, <1>5, <1>6, WaitShift

(* A handler resumes the first of the waiters of o.                        *)
LEMMA IsrShift ==
    ASSUME WaitInv, k.isr = 0, UNCHANGED <<pc, resched, arg, since, val, todo>>,
           NEW o \in Obj, o \notin Mutex, k' = IsrResumeHead(k, o),
           mx' = mx, mb' \in Mailbox
    PROVE  WaitInv' /\ Shift(Idle, {o})
<1> DEFINE S == Firsts(k, o)
           Os == {o}
<1>1. Works(k) /\ Idle \in Task /\ k.stat[Idle] = "READY"
  BY WaitFacts
<1>2. /\ Ends(k, k', S) /\ k'.prio = k.prio
      /\ S \subseteq ToSet(k.pend[o])
  BY <1>1, IsrResumeHeadEnds
<1>3. OwnersOK' /\ AsksOK' /\ WaitTypeOK(Step)'
  BY <1>2 DEF WaitInv, OwnersOK, AsksOK, WaitTypeOK, Ends, Works, KernelOK
<1> HIDE DEF S
<1>4. \A u \in S : k.stat[u] = "SUSPEND" /\ u \in Waiters(o)
  BY <1>2, WaitFacts DEF Waiters
<1>5. \A q \in Obj \ Os : \A u \in S : u \notin Waiters(q)
  <2> SUFFICES ASSUME NEW q \in Obj \ Os, NEW u \in S, u \in Waiters(q)
               PROVE  FALSE
    OBVIOUS
  <2>1. Place(u, q) /\ Place(u, o)
    BY <1>4 DEF WaitInv, PlacesOK
  <2> QED  BY <2>1, OnePlace
<1> HIDE DEF Os
<1>6. /\ \A u \in S \ {Idle} : k.stat[u] = "SUSPEND"
      /\ \A q \in Obj \ Os : \A u \in S \cap Waiters(q) :
            /\ k'.error[u] # "OS_OK"
            /\ \/ u \in ToSet(k.timers)
               \/ \E v \in Task : pc[v] = "resumeNext" /\ q = Head(todo[v])
      /\ \A u \in Task \ {Idle} : /\ pc'[u] = pc[u] /\ todo'[u] = todo[u]
                                  /\ pc[u] # "evBack" => val'[u] = val[u]
      /\ Os \cap Mutex = {} => k'.prio = k.prio
      /\ resched \subseteq resched'
  BY <1>2, <1>4, <1>5
<1>7. WaitInv' /\ Shift(Idle, Os)
  BY <1>1, <1>2, <1>3, <1>6, EndsShift
<1> QED  BY <1>7 DEF Os

(* A message more or less in the ring.                                     *)
LEMMA RingTypes ==
    ASSUME WaitInv
    PROVE  /\ \A v \in Msg : mb.entry < Size /\ Store(v) => mb' \in Mailbox
           /\ mb.entry > 0 => /\ [mb EXCEPT !.out = NextOffset(@), !.entry = @ - 1]
                                      \in Mailbox
                              /\ mb.pool[mb.out] \in Val \cup {NoVal}
<1>1. /\ Size \in Nat /\ Size > 0 /\ Msg \subseteq Val
      /\ mb.in \in 0..Size - 1 /\ mb.out \in 0..Size - 1 /\ mb.entry \in 0..Size
      /\ mb.pool \in [0..Size - 1 -> Msg \cup {NoVal}] /\ mb \in Mailbox
  BY MboxAssumption, WaitAssumption DEF WaitInv, Mailbox
<1>2. \A i \in 0..Size - 1 : NextOffset(i) \in 0..Size - 1
  BY <1>1 DEF NextOffset
<1>3. ASSUME NEW v \in Msg, mb.entry < Size, Store(v)
      PROVE  mb' \in Mailbox
  <2> DEFINE p == [mb.pool EXCEPT ![mb.in] = v]
             n == NextOffset(mb.in)
             e == mb.entry + 1
  <2>1. p \in [0..Size - 1 -> Msg \cup {NoVal}] /\ n \in 0..Size - 1 /\ e \in 0..Size
    <3>1. p \in [0..Size - 1 -> Msg \cup {NoVal}]
      BY <1>1
    <3>2. e \in 0..Size
      BY <1>1, <1>3
    <3> QED  BY <1>1, <1>2, <3>1, <3>2
  <2>2. mb' = [mb EXCEPT !.pool = p, !.in = n, !.entry = e]
    BY <1>1, <1>3 DEF Store, Mailbox
  <2> HIDE DEF p, n, e
  <2> QED  BY <1>1, <2>1, <2>2 DEF Mailbox
<1>4. ASSUME mb.entry > 0
      PROVE  [mb EXCEPT !.out = NextOffset(@), !.entry = @ - 1] \in Mailbox
  <2> DEFINE n == NextOffset(mb.out)
             e == mb.entry - 1
  <2>1. n \in 0..Size - 1 /\ e \in 0..Size
    <3>1. e \in 0..Size
      BY <1>1, <1>4
    <3> QED  BY <1>1, <1>2, <3>1
  <2>2. [mb EXCEPT !.out = NextOffset(@), !.entry = @ - 1]
            = [mb EXCEPT !.out = n, !.entry = e]
    BY <1>1 DEF Mailbox
  <2> HIDE DEF n, e
  <2> QED  BY <1>1, <2>1, <2>2 DEF Mailbox
<1>5. \A v \in Msg : mb.entry < Size /\ Store(v) => mb' \in Mailbox
  BY <1>3
<1>6. mb.pool[mb.out] \in Val \cup {NoVal}
  BY <1>1
<1>7. mb.entry > 0 => /\ [mb EXCEPT !.out = NextOffset(@), !.entry = @ - 1]
                             \in Mailbox
                      /\ mb.pool[mb.out] \in Val \cup {NoVal}
  BY <1>4, <1>6, Zenon
<1> QED  BY <1>5, <1>7


(* What is allowed for some objects is allowed for more.                   *)
LEMMA ShiftMore ==
    ASSUME NEW t, NEW Os, NEW Ps, Os \subseteq Ps, Ps \cap Mutex = {}, Shift(t, Os)
    PROVE  Shift(t, Ps)
<1>1. /\ \A o \in Obj \ Ps : o \in Obj \ Os
      /\ Os \cap Mutex = {}
  OBVIOUS
<1> QED  BY <1>1 DEF Shift

(* os_mbox_put stores a message, os_mbox_get takes one.                    *)
LEMMA PutShift ==
    ASSUME WaitInv, NEW t \in Task, k.cur = t, k.isr = 0, t \notin resched,
           NEW v \in Msg, PutStores(t, v), mx' = mx
    PROVE  WaitInv' /\ Shift(t, {Recv, Send})
<1>1. Moved(t, "app")
  BY FinishMoves DEF PutStores
<1>2. "app" \in Step \ {"evBack", "putBack", "resumeNext"}
  BY DEF Step, WaitStep
<1>3. /\ k' = ResumeHead(k, Recv) /\ resched' \in {resched, resched \cup {t}}
  BY DEF PutStores, ThenSched
<1>4. mb' \in Mailbox
  BY RingTypes DEF PutStores
<1>5. Recv \in Obj /\ Recv \notin Mutex /\ {Recv, Send} \cap Mutex = {}
  BY MboxAssumption, ObjectsDiffer
<1>6. WaitInv' /\ Shift(t, {Recv})
  BY <1>1, <1>2, <1>3, <1>4, <1>5, GiveShift
<1> QED  BY <1>5, <1>6, ShiftMore

(* os_mbox_get takes a message.                                            *)
LEMMA GetShift ==
    ASSUME WaitInv, NEW t \in Task, k.cur = t, k.isr = 0, t \notin resched,
           t # Idle, GetTakes(t), mx' = mx
    PROVE  WaitInv' /\ Shift(t, {Recv, Send})
<1>1. Moved(t, "got")
  BY GotoMoves, RingTypes DEF GetTakes, Goto
<1>2. "got" \in Step \ {"evBack", "putBack", "resumeNext"}
  BY DEF Step, MboxStep
<1>3. /\ k' = ResumeHead(k, Send) /\ resched' \in {resched, resched \cup {t}}
  BY DEF GetTakes, ThenSched
<1>4. mb' \in Mailbox
  BY RingTypes DEF GetTakes
<1>5. Send \in Obj /\ Send \notin Mutex /\ {Recv, Send} \cap Mutex = {}
  BY MboxAssumption, ObjectsDiffer
<1>6. WaitInv' /\ Shift(t, {Send})
  BY <1>1, <1>2, <1>3, <1>4, <1>5, GiveShift
<1> QED  BY <1>5, <1>6, ShiftMore

(* A call on an object that ends without a change of it, and of no list.   *)
LEMMA OverShift ==
    ASSUME WaitInv, NEW t \in Task, k.cur = t, t \notin resched, Finish(t),
           k' = k \/ \E e \in Errno : k' = SetError(k, t, e),
           resched' = resched, OwnersOK', mb' \in Mailbox
    PROVE  WaitInv' /\ Shift(t, {})
<1>1. Moved(t, "app")
  BY FinishMoves
<1>2. "app" \in Step \ {"evBack", "putBack", "resumeNext"}
  BY DEF Step, WaitStep
<1>3. CASE k' = k
  BY <1>1, <1>2, <1>3, OwnShift
<1>4. CASE \E e \in Errno : k' = SetError(k, t, e)
  <2>1. PICK e \in Errno : k' = SetError(k, t, e)
    BY <1>4
  <2> QED  BY <1>1, <1>2, <2>1, ErrorShift
<1> QED  BY <1>3, <1>4

(* Every function of the mailbox.                                          *)
LEMMA MboxShift ==
    ASSUME WaitInv, NEW t \in Task, Mbox(t)
    PROVE  WaitInv' /\ Shift(t, {Recv, Send})
<1>1. mx' = mx /\ (mb' = mb => mb' \in Mailbox) /\ OwnersOK'
  BY DEF Mbox, SameMutexes, WaitInv, OwnersOK
<1>2. /\ {Recv, Send} \subseteq Obj /\ Recv \notin Mutex /\ Send \notin Mutex
      /\ {Recv, Send} \cap Mutex = {}
  BY MboxAssumption, ObjectsDiffer
<1>3. /\ "putBack" \in Step /\ "getBack" \in Step
      /\ Timeout \subseteq 0..Forever /\ Forever \in Nat /\ Msg \subseteq Val
      /\ "OS_TIMEOUT" \in Errno
  BY WaitAssumption DEF Step, MboxStep, WaitInv, AsksOK, Errno
<1>4. ASSUME NEW d \in Timeout
      PROVE  d \in Nat /\ d \in 0..Forever
  BY <1>3
<1>5. pc \in [Task -> Step] /\ val \in [Task -> Val \cup {NoVal}]
  BY WaitFacts
<1>6. Remaining(t) \in Nat /\ Remaining(t) \in 0..Forever
  BY RemainingOK
<1>10. CASE MboxGet(t)
  BY <1>1, <1>10, GetShift DEF MboxGet, Calls, At
<1>11. ASSUME NEW v \in Msg, MboxPut(t, v)
       PROVE  WaitInv' /\ Shift(t, {Recv, Send})
  BY <1>1, <1>11, PutShift DEF MboxPut, Calls, At
<1>12. ASSUME NEW v \in Msg, NEW d \in Timeout, MboxPutWait(t, v, d)
       PROVE  WaitInv' /\ Shift(t, {Recv, Send})
  <2>1. /\ k.cur = t /\ k.isr = 0 /\ t \notin resched /\ t # Idle
        /\ BeginWait(t, Send, d, "putBack")
        /\ val' = [val EXCEPT ![t] = v] /\ mb' = mb
    BY <1>12 DEF MboxPutWait, Calls, At
  <2>2. Place(t, Send)' /\ val'[t] \in Msg /\ v \in Val \cup {NoVal}
    BY <1>3, <1>5, <2>1 DEF Place, BeginWait, Goto
  <2>3. WaitInv' /\ Shift(t, {Send})
    BY <1>1, <1>2, <1>3, <1>4, <2>1, <2>2, CallShift
  <2> QED  BY <1>2, <2>3, ShiftMore
<1>13. ASSUME NEW d \in Timeout, MboxGetWait(t, d)
       PROVE  WaitInv' /\ Shift(t, {Recv, Send})
  <2>1. /\ k.cur = t /\ k.isr = 0 /\ t \notin resched /\ t # Idle
        /\ BeginWait(t, Recv, d, "getBack")
        /\ val' = [val EXCEPT ![t] = val[t]] /\ mb' = mb
    BY <1>5, <1>13 DEF MboxGetWait, Calls, At
  <2>2. Place(t, Recv)' /\ val[t] \in Val \cup {NoVal}
    BY <1>5, <2>1 DEF Place, BeginWait, Goto
  <2>3. WaitInv' /\ Shift(t, {Recv})
    BY <1>1, <1>2, <1>3, <1>4, <2>1, <2>2, CallShift
  <2> QED  BY <1>2, <2>3, ShiftMore
<1>14. CASE PutBack(t)
  <2>1. val[t] \in Msg
    BY <1>14 DEF PutBack, At, WaitInv, AsksOK
  <2> QED  BY <1>1, <1>14, <2>1, PutShift DEF PutBack, At
<1>15. CASE PutAgain(t)
  <2>1. /\ k.cur = t /\ k.isr = 0 /\ t \notin resched /\ t # Idle
        /\ BeginWait(t, Send, Remaining(t), "putBack")
        /\ val' = [val EXCEPT ![t] = val[t]] /\ mb' = mb /\ val[t] \in Msg
    BY <1>5, <1>15 DEF PutAgain, At, WaitInv, AsksOK
  <2>2. Place(t, Send)' /\ val'[t] \in Msg /\ val[t] \in Val \cup {NoVal}
    BY <1>5, <2>1 DEF Place, BeginWait, Goto
  <2> DEFINE d == Remaining(t)
  <2>3. d \in Nat /\ d \in 0..Forever /\ BeginWait(t, Send, d, "putBack")
    BY <1>6, <2>1
  <2> HIDE DEF d
  <2>4. WaitInv' /\ Shift(t, {Send})
    BY <1>1, <1>2, <1>3, <2>1, <2>2, <2>3, CallShift
  <2> QED  BY <1>2, <2>4, ShiftMore
<1>16. CASE GetBack(t)
  BY <1>1, <1>16, GetShift DEF GetBack, At, WaitInv, AsksOK
<1>17. CASE GetAgain(t)
  <2>1. /\ k.cur = t /\ k.isr = 0 /\ t \notin resched /\ t # Idle
        /\ BeginWait(t, Recv, Remaining(t), "getBack")
        /\ val' = [val EXCEPT ![t] = val[t]] /\ mb' = mb
    BY <1>5, <1>17 DEF GetAgain, At, WaitInv, AsksOK
  <2>2. Place(t, Recv)' /\ val[t] \in Val \cup {NoVal}
    BY <1>5, <2>1 DEF Place, BeginWait, Goto
  <2> DEFINE d == Remaining(t)
  <2>3. d \in Nat /\ d \in 0..Forever /\ BeginWait(t, Recv, d, "getBack")
    BY <1>6, <2>1
  <2> HIDE DEF d
  <2>4. WaitInv' /\ Shift(t, {Recv})
    BY <1>1, <1>2, <1>3, <2>1, <2>2, <2>3, CallShift
  <2> QED  BY <1>2, <2>4, ShiftMore
<1>18. CASE PutFails(t) \/ GetTimesOut(t) \/ GetFails(t) \/ Got(t)
  <2>1. /\ k.cur = t /\ t \notin resched /\ Finish(t) /\ resched' = resched
        /\ k' = k \/ \E e \in Errno : k' = SetError(k, t, e)
        /\ mb' \in Mailbox
    BY <1>1, <1>3, <1>18 DEF PutFails, GetTimesOut, GetFails, Got, At, SetError
  <2>2. WaitInv' /\ Shift(t, {})
    BY <1>1, <2>1, OverShift
  <2> QED  BY <1>2, <2>2, ShiftMore
<1>19. CASE MboxReset(t)
  <2> DEFINE q == ListResumeAll(k, Recv)
             S == ToSet(k.pend[Recv]) \cup ToSet(q.pend[Send])
  <2>1. /\ k.cur = t /\ k.isr = 0 /\ t \notin resched /\ pc[t] = "app"
        /\ UNCHANGED <<pc, arg, since, val, todo>> /\ ThenSched(t)
        /\ k' = ListResumeAll(q, Send)
    BY <1>19 DEF MboxReset, Calls, At
  <2>2. mb' \in Mailbox
    <3> DEFINE z == 0
    <3>1. z \in 0..Size /\ z \in 0..Size - 1 /\ mb \in Mailbox
      BY MboxAssumption DEF WaitInv
    <3>2. mb' = [mb EXCEPT !.entry = z, !.in = z, !.out = z]
      BY <1>19 DEF MboxReset
    <3> HIDE DEF z
    <3> QED  BY <3>1, <3>2 DEF Mailbox
  <2> HIDE DEF q
  <2>3. Works(k) /\ q = ListResumeAll(k, Recv)
    BY WaitFacts DEF q
  <2>4. Ends(k, q, ToSet(k.pend[Recv])) /\ q.prio = k.prio /\ q.isr = 0
    BY <1>2, <2>1, <2>3, ResumeAllEnds
  <2>5. Works(q)
    BY <2>4 DEF Ends
  <2>6. Ends(q, k', ToSet(q.pend[Send])) /\ k'.prio = q.prio
    BY <1>2, <2>1, <2>4, <2>5, ResumeAllEnds
  <2>7. Ends(k, k', S) /\ k'.prio = k.prio
    BY <2>4, <2>6, EndsBoth
  <2>8. \A u \in S : \E o \in {Recv, Send} : u \in Waiters(o)
    BY <1>2, <2>4 DEF Waiters, Ends
  <2> HIDE DEF S
  <2> QED  BY <1>1, <1>2, <2>1, <2>2, <2>7, <2>8, EmptyShift
<1>20. CASE MboxDelete(t)
  <2>1. /\ Calls(t) /\ ResumeLists(t, <<Recv, Send>>) /\ mb' = mb
        /\ <<Recv, Send>> \in Seq(Obj \ {Pool})
    BY <1>2, <1>20, ObjectsDiffer DEF MboxDelete
  <2>2. WaitInv' /\ Shift(t, {})
    BY <1>1, <2>1, DeleteShift
  <2> QED  BY <1>2, <2>2, ShiftMore
<1> QED
  BY <1>10, <1>11, <1>12, <1>13, <1>14, <1>15, <1>16, <1>17, <1>18, <1>19, <1>20
     DEF Mbox, MboxCall, MboxContinue


(* os_isr_mbox_put.                                                        *)
LEMMA MboxIsrShift ==
    ASSUME WaitInv, MboxIsr
    PROVE  WaitInv' /\ Shift(Idle, {Recv, Send})
<1>1. PICK v \in Msg : MboxIsrPut(v)
  BY DEF MboxIsr
<1>2. Recv \in Obj /\ Recv \notin Mutex /\ {Recv, Send} \cap Mutex = {}
  BY MboxAssumption, ObjectsDiffer
<1>3. /\ k.isr = 0 /\ UNCHANGED <<pc, resched, arg, since, val, todo>>
      /\ k' = IsrResumeHead(k, Recv) /\ mx' = mx /\ mb' \in Mailbox
  BY <1>1, RingTypes DEF MboxIsr, MboxIsrPut, SameMutexes
<1>4. WaitInv' /\ Shift(Idle, {Recv})
  BY <1>2, <1>3, IsrShift
<1> QED  BY <1>2, <1>4, ShiftMore

-----------------------------------------------------------------------------
(* The functions of the message queue                                      *)

(* A task goes from a critical section of a call to the next one.          *)
LEMMA StepShift ==
    ASSUME WaitInv, NEW t \in Task, k.cur = t, t \notin resched, t # Idle,
           NEW s \in Step \ {"evBack", "putBack", "resumeNext"}, Goto(t, s),
           UNCHANGED <<k, resched, arg, since, val, todo>>,
           mx' = mx, mb' = mb
    PROVE  WaitInv' /\ Shift(t, {})
<1>1. val = [val EXCEPT ![t] = val[t]] /\ val[t] \in Val \cup {NoVal}
  BY WaitFacts
<1>2. Moved(t, s)
  BY <1>1, GotoMoves DEF Goto
<1>3. OwnersOK' /\ mb' \in Mailbox
  BY DEF WaitInv, OwnersOK
<1> QED  BY <1>2, <1>3, OwnShift

(* The waiters of o are left alone by a step without a change of a list.   *)
LEMMA LinkShift ==
    ASSUME WaitInv, NEW t \in Task, NEW s, NEW m, Linked(t, s, m),
           mx' = mx, mb' = mb
    PROVE  WaitInv' /\ Shift(t, {Queue})
<1>1. Moved(t, "app")
  BY FinishMoves DEF Linked
<1>2. "app" \in Step \ {"evBack", "putBack", "resumeNext"}
  BY DEF Step, WaitStep
<1>3. /\ k' = ResumeHead(k, Queue) /\ resched' \in {resched, resched \cup {t}}
      /\ k.cur = t /\ k.isr = 0 /\ t \notin resched /\ mb' \in Mailbox
  BY DEF Linked, ThenSched, At, WaitInv
<1>4. Queue \in Obj /\ Queue \notin Mutex
  BY MqueueAssumption, ObjectsDiffer
<1> QED  BY <1>1, <1>2, <1>3, <1>4, GiveShift

(* The functions of os_mqueue.c.                                           *)
LEMMA MqueueShift ==
    ASSUME WaitInv, NEW t \in Task, Mqueue(t)
    PROVE  WaitInv' /\ Shift(t, {Queue})
<1>1. mx' = mx /\ mb' = mb /\ mb' \in Mailbox /\ OwnersOK'
  BY DEF Mqueue, SameMutexes, SameMbox, WaitInv, OwnersOK
<1>2. Queue \in Obj /\ Queue \notin Mutex /\ {Queue} \cap Mutex = {}
  BY MqueueAssumption, ObjectsDiffer
<1>3. /\ "mqGetBack" \in Step
      /\ {"mqLink", "mqUrgent", "mqCopy"} \subseteq Step \ {"evBack", "putBack", "resumeNext"}
      /\ Timeout \subseteq 0..Forever /\ Forever \in Nat
      /\ "OS_TIMEOUT" \in Errno
  BY WaitAssumption DEF Step, MqueueStep, Errno
<1>4. ASSUME NEW d \in Timeout
      PROVE  d \in Nat /\ d \in 0..Forever
  BY <1>3
<1>5. pc \in [Task -> Step] /\ val \in [Task -> Val \cup {NoVal}]
  BY WaitFacts
<1>6. Remaining(t) \in Nat /\ Remaining(t) \in 0..Forever
  BY RemainingOK
<1>7. ASSUME NEW d \in Nat, d \in 0..Forever, k.cur = t, k.isr = 0,
             t \notin resched, t # Idle, BeginWait(t, Queue, d, "mqGetBack"),
             val' = val
      PROVE  WaitInv' /\ Shift(t, {Queue})
  <2>1. val' = [val EXCEPT ![t] = val[t]] /\ val[t] \in Val \cup {NoVal}
    BY <1>5, <1>7
  <2>2. Place(t, Queue)'
    BY <1>5, <1>7 DEF Place, BeginWait, Goto
  <2> QED  BY <1>1, <1>2, <1>3, <1>7, <2>1, <2>2, CallShift
<1>10. CASE (Calls(t) \/ At(t, "mqGetBack")) /\ UnlinkHead(t)
  <2>1. /\ k.cur = t /\ t \notin resched /\ t # Idle /\ Goto(t, "mqCopy")
        /\ UNCHANGED <<k, resched, arg, since, val, todo>>
    BY <1>10 DEF Calls, At, UnlinkHead, WaitInv, AsksOK
  <2>2. WaitInv' /\ Shift(t, {})
    BY <1>1, <1>3, <2>1, StepShift
  <2> QED  BY <1>2, <2>2, ShiftMore
<1>11. ASSUME NEW v \in Msg, NEW s \in {"mqLink", "mqUrgent"}, MqueuePut(t, v, s)
       PROVE  WaitInv' /\ Shift(t, {Queue})
  <2>1. /\ k.cur = t /\ t \notin resched /\ t # Idle /\ Goto(t, s)
        /\ UNCHANGED <<k, resched, arg, since, val, todo>>
    BY <1>11 DEF Calls, At, MqueuePut
  <2>2. WaitInv' /\ Shift(t, {})
    BY <1>1, <1>3, <2>1, StepShift
  <2> QED  BY <1>2, <2>2, ShiftMore
<1>12. ASSUME NEW d \in Timeout, MqueueGetWait(t, d)
       PROVE  WaitInv' /\ Shift(t, {Queue})
  BY <1>4, <1>7, <1>12 DEF MqueueGetWait, Calls, At
<1>13. CASE MqueueLink(t) \/ MqueueLinkUrgent(t)
  BY <1>1, <1>13, LinkShift DEF MqueueLink, MqueueLinkUrgent
<1>14. CASE MqueueGetAgain(t)
  <2>1. /\ k.cur = t /\ k.isr = 0 /\ t \notin resched /\ t # Idle
        /\ BeginWait(t, Queue, Remaining(t), "mqGetBack") /\ val' = val
    BY <1>14 DEF MqueueGetAgain, At, WaitInv, AsksOK
  <2> QED  BY <1>6, <1>7, <2>1
<1>15. CASE MqueueCopy(t) \/ MqueueGetTimesOut(t) \/ MqueueGetFails(t)
  <2>1. /\ k.cur = t /\ t \notin resched /\ Finish(t) /\ resched' = resched
        /\ k' = k \/ \E e \in Errno : k' = SetError(k, t, e)
    BY <1>3, <1>15 DEF MqueueCopy, MqueueGetTimesOut, MqueueGetFails, At, SetError
  <2>2. WaitInv' /\ Shift(t, {})
    BY <1>1, <2>1, OverShift
  <2> QED  BY <1>2, <2>2, ShiftMore
<1>16. CASE MqueueReset(t)
  <2>1. /\ k.cur = t /\ k.isr = 0 /\ t \notin resched /\ pc[t] = "app"
        /\ UNCHANGED <<pc, arg, since, val, todo>> /\ ThenSched(t)
        /\ k' = ListResumeAll(k, Queue) /\ Works(k)
    BY <1>16, WaitFacts DEF MqueueReset, Calls, At
  <2>2. Ends(k, k', ToSet(k.pend[Queue])) /\ k'.prio = k.prio
    BY <1>2, <2>1, ResumeAllEnds
  <2>3. \A u \in ToSet(k.pend[Queue]) : \E o \in {Queue} : u \in Waiters(o)
    BY DEF Waiters
  <2> QED  BY <1>1, <1>2, <2>1, <2>2, <2>3, EmptyShift
<1>17. CASE MqueueDelete(t)
  <2>1. /\ Calls(t) /\ ResumeLists(t, <<Queue>>)
        /\ <<Queue>> \in Seq(Obj \ {Pool})
    BY <1>2, <1>17, ObjectsDiffer DEF MqueueDelete
  <2>2. WaitInv' /\ Shift(t, {})
    BY <1>1, <2>1, DeleteShift
  <2> QED  BY <1>2, <2>2, ShiftMore
<1> QED
  BY <1>10, <1>11, <1>12, <1>13, <1>14, <1>15, <1>16, <1>17
     DEF Mqueue, MqueueCall, MqueueContinue, MqueueGet, MqueueGetBack

(* os_isr_mqueue_put.                                                      *)
LEMMA MqueueIsrShift ==
    ASSUME WaitInv, MqueueIsr
    PROVE  WaitInv' /\ Shift(Idle, {Queue})
<1>1. Queue \in Obj /\ Queue \notin Mutex
  BY MqueueAssumption, ObjectsDiffer
<1>2. /\ k.isr = 0 /\ UNCHANGED <<pc, resched, arg, since, val, todo>>
      /\ k' = IsrResumeHead(k, Queue) /\ mx' = mx /\ mb' \in Mailbox
  BY DEF MqueueIsr, MqueueIsrPut, SameMutexes, SameMbox, WaitInv
<1> QED  BY <1>1, <1>2, IsrShift

-----------------------------------------------------------------------------
(* The functions of the memory pool                                        *)

(* The kernel after os_list_insert_after, as one record.                   *)
LEMMA PoolListForm ==
    ASSUME NEW s, Works(s), NEW t \in Task, s.stat[t] = "READY"
    PROVE  [TaskSuspend(s, t) EXCEPT !.pend[Pool] = <<t>> \o @] = PoolList(s, t)
<1>1. PICK r : r = SuspendReady(s, t)
  OBVIOUS
<1>2. r.pend = s.pend
  BY <1>1, SuspendReadyPend DEF Works
<1>3. TaskSuspend(s, t) = r
  BY <1>1 DEF TaskSuspend
<1> QED  BY <1>1, <1>2, <1>3 DEF PoolList, SetPend

(* os_mpool_alloc begins to wait.                                          *)
LEMMA PoolWaitShift ==
    ASSUME WaitInv, NEW t \in Task, k.cur = t, k.isr = 0, t \notin resched,
           t # Idle, NEW d \in Nat, d \in 0..Forever, PoolWait(t, d),
           mx' = mx, mb' = mb
    PROVE  /\ WaitInv' /\ Shift(t, {Pool})
           /\ Waiters(Pool)' = Waiters(Pool) \cup {t}
           /\ Untimed(k, k', d)
           /\ Len(k'.pend[Pool]) = Len(k.pend[Pool]) + 1
<1>1. Works(k) /\ k.stat[t] = "READY" /\ Pool \in Obj /\ Pool \notin Mutex
  BY WaitFacts, ActorFree, ObjectsDiffer, MpoolAssumption
<1>3. k' = PoolWaiting(k, t, d)
  <2> DEFINE q == SetError(k, t, "OS_OK")
  <2>1. "OS_OK" \in Errno
    BY DEF Errno
  <2>2. Ends(k, q, {t})
    BY <1>1, <2>1, ErrorEnds
  <2>3. Works(q) /\ q.stat[t] = "READY"
    BY <2>2 DEF Ends
  <2> DEFINE w == [TaskSuspend(q, t) EXCEPT !.pend[Pool] = <<t>> \o @]
  <2>4. w = PoolList(q, t)
    BY <2>3, PoolListForm
  <2>5. k' = IF d = Forever THEN w ELSE TimerStart(w, t, d)
    BY DEF PoolWait, SetError
  <2> HIDE DEF w, q
  <2>6. k' = IF d = Forever THEN PoolList(q, t) ELSE TimerStart(PoolList(q, t), t, d)
    BY <2>4, <2>5
  <2> QED  BY <2>6 DEF PoolWaiting, q
<1>4. /\ Begins(k, k', {Pool}, t) /\ k'.prio = k.prio
      /\ Untimed(k, k', d)
      /\ Len(k'.pend[Pool]) = Len(k.pend[Pool]) + 1
  <2>1. Begins(k, k', {Pool}, t)
    BY <1>1, <1>3, PoolWaitBegins
  <2>4. k'.prio = k.prio
    BY <1>1, <1>3, PoolWaitBegins
  <2>2. Untimed(k, k', d)
    BY <1>1, <1>3, PoolWaitBegins
  <2>3. Len(k'.pend[Pool]) = Len(k.pend[Pool]) + 1
    BY <1>1, <1>3, PoolWaitBegins
  <2> QED  BY <2>1, <2>2, <2>3, <2>4
<1>5. /\ Goto(t, "allocBack") /\ ThenSched(t) /\ val' = val /\ todo' = todo
      /\ arg' = [arg EXCEPT ![t] = d]
      /\ \E n \in 0..Forever : since' = [since EXCEPT ![t] = n]
  <2>1. 0 \in 0..Forever
    BY WaitAssumption
  <2> QED  BY <2>1 DEF PoolWait
<1>6. val' = [val EXCEPT ![t] = val[t]] /\ val[t] \in Val \cup {NoVal}
  BY <1>5, WaitFacts
<1>7. Moved(t, "allocBack")
  BY <1>5, <1>6, BeginMoves
<1>8. "allocBack" \in Step /\ Place(t, Pool)'
  BY <1>5, WaitFacts DEF Step, MpoolStep, Place, Goto
<1>9. OwnersOK' /\ mb' \in Mailbox
  BY DEF WaitInv, OwnersOK
<1>10. WaitInv' /\ Shift(t, {Pool})
  BY <1>1, <1>4, <1>5, <1>7, <1>8, <1>9, WaitShift
<1>11. Waiters(Pool)' = Waiters(Pool) \cup {t}
  BY <1>1, <1>4 DEF Begins, Waiters
<1> QED  BY <1>4, <1>10, <1>11


(* The functions of os_mpool.c.                                            *)
LEMMA MpoolShift ==
    ASSUME WaitInv, NEW t \in Task, Mpool(t)
    PROVE  WaitInv' /\ Shift(t, {Pool})
<1>1. mx' = mx /\ mb' = mb /\ mb' \in Mailbox /\ OwnersOK'
  BY DEF Mpool, SameMutexes, SameMbox, WaitInv, OwnersOK
<1>2. Pool \in Obj /\ Pool \notin Mutex /\ {Pool} \cap Mutex = {}
  BY MpoolAssumption, ObjectsDiffer
<1>3. /\ {"poolCheck", "poolNext", "app"} \subseteq Step \ {"evBack", "putBack", "resumeNext"}
      /\ PoolTimeout \subseteq 0..Forever /\ Forever \in Nat
      /\ "OS_TIMEOUT" \in Errno
  BY ObjectsAssumption, WaitAssumption DEF Step, WaitStep, MpoolStep, Errno
<1>4. Remaining(t) \in Nat /\ Remaining(t) \in 0..Forever
  BY RemainingOK
<1>5. ASSUME k.cur = t, t \notin resched, Finish(t), resched' = resched,
             k' = k \/ \E e \in Errno : k' = SetError(k, t, e)
      PROVE  WaitInv' /\ Shift(t, {Pool})
  <2>1. WaitInv' /\ Shift(t, {})
    BY <1>1, <1>5, OverShift
  <2> QED  BY <1>2, <2>1, ShiftMore
<1>6. ASSUME NEW s \in {"poolCheck", "poolNext", "app"}, k.cur = t,
             t \notin resched, t # Idle, Goto(t, s),
             UNCHANGED <<k, resched, arg, since, val, todo>>
      PROVE  WaitInv' /\ Shift(t, {Pool})
  <2>1. WaitInv' /\ Shift(t, {})
    BY <1>1, <1>3, <1>6, StepShift
  <2> QED  BY <1>2, <2>1, ShiftMore
<1>10. CASE MpoolAlloc(t) \/ AllocBack(t)
  BY <1>5, <1>10 DEF MpoolAlloc, AllocBack, Allocate, Calls, At
<1>11. CASE MpoolPoll(t) \/ AllocTimesOut(t) \/ AllocFails(t)
  <2>1. k' = k \/ \E e \in Errno : k' = SetError(k, t, e)
    BY <1>3, <1>11 DEF MpoolPoll, AllocTimesOut, AllocFails, NoBlock, SetError
  <2> QED
    BY <1>5, <1>11, <2>1 DEF MpoolPoll, AllocTimesOut, AllocFails, NoBlock, Calls, At
<1>12. ASSUME NEW d \in PoolTimeout, MpoolAllocWait(t, d)
       PROVE  WaitInv' /\ Shift(t, {Pool})
  <2>1. /\ k.cur = t /\ k.isr = 0 /\ t \notin resched /\ t # Idle
        /\ d \in Nat /\ d \in 0..Forever /\ PoolWait(t, d)
    BY <1>3, <1>12 DEF MpoolAllocWait, Calls, At
  <2> QED  BY <1>1, <2>1, PoolWaitShift
<1>13. CASE AllocAgain(t)
  <2>1. /\ k.cur = t /\ k.isr = 0 /\ t \notin resched /\ t # Idle
        /\ PoolWait(t, Remaining(t))
    BY <1>13 DEF AllocAgain, At, WaitInv, AsksOK
  <2> QED  BY <1>1, <1>4, <2>1, PoolWaitShift
<1>14. ASSUME NEW b \in Block, MpoolFree(t, b)
       PROVE  WaitInv' /\ Shift(t, {Pool})
  <2>1. /\ k.cur = t /\ k.isr = 0 /\ t \notin resched /\ pc[t] = "app"
        /\ UNCHANGED <<pc, arg, since, val, todo>>
    BY <1>14 DEF MpoolFree, Calls, At
  <2>2. Moved(t, "app") /\ "app" \in Step \ {"evBack", "putBack"}
    BY <1>3, <2>1, StayMoves
  <2>3. CASE mp.suspended > 0
    <3>1. k' = PoolResume(k) /\ k.pend[Pool] # <<>> /\ resched' = resched \cup {t}
      BY <1>14, <2>3 DEF MpoolFree, FindsTask, ThenSched
    <3>2. Works(k)
      BY WaitFacts
    <3>3. /\ Ends(k, k', Firsts(k, Pool)) /\ k'.prio = k.prio
          /\ Firsts(k, Pool) \subseteq ToSet(k.pend[Pool])
      BY <1>2, <2>1, <3>1, <3>2, PoolResumeEnds
    <3>4. \A u \in Firsts(k, Pool) : \E o \in {Pool} : u \in Waiters(o)
      BY <3>3 DEF Waiters
    <3> QED  BY <1>1, <1>2, <2>1, <2>2, <3>1, <3>3, <3>4, ActShift
  <2>4. CASE ~(mp.suspended > 0)
    <3>1. k' = k /\ resched' = resched
      BY <1>14, <2>4 DEF MpoolFree
    <3>2. WaitInv' /\ Shift(t, {})
      BY <1>1, <2>1, <2>2, <3>1, OwnShift
    <3> QED  BY <1>2, <3>2, ShiftMore
  <2> QED  BY <2>3, <2>4
<1>15. CASE MpoolDelete(t) \/ PoolCheck(t)
  BY <1>6, <1>15 DEF MpoolDelete, PoolCheck, Calls, At, WaitInv, AsksOK
<1>16. CASE PoolNext(t)
  <2>1. /\ k.cur = t /\ k.isr = 0 /\ t \notin resched /\ k.pend[Pool] # <<>>
        /\ k' = WakeHead(k, Pool) /\ resched' = resched /\ t # Idle
        /\ pc' = [pc EXCEPT ![t] = "poolCheck"]
        /\ UNCHANGED <<arg, since, val, todo>>
    BY <1>16 DEF PoolNext, At, Goto, WaitInv, AsksOK
  <2>2. Works(k) /\ val' = [val EXCEPT ![t] = val[t]] /\ val[t] \in Val \cup {NoVal}
    BY <2>1, WaitFacts
  <2>3. Moved(t, "poolCheck")
    BY <2>1, <2>2, GotoMoves
  <2>4. /\ Ends(k, k', Firsts(k, Pool)) /\ k'.prio = k.prio
        /\ Firsts(k, Pool) \subseteq ToSet(k.pend[Pool])
    BY <1>2, <2>1, <2>2, WakeHeadEnds
  <2>5. \A u \in Firsts(k, Pool) : \E o \in {Pool} : u \in Waiters(o)
    BY <2>4 DEF Waiters
  <2> QED  BY <1>1, <1>2, <1>3, <2>1, <2>3, <2>4, <2>5, ActShift
<1> QED
  BY <1>10, <1>11, <1>12, <1>13, <1>14, <1>15, <1>16 DEF Mpool, MpoolCall, MpoolContinue

(* A handler of an interrupt that ends the waits of the tasks in S for o.  *)
LEMMA HandlerShift ==
    ASSUME WaitInv, UNCHANGED <<pc, resched, arg, since, todo>>,
           NEW o \in Obj, o \notin Mutex, NEW S, Ends(k, k', S), k'.prio = k.prio,
           S \subseteq Waiters(o), \A u \in Task \ S : val'[u] = val[u],
           o # Event => val' = val,
           WaitTypeOK(Step)', AsksOK', mx' = mx, mb' \in Mailbox
    PROVE  WaitInv' /\ Shift(Idle, {o})
<1> DEFINE Os == {o}
<1>1. Idle \in Task /\ k.stat[Idle] = "READY"
  BY WaitFacts
<1>2. OwnersOK'
  BY DEF WaitInv, OwnersOK
<1>3. \A u \in S : k.stat[u] = "SUSPEND" /\ u \in Waiters(o)
  BY WaitFacts
<1>4. \A q \in Obj \ Os : \A u \in S : u \notin Waiters(q)
  <2> SUFFICES ASSUME NEW q \in Obj \ Os, NEW u \in S, u \in Waiters(q)
               PROVE  FALSE
    OBVIOUS
  <2>1. Place(u, q) /\ Place(u, o)
    BY <1>3 DEF WaitInv, PlacesOK
  <2> QED  BY <2>1, OnePlace
<1>5. \A u \in Task : pc[u] # "evBack" => val'[u] = val[u]
  <2>1. \A u \in S : o = Event => pc[u] = "evBack"
    BY <1>3, ObjectsDiffer DEF WaitInv, PlacesOK, Place
  <2> QED  BY <2>1
<1> HIDE DEF Os
<1>6. /\ \A u \in S \ {Idle} : k.stat[u] = "SUSPEND"
      /\ \A q \in Obj \ Os : \A u \in S \cap Waiters(q) :
            /\ k'.error[u] # "OS_OK"
            /\ \/ u \in ToSet(k.timers)
               \/ \E v \in Task : pc[v] = "resumeNext" /\ q = Head(todo[v])
      /\ \A u \in Task \ {Idle} : /\ pc'[u] = pc[u] /\ todo'[u] = todo[u]
                                  /\ pc[u] # "evBack" => val'[u] = val[u]
      /\ Os \cap Mutex = {} => k'.prio = k.prio
      /\ resched \subseteq resched'
  BY <1>3, <1>4, <1>5
<1>7. WaitInv' /\ Shift(Idle, Os)
  BY <1>1, <1>2, <1>6, EndsShift
<1> QED  BY <1>7 DEF Os


(* os_isr_mpool_free.                                                      *)
LEMMA MpoolIsrShift ==
    ASSUME WaitInv, MpoolIsr
    PROVE  WaitInv' /\ Shift(Idle, {Pool})
<1>1. PICK b \in Block : MpoolIsrFree(b)
  BY DEF MpoolIsr
<1>2. Pool \in Obj /\ Pool \notin Mutex
  BY MpoolAssumption, ObjectsDiffer
<1>3. /\ k.isr = 0 /\ UNCHANGED <<pc, resched, arg, since, val, todo>>
      /\ mx' = mx /\ mb' \in Mailbox /\ Works(k)
      /\ k' = IF mp.suspended > 0 THEN Sched(PoolResume(k)) ELSE k
      /\ mp.suspended > 0 => k.pend[Pool] # <<>>
  BY <1>1, WaitFacts
     DEF MpoolIsr, MpoolIsrFree, FindsTask, SameMutexes, SameMbox, WaitInv
<1>4. \E S : Ends(k, k', S) /\ k'.prio = k.prio /\ S \subseteq Waiters(Pool)
  <2>1. CASE mp.suspended > 0
    <3> DEFINE q == PoolResume(k)
               S == Firsts(k, Pool)
    <3>1. k' = Sched(q) /\ k.pend[Pool] # <<>>
      BY <1>3, <2>1
    <3>2. Ends(k, q, S) /\ q.prio = k.prio /\ S \subseteq ToSet(k.pend[Pool])
      BY <1>2, <1>3, <3>1, PoolResumeEnds
    <3> HIDE DEF q, S
    <3>3. Works(q)
      BY <3>2 DEF Ends
    <3>4. Ends(q, k', {}) /\ k'.prio = q.prio
      BY <3>1, <3>3, SchedEnds
    <3>5. Ends(k, k', S \cup {})
      BY <3>2, <3>4, EndsBoth
    <3> QED  BY <3>2, <3>4, <3>5 DEF Waiters
  <2>2. CASE ~(mp.suspended > 0)
    BY <1>3, <2>2, EndsNone
  <2> QED  BY <2>1, <2>2
<1>5. PICK S : Ends(k, k', S) /\ k'.prio = k.prio /\ S \subseteq Waiters(Pool)
  BY <1>4
<1>6. AsksOK' /\ WaitTypeOK(Step)'
  BY <1>3, <1>5 DEF WaitInv, AsksOK, WaitTypeOK, Ends, Works, KernelOK
<1> QED  BY <1>2, <1>3, <1>5, <1>6, HandlerShift

-----------------------------------------------------------------------------
(* The functions of the event                                              *)

(* f[i] is the state of os_event_put's loop after i tasks of q.            *)
ServeTurns(f, e, q, n) ==
    f = [i \in 0..n |-> IF i = 0 THEN e ELSE Serve(f[i - 1], q[i])]

(* Served is defined by its turns.                                         *)
LEMMA ServeTurnsExist ==
    ASSUME NEW e, NEW q, NEW n \in Nat
    PROVE  \E f : ServeTurns(f, e, q, n)
<1> DEFINE T == {m \in Nat : ~ \E f : ServeTurns(f, e, q, m)}
<1>1. SUFFICES T = {}
  OBVIOUS
<1>2. SUFFICES ASSUME T # {} PROVE FALSE
  OBVIOUS
<1>3. PICK m \in T : \A j \in T : m <= j
  <2>1. T \subseteq Nat  OBVIOUS
  <2> HIDE DEF T
  <2> QED  BY <1>2, <2>1, LeastNatural
<1>4. CASE m = 0
  <2> DEFINE f == [i \in 0..0 |-> e]
  <2>1. \A i \in 0..0 : i = 0  OBVIOUS
  <2>2. f = [i \in 0..0 |-> IF i = 0 THEN e ELSE Serve(f[i - 1], q[i])]
    BY <2>1
  <2>3. ServeTurns(f, e, q, m)  BY <1>4, <2>2 DEF ServeTurns
  <2> HIDE DEF f
  <2> QED  BY <2>3
<1>5. CASE m # 0
  <2>1. m - 1 \in Nat /\ ~(m <= m - 1)  BY <1>5
  <2>2. m - 1 \notin T  BY <1>3, <2>1
  <2>3. PICK g : ServeTurns(g, e, q, m - 1)  BY <2>1, <2>2
  <2> DEFINE f == [i \in 0..m |->
                IF i = m THEN Serve(g[m - 1], q[m]) ELSE g[i]]
  <2>4. ASSUME NEW i \in 0..m
        PROVE  f[i] = IF i = 0 THEN e ELSE Serve(f[i - 1], q[i])
    <3>1. CASE i = 0
      <4>1. 0 \in 0..m - 1 /\ f[0] = g[0]  BY <1>5
      <4>2. g[0] = e  BY <2>3, <4>1 DEF ServeTurns
      <4> QED  BY <3>1, <4>1, <4>2
    <3>2. CASE i = m
      <4>1. m - 1 \in 0..m /\ m - 1 # m /\ m \in 0..m  BY <1>5
      <4>2. f[m - 1] = g[m - 1] /\ f[m] = Serve(g[m - 1], q[m])  BY <4>1
      <4> HIDE DEF f
      <4> QED  BY <1>5, <3>2, <4>2
    <3>3. CASE i # 0 /\ i # m
      <4>1. i \in 0..m - 1 /\ i - 1 \in 0..m /\ i - 1 # m  BY <3>3
      <4>2. f[i] = g[i] /\ f[i - 1] = g[i - 1]  BY <3>3, <4>1
      <4>3. g[i] = Serve(g[i - 1], q[i])  BY <2>3, <3>3, <4>1 DEF ServeTurns
      <4> HIDE DEF f
      <4> QED  BY <3>3, <4>2, <4>3
    <3> QED  BY <3>1, <3>2, <3>3
  <2>5. f = [i \in 0..m |-> f[i]]
    OBVIOUS
  <2> HIDE DEF f
  <2>6. ServeTurns(f, e, q, m)  BY <2>4, <2>5 DEF ServeTurns
  <2> QED  BY <2>6
<1> QED  BY <1>4, <1>5

(* What the first i tasks of the list have been given, those of S that     *)
(* were resumed.                                                           *)
Dealt(e, i, S) ==
    \A j \in 1..i : k.pend[Event][j] \in S =>
        LET v   == val[k.pend[Event][j]]
            got == e.val[k.pend[Event][j]].set
        IN  /\ IF "AND" \in v.info THEN got = v.set
               ELSE got # {} /\ got \subseteq v.set
            /\ "CLEAR" \in v.info =>
                  /\ got \cap e.set = {}
                  /\ \A l \in 1..i : l > j /\ k.pend[Event][l] \in S =>
                        got \cap e.val[k.pend[Event][l]].set = {}

(* The loop has dealt with the first i tasks of the list, and resumed those*)
(* in S; the condition of another one does not hold.                       *)
Serving(e, i, s, S) ==
    /\ Ends(k, e.k, S) /\ e.k.prio = k.prio /\ e.k.isr = 0 /\ e.k.cur = k.cur
    /\ S \subseteq {k.pend[Event][j] : j \in 1..i}
    /\ e.set \subseteq evset \cup s
    /\ e.val \in [Task -> Val \cup {NoVal}]
    /\ \A u \in Task : IF u \in S THEN e.val[u] \in [set : Bits, info : Info]
                                  ELSE e.val[u] = val[u]
    /\ \A j \in 1..i :
          LET v == val[k.pend[Event][j]]
          IN  k.pend[Event][j] \notin S => ~Satisfied(v.set, v.info, e.set)
    /\ Dealt(e, i, S)


(* Fewer bits do not make a condition true. *)
LEMMA SatisfiedLess ==
    ASSUME NEW set, NEW info, NEW h, NEW g, g \subseteq h, ~Satisfied(set, info, h)
    PROVE  ~Satisfied(set, info, g)
BY DEF Satisfied

(* The bits a task receives are some of those it asked for.                *)
Given(v, h) == IF "AND" \in v.info THEN v.set ELSE v.set \cap h

(* What a task is given are bits.                                          *)
LEMMA GivenBits ==
    ASSUME NEW v \in [set : Bits, info : Info], NEW h, Satisfied(v.set, v.info, h)
    PROVE  /\ Given(v, h) \in Bits /\ Given(v, h) \subseteq v.set \cap h
           /\ [v EXCEPT !.set = Given(v, h)] \in [set : Bits, info : Info]
<1>1. v.set \in Bits /\ v.info \in Info
  OBVIOUS
<1>2. Given(v, h) \in Bits /\ Given(v, h) \subseteq v.set \cap h
  BY <1>1 DEF Given, Satisfied, Bits
<1> DEFINE g == Given(v, h)
<1>3. g \in Bits
  BY <1>2
<1> HIDE DEF g
<1>4. [v EXCEPT !.set = g] \in [set : Bits, info : Info]
  BY <1>3
<1> QED  BY <1>2, <1>4 DEF g

(* A task that stays in the list is given nothing.                         *)
LEMMA DealtSame ==
    ASSUME NEW i \in Nat, i > 0, NEW S, NEW e, Dealt(e, i - 1, S),
           k.pend[Event][i] \notin S
    PROVE  Dealt(e, i, S)
<1>1. \A j \in 1..i : k.pend[Event][j] \in S => j \in 1..i - 1
  OBVIOUS
<1> QED  BY <1>1 DEF Dealt

(* From e to r task t is given the bits g.                                 *)
Gives(e, t, g, r) ==
    /\ g \in Bits /\ g \subseteq val[t].set \cap e.set
    /\ "AND" \in val[t].info => g = val[t].set
    /\ r.set = IF "CLEAR" \in val[t].info THEN e.set \ g ELSE e.set
    /\ r.val = [e.val EXCEPT ![t] = [val[t] EXCEPT !.set = g]]

(* What the next task is given was not cleared before.                     *)
LEMMA DealtNext ==
    ASSUME NEW i \in Nat, i > 0, NEW S, NEW e, Dealt(e, i - 1, S),
           NEW t \in Task, t = k.pend[Event][i],
           \A j \in 1..i - 1 : k.pend[Event][j] # t /\ k.pend[Event][j] \in Task,
           e.val \in [Task -> Val \cup {NoVal}],
           val[t] \in [set : Bits, info : Info],
           NEW g, NEW r, Gives(e, t, g, r)
    PROVE  Dealt(r, i, S \cup {t})
<1> DEFINE q == k.pend[Event]
           Gave(j) == r.val[q[j]].set
<1>1. /\ \A j \in 1..i : j = i \/ j \in 1..i - 1
      /\ \A j \in 1..i - 1 : j \in 1..i /\ ~(j > i)
      /\ ~(i > i) /\ \A j \in 1..i : ~(j > i)
  OBVIOUS
<1>2. Gave(i) = g /\ g # {}
  <2>1. [val[t] EXCEPT !.set = g].set = g
    OBVIOUS
  <2>2. r.val[t] = [val[t] EXCEPT !.set = g]
    BY DEF Gives
  <2>3. Gave(i) = g
    BY <2>1, <2>2
  <2>4. g # {}
    BY DEF Gives, Bits
  <2> QED  BY <2>3, <2>4
<1>3. \A j \in 1..i - 1 : Gave(j) = e.val[q[j]].set /\ (q[j] \in S \cup {t} => q[j] \in S)
  BY DEF Gives
<1>4. /\ r.set \subseteq e.set /\ g \subseteq e.set /\ g \subseteq val[t].set
      /\ "CLEAR" \in val[t].info => g \cap r.set = {}
      /\ "AND" \in val[t].info => g = val[t].set
  BY DEF Gives
<1>5. ASSUME NEW j \in 1..i, q[j] \in S \cup {t}
      PROVE  IF "AND" \in val[q[j]].info THEN Gave(j) = val[q[j]].set
             ELSE Gave(j) # {} /\ Gave(j) \subseteq val[q[j]].set
  <2>1. CASE j = i
    BY <1>2, <1>4, <2>1
  <2>2. CASE j \in 1..i - 1
    BY <1>3, <1>5, <2>2 DEF Dealt
  <2> QED  BY <1>1, <2>1, <2>2
<1>6. ASSUME NEW j \in 1..i, q[j] \in S \cup {t}, "CLEAR" \in val[q[j]].info
      PROVE  Gave(j) \cap r.set = {}
  <2>1. CASE j = i
    BY <1>2, <1>4, <1>6, <2>1
  <2>2. CASE j \in 1..i - 1
    <3>1. e.val[q[j]].set \cap e.set = {}
      BY <1>3, <1>6, <2>2 DEF Dealt
    <3> QED  BY <1>3, <1>4, <2>2, <3>1
  <2> QED  BY <1>1, <2>1, <2>2
<1>7. ASSUME NEW j \in 1..i, q[j] \in S \cup {t}, "CLEAR" \in val[q[j]].info,
             NEW l \in 1..i, l > j, q[l] \in S \cup {t}
      PROVE  Gave(j) \cap Gave(l) = {}
  <2>1. j \in 1..i - 1 /\ q[j] \in S
    BY <1>1, <1>3, <1>7
  <2>2. CASE l = i
    <3>1. e.val[q[j]].set \cap e.set = {}
      BY <1>7, <2>1 DEF Dealt
    <3> QED  BY <1>2, <1>3, <1>4, <2>1, <2>2, <3>1
  <2>3. CASE l \in 1..i - 1
    <3>1. q[l] \in S
      BY <1>3, <1>7, <2>3
    <3>2. e.val[q[j]].set \cap e.val[q[l]].set = {}
      BY <1>7, <2>1, <2>3, <3>1 DEF Dealt
    <3> QED  BY <1>3, <2>1, <2>3, <3>2
  <2> QED  BY <1>1, <2>2, <2>3
<1> QED  BY <1>5, <1>6, <1>7 DEF Dealt

(* One task of the list has its turn.                                      *)
LEMMA ServeNext ==
    ASSUME WaitInv, k.isr = 0, NEW n, n = Len(k.pend[Event]), NEW i \in 1..n,
           NEW s, NEW S, NEW e, Serving(e, i - 1, s, S),
           NEW r, r = Serve(e, k.pend[Event][i])
    PROVE  \E T : Serving(r, i, s, T)
<1> DEFINE q == k.pend[Event]
           t == q[i]
           v == val[t]
<1>1. /\ IsList(q, Task) /\ Event \in Obj /\ n \in Nat /\ DOMAIN q = 1..n
      /\ t \in Waiters(Event) /\ t \in Task
  BY WaitFacts, EventAssumption DEF Waiters, ToSet, IsList
<1>2. i - 1 \in Nat /\ i \in Nat /\ 1..i = (1..i - 1) \cup {i} /\ i \notin 1..i - 1
  BY <1>1
<1>3. t \notin S
  <2>1. \A j \in 1..i - 1 : q[j] # q[i]
    BY <1>1, <1>2 DEF IsList, IsInjective
  <2> QED  BY <2>1 DEF Serving
<1>4. e.k.stat[t] = "SUSPEND" /\ Works(e.k)
  BY <1>1, <1>3, WaitFacts DEF Serving, Ends
<1>5. v \in [set : Bits, info : Info] /\ e.val[t] = v
  <2>1. Place(t, Event)
    BY <1>1, EventAssumption DEF WaitInv, PlacesOK
  <2>2. pc[t] = "evBack"
    BY <2>1, ObjectsDiffer DEF Place
  <2> QED  BY <1>1, <1>3, <2>2 DEF Serving, WaitInv, AsksOK
<1>6. CASE ~Satisfied(v.set, v.info, e.set)
  <2>1. r = e
    BY <1>5, <1>6 DEF Serve
  <2>2. Serving(e, i, s, S)
    <3>1. i > 0 /\ Dealt(e, i - 1, S)
      BY <1>1 DEF Serving
    <3>2. Dealt(e, i, S)
      BY <1>2, <1>3, <3>1, DealtSame
    <3> QED  BY <1>2, <1>6, <3>2 DEF Serving
  <2> QED  BY <2>1, <2>2
<1>7. CASE Satisfied(v.set, v.info, e.set)
  <2>p. PICK p : p = TaskResume(e.k, t)
    OBVIOUS
  <2> DEFINE g == Given(v, e.set)
             h == IF "CLEAR" \in v.info THEN e.set \ g ELSE e.set
             w == [e.val EXCEPT ![t].set = g]
             T == S \cup {t}
  <2>1. r.k = p /\ r.set = h /\ r.val = w
    BY <1>5, <1>7, <2>p DEF Serve, Given
  <2>2. /\ Ends(e.k, p, {t}) /\ p.prio = e.k.prio
        /\ p.isr = 0 /\ p.cur = e.k.cur
    <3>1. e.k.isr = 0
      BY DEF Serving
    <3> HIDE DEF t
    <3>2. t \in Task
      BY <1>1
    <3>3. PICK x : x = e.k
      OBVIOUS
    <3>4. Works(x) /\ x.isr = 0 /\ x.stat[t] = "SUSPEND" /\ p = TaskResume(x, t)
      BY <1>4, <2>p, <3>1, <3>3
    <3>5. /\ Ends(x, p, {t}) /\ p.prio = x.prio
          /\ p.isr = 0 /\ p.cur = x.cur
      BY <3>2, <3>4, ResumeEnds
    <3> QED  BY <3>3, <3>5
  <2>3. Ends(k, p, T)
    BY <2>2, EndsBoth DEF Serving
  <2>4. T \subseteq {q[j] : j \in 1..i}
    BY <1>2 DEF Serving
  <2>5. h \subseteq e.set
    OBVIOUS
  <2>6. /\ [v EXCEPT !.set = g] \in [set : Bits, info : Info]
        /\ g \in Bits /\ g \subseteq v.set \cap e.set
        /\ "AND" \in v.info => g = v.set
    BY <1>5, <1>7, GivenBits DEF Given
  <2> HIDE DEF g
  <2>7. w = [e.val EXCEPT ![t] = [v EXCEPT !.set = g]]
    BY <1>5
  <2>8. /\ w \in [Task -> Val \cup {NoVal}]
        /\ \A u \in Task : IF u \in T THEN w[u] \in [set : Bits, info : Info]
                                      ELSE w[u] = val[u]
    <3>1. [set : Bits, info : Info] \subseteq Val
      BY EventAssumption
    <3> QED  BY <1>1, <2>6, <2>7, <3>1 DEF Serving
  <2>h. Dealt(r, i, T)
    <3>1. \A j \in 1..i - 1 : q[j] # t /\ q[j] \in Task
      BY <1>1, <1>2 DEF IsList, IsInjective
    <3>2. i > 0 /\ Dealt(e, i - 1, S) /\ e.val \in [Task -> Val \cup {NoVal}]
      BY <1>1 DEF Serving
    <3>3. r.set = IF "CLEAR" \in v.info THEN e.set \ g ELSE e.set
      BY <2>1
    <3>4. r.val = [e.val EXCEPT ![t] = [v EXCEPT !.set = g]]
      BY <2>1, <2>7
    <3>5. /\ t = k.pend[Event][i] /\ t \in Task /\ v = val[t]
          /\ \A j \in 1..i - 1 : k.pend[Event][j] # t /\ k.pend[Event][j] \in Task
      BY <1>1, <3>1
    <3>6. v \in [set : Bits, info : Info]
      BY <1>5
    <3>8. i \in Nat /\ i > 0 /\ Gives(e, t, g, r)
      BY <1>2, <2>6, <3>2, <3>3, <3>4 DEF Gives
    <3> HIDE DEF T, t, q
    <3>7. Dealt(r, i, S \cup {t})
      BY <3>2, <3>5, <3>6, <3>8, DealtNext
    <3> QED  BY <3>7 DEF T
  <2> HIDE DEF h, w
  <2>9. \A j \in 1..i : q[j] \notin T => ~Satisfied(val[q[j]].set, val[q[j]].info, h)
    <3> SUFFICES ASSUME NEW j \in 1..i, q[j] \notin T
                 PROVE  ~Satisfied(val[q[j]].set, val[q[j]].info, h)
      OBVIOUS
    <3>1. j \in 1..i - 1
      BY <1>2
    <3>2. ~Satisfied(val[q[j]].set, val[q[j]].info, e.set)
      BY <3>1 DEF Serving
    <3> QED  BY <2>5, <3>2, SatisfiedLess
  <2> HIDE DEF T
  <2>10. Serving(r, i, s, T)
    BY <2>1, <2>2, <2>3, <2>4, <2>5, <2>8, <2>9, <2>h DEF Serving
  <2> QED  BY <2>10
<1> QED  BY <1>6, <1>7

(* os_event_put resumes tasks of the list, and those that stay ask for what*)
(* is not there.                                                           *)
LEMMA ServedOK ==
    ASSUME WaitInv, k.isr = 0, NEW s, NEW e, e = Served(s)
    PROVE  \E S : Serving(e, Len(k.pend[Event]), s, S)
<1> DEFINE n == Len(k.pend[Event])
           z == [k |-> k, set |-> evset \cup s, val |-> val, woken |-> FALSE]
           turn == CHOOSE f : ServeTurns(f, z, k.pend[Event], n)
           P(i) == \E S : Serving(turn[i], i, s, S)
           T == {i \in 0..n : ~P(i)}
<1>1. n \in Nat /\ Works(k)
  BY WaitFacts, EventAssumption DEF IsList
<1>2. e = turn[n]
  BY DEF Served, ServeTurns
<1>3. ServeTurns(turn, z, k.pend[Event], n)
  BY <1>1, ServeTurnsExist
<1>z. z.k = k /\ z.set = evset \cup s /\ z.val = val
  OBVIOUS
<1> HIDE DEF turn, z
<1>4. /\ turn[0] = z
      /\ \A i \in 1..n : turn[i] = Serve(turn[i - 1], k.pend[Event][i])
  <2> HIDE DEF n
  <2>1. 0 \in 0..n /\ \A i \in 1..n : i \in 0..n /\ i # 0  BY <1>1
  <2>2. \A i \in 0..n :
           turn[i] = IF i = 0 THEN z ELSE Serve(turn[i - 1], k.pend[Event][i])
    BY <1>3 DEF ServeTurns
  <2> QED  BY <2>1, <2>2
<1>5. P(0)
  <2>1. Ends(k, z.k, {}) /\ z.k.prio = k.prio /\ z.k.isr = 0 /\ z.k.cur = k.cur
    BY <1>1, <1>z, EndsNone
  <2>2. z.val \in [Task -> Val \cup {NoVal}]
    BY <1>z, WaitFacts
  <2>3. 1..0 = {}
    OBVIOUS
  <2>4. Serving(z, 0, s, {})
    BY <1>z, <2>1, <2>2, <2>3 DEF Serving, Dealt
  <2> QED  BY <1>4, <2>4
<1>6. ASSUME NEW i \in 1..n, P(i - 1) PROVE P(i)
  <2>1. PICK S : Serving(turn[i - 1], i - 1, s, S)
    BY <1>6
  <2>2. turn[i] = Serve(turn[i - 1], k.pend[Event][i])
    BY <1>4
  <2> QED  BY <2>1, <2>2, ServeNext
<1> HIDE DEF P, n
<1>7. T = {}
  <2>1. SUFFICES ASSUME T # {} PROVE FALSE
    OBVIOUS
  <2>2. T \subseteq Nat
    BY <1>1
  <2>3. PICK i \in T : \A j \in T : i <= j
    <3> HIDE DEF T
    <3> QED  BY <2>1, <2>2, LeastNatural
  <2>4. CASE i = 0
    BY <1>5, <2>4
  <2>5. CASE i # 0
    <3>1. i \in 1..n /\ i - 1 \in 0..n /\ ~(i <= i - 1)  BY <1>1, <2>5
    <3>2. P(i - 1)  BY <2>3, <3>1
    <3>3. P(i)  BY <1>6, <3>1, <3>2
    <3> QED  BY <3>3
  <2> QED  BY <2>4, <2>5
<1>8. P(n)
  <2>1. n \in 0..n  BY <1>1
  <2> QED  BY <1>7, <2>1
<1> QED  BY <1>2, <1>8 DEF P, n


(* os_event_put, in a task or in a handler.                                *)
LEMMA ServedShift ==
    ASSUME WaitInv, k.isr = 0, NEW t \in Task, k.stat[t] = "READY",
           UNCHANGED <<pc, arg, since, todo>>,
           resched' \in {resched, resched \cup {t}},
           NEW s, NEW e, e = Served(s), k' \in {e.k, Sched(e.k)}, val' = e.val,
           mx' = mx, mb' = mb
    PROVE  /\ WaitInv' /\ Shift(t, {Event})
           /\ e.set \subseteq evset \cup s
           /\ \A u \in Waiters(Event)' :
                 /\ ~Satisfied(val[u].set, val[u].info, e.set)
                 /\ val'[u] = val[u]
<1> DEFINE q == k.pend[Event]
<1>1. PICK S : Serving(e, Len(q), s, S)
  BY ServedOK
<1>2. /\ IsList(q, Task) /\ Event \in Obj /\ Event \notin Mutex
      /\ ToSet(q) = {q[j] : j \in 1..Len(q)}
  BY WaitFacts, EventAssumption, ObjectsDiffer DEF ToSet, IsList
<1>3. Ends(k, k', S) /\ k'.prio = k.prio
  <2>1. CASE k' = e.k
    BY <1>1, <2>1 DEF Serving
  <2>2. CASE k' = Sched(e.k)
    <3>1. PICK x : x = e.k
      OBVIOUS
    <3>2. Ends(k, x, S) /\ x.prio = k.prio /\ k' = Sched(x)
      BY <1>1, <2>2, <3>1 DEF Serving
    <3>3. Works(x)
      BY <3>2 DEF Ends
    <3>4. Ends(x, k', {}) /\ k'.prio = x.prio
      BY <3>2, <3>3, SchedEnds
    <3>5. Ends(k, k', S \cup {})
      BY <3>2, <3>4, EndsBoth
    <3> QED  BY <3>2, <3>4, <3>5
  <2> QED  BY <2>1, <2>2
<1>4. S \subseteq Waiters(Event) /\ Waiters(Event) \subseteq Task
  BY <1>1, <1>2, WaitFacts DEF Serving, Waiters
<1>5. \A u \in S : pc[u] = "evBack" /\ k.stat[u] = "SUSPEND" /\ t # u
  <2> SUFFICES ASSUME NEW u \in S
               PROVE  pc[u] = "evBack" /\ k.stat[u] = "SUSPEND"
    OBVIOUS
  <2>1. Place(u, Event) /\ k.stat[u] = "SUSPEND"
    BY <1>2, <1>4, WaitFacts DEF WaitInv, PlacesOK
  <2> QED  BY <2>1, ObjectsDiffer DEF Place
<1>6. /\ val' \in [Task -> Val \cup {NoVal}]
      /\ \A u \in Task : IF u \in S THEN val'[u] \in [set : Bits, info : Info]
                                    ELSE val'[u] = val[u]
  BY <1>1 DEF Serving
<1>7. AsksOK' /\ WaitTypeOK(Step)'
  <2>1. k' \in Kernel /\ resched' \subseteq Task
    BY <1>3 DEF Ends, Works, KernelOK, WaitInv, WaitTypeOK
  <2>2. WaitTypeOK(Step)'
    BY <1>6, <2>1 DEF WaitInv, WaitTypeOK
  <2>3. AsksOK'
    BY <1>5, <1>6 DEF WaitInv, AsksOK
  <2> QED  BY <2>2, <2>3
<1> DEFINE Os == {Event}
<1>8. \A o \in Obj \ Os : \A u \in S : u \notin Waiters(o)
  <2> SUFFICES ASSUME NEW o \in Obj \ Os, NEW u \in S, u \in Waiters(o)
               PROVE  FALSE
    OBVIOUS
  <2>1. Place(u, o) /\ Place(u, Event)
    BY <1>2, <1>4 DEF WaitInv, PlacesOK
  <2> QED  BY <1>2, <2>1, OnePlace
<1>9. OwnersOK' /\ mb' \in Mailbox
  BY DEF WaitInv, OwnersOK
<1> HIDE DEF Os
<1>10. /\ \A u \in S \ {t} : k.stat[u] = "SUSPEND"
       /\ \A o \in Obj \ Os : \A u \in S \cap Waiters(o) :
            /\ k'.error[u] # "OS_OK"
            /\ \/ u \in ToSet(k.timers)
               \/ \E v \in Task : pc[v] = "resumeNext" /\ o = Head(todo[v])
       /\ \A u \in Task \ {t} : /\ pc'[u] = pc[u] /\ todo'[u] = todo[u]
                                /\ pc[u] # "evBack" => val'[u] = val[u]
       /\ Os \cap Mutex = {} => k'.prio = k.prio
       /\ resched \subseteq resched'
  BY <1>3, <1>5, <1>6, <1>8
<1>11. WaitInv' /\ Shift(t, Os)
  BY <1>3, <1>7, <1>9, <1>10, EndsShift
<1>12. ASSUME NEW u \in Waiters(Event)'
       PROVE  /\ ~Satisfied(val[u].set, val[u].info, e.set)
              /\ val'[u] = val[u]
  <2>1. u \in Waiters(Event) /\ u \notin S
    BY <1>2, <1>3 DEF Ends, Waiters
  <2>2. PICK j \in 1..Len(q) : u = q[j]
    BY <1>2, <2>1 DEF Waiters
  <2> QED  BY <1>1, <1>4, <1>6, <2>1, <2>2 DEF Serving
<1> QED  BY <1>1, <1>11, <1>12 DEF Serving, Os

(* The functions of os_event.c.                                            *)
LEMMA EventShift ==
    ASSUME WaitInv, NEW t \in Task, Events(t)
    PROVE  WaitInv' /\ Shift(t, {Event})
<1>1. mx' = mx /\ mb' = mb /\ mb' \in Mailbox /\ OwnersOK'
  BY DEF Events, SameMutexes, SameMbox, WaitInv, OwnersOK
<1>2. Event \in Obj /\ Event \notin Mutex /\ {Event} \cap Mutex = {}
  BY EventAssumption, ObjectsDiffer
<1>3. /\ "evBack" \in Step /\ "app" \in Step \ {"evBack", "putBack", "resumeNext"}
      /\ EventTimeout \subseteq 0..Forever /\ Forever \in Nat
      /\ {"OS_TIMEOUT", "OS_OK"} \subseteq Errno
  BY ObjectsAssumption, WaitAssumption DEF Step, WaitStep, EventStep, Errno
<1>4. ASSUME NEW s, EventPut(t, s)
      PROVE  WaitInv' /\ Shift(t, {Event})
  <2>1. PICK e : e = Served(s)
    OBVIOUS
  <2>2. /\ k.isr = 0 /\ UNCHANGED <<pc, arg, since, todo>>
        /\ resched' \in {resched, resched \cup {t}}
        /\ k' \in {e.k, Sched(e.k)} /\ val' = e.val
    BY <1>4, <2>1 DEF EventPut, Calls, At, ThenSched
  <2>3. k.stat[t] = "READY"
    BY <1>4, ActorFree DEF EventPut, Calls, At
  <2> QED  BY <1>1, <2>1, <2>2, <2>3, ServedShift
<1>5. ASSUME EventPoll(t) \/ \E s, i : EventGet(t, s, i)
      PROVE  WaitInv' /\ Shift(t, {Event})
  <2>1. /\ k.cur = t /\ t \notin resched /\ pc[t] = "app" /\ resched' = resched
        /\ UNCHANGED <<pc, arg, since, val, todo>>
        /\ \E e \in Errno : k' = SetError(k, t, e)
    BY <1>3, <1>5 DEF EventPoll, EventGet, Calls, At, SetError
  <2>2. PICK e \in Errno : k' = SetError(k, t, e)
    BY <2>1
  <2>3. Moved(t, "app")
    BY <2>1, StayMoves
  <2>4. WaitInv' /\ Shift(t, {})
    BY <1>1, <1>3, <2>1, <2>2, <2>3, ErrorShift
  <2> QED  BY <1>2, <2>4, ShiftMore
<1>6. ASSUME NEW r \in Request[t], NEW d \in EventTimeout,
             EventWait(t, r[1], r[2], d)
      PROVE  WaitInv' /\ Shift(t, {Event})
  <2>1. PICK v : v = [set |-> r[1], info |-> r[2]]
    OBVIOUS
  <2>2. v \in [set : Bits, info : Info] /\ v \in Val \cup {NoVal}
    <3>1. r[1] \in Bits /\ r[2] \in Info
      BY EventAssumption
    <3> QED  BY <2>1, <3>1, EventAssumption
  <2>3. /\ k.cur = t /\ k.isr = 0 /\ t \notin resched /\ t # Idle
        /\ BeginWait(t, Event, d, "evBack")
        /\ val' = [val EXCEPT ![t] = v]
    BY <1>6, <2>1 DEF EventWait, Calls, At
  <2>4. Place(t, Event)' /\ val'[t] = v
    BY <2>3, WaitFacts DEF Place, BeginWait, Goto
  <2>5. d \in Nat /\ d \in 0..Forever
    BY <1>3
  <2> QED  BY <1>1, <1>2, <1>3, <2>2, <2>3, <2>4, <2>5, CallShift
<1>7. CASE EventReturn(t)
  <2>1. /\ k.cur = t /\ t \notin resched /\ Finish(t) /\ resched' = resched
        /\ k' = k
    BY <1>7 DEF EventReturn, At
  <2>2. WaitInv' /\ Shift(t, {})
    BY <1>1, <2>1, OverShift
  <2> QED  BY <1>2, <2>2, ShiftMore
<1>8. ASSUME NEW s, EventReset(t, s)
      PROVE  WaitInv' /\ Shift(t, {Event})
  <2>1. /\ k.cur = t /\ k.isr = 0 /\ t \notin resched /\ pc[t] = "app"
        /\ UNCHANGED <<pc, arg, since, val, todo>> /\ ThenSched(t)
        /\ k' = ListResumeAll(k, Event) /\ Works(k)
    BY <1>8, WaitFacts DEF EventReset, Calls, At
  <2>2. Ends(k, k', ToSet(k.pend[Event])) /\ k'.prio = k.prio
    BY <1>2, <2>1, ResumeAllEnds
  <2>3. \A u \in ToSet(k.pend[Event]) : \E o \in {Event} : u \in Waiters(o)
    BY DEF Waiters
  <2> QED  BY <1>1, <1>2, <2>1, <2>2, <2>3, EmptyShift
<1>9. CASE EventDelete(t)
  <2>1. /\ Calls(t) /\ ResumeLists(t, <<Event>>)
        /\ <<Event>> \in Seq(Obj \ {Pool})
    BY <1>2, <1>9, ObjectsDiffer DEF EventDelete
  <2>2. WaitInv' /\ Shift(t, {})
    BY <1>1, <2>1, DeleteShift
  <2> QED  BY <1>2, <2>2, ShiftMore
<1> QED
  BY <1>4, <1>5, <1>6, <1>7, <1>8, <1>9 DEF Events, EventCall, EventContinue

(* os_isr_event_put.                                                       *)
LEMMA EventIsrShift ==
    ASSUME WaitInv, EventIsr
    PROVE  WaitInv' /\ Shift(Idle, {Event})
<1>1. PICK s : EventIsrPut(s)
  BY DEF EventIsr
<1>2. PICK e : e = Served(s)
  OBVIOUS
<1>3. /\ k.isr = 0 /\ UNCHANGED <<pc, arg, since, todo>> /\ resched' = resched
      /\ k' \in {e.k, Sched(e.k)} /\ val' = e.val /\ mx' = mx /\ mb' = mb
  BY <1>1, <1>2 DEF EventIsr, EventIsrPut, SameMutexes, SameMbox
<1>4. k.stat[Idle] = "READY" /\ Idle \in Task
  BY WaitFacts
<1> QED  BY <1>2, <1>3, <1>4, ServedShift


-----------------------------------------------------------------------------
(* The functions of the mutexes                                            *)

(* What is allowed for one mutex is allowed for all.                       *)
LEMMA ShiftMutex ==
    ASSUME NEW t, NEW Os, Os \subseteq Mutex, Shift(t, Os)
    PROVE  Shift(t, Mutex)
<1>1. /\ \A o \in Obj \ Mutex : o \in Obj \ Os
      /\ Mutex \cap Mutex = {} => Os \cap Mutex = {}
  OBVIOUS
<1> QED  BY <1>1 DEF Shift

(* One mutex changes.                                                      *)
Fields == [value : Nat, owner : Task \cup {NoTask}, hold : Nat,
           orig : Prio \cup {NoPrio}]

(* A mutex that changes hands keeps the invariant of the owners.           *)
LEMMA OwnersSet ==
    ASSUME OwnersOK, NEW m \in Mutex, NEW x \in Fields, mx' = [mx EXCEPT ![m] = x],
           x.value = IF x.owner = NoTask THEN 1 ELSE 0,
           x.owner # NoTask => x.orig \in Prio
    PROVE  OwnersOK'
BY DEF OwnersOK, Fields

(* What the mutexes and the priorities have in common.                     *)
LEMMA OwnersFacts ==
    ASSUME WaitInv, NEW m \in Mutex
    PROVE  /\ OwnersOK /\ m \in Obj /\ m \in Val /\ mx[m] \in Fields
           /\ mx[m].value = IF mx[m].owner = NoTask THEN 1 ELSE 0
           /\ mx[m].owner \in Task \cup {NoTask} /\ mx[m].hold \in Nat
           /\ mx[m].owner # NoTask => mx[m].orig \in Prio
           /\ NoTask \notin Task /\ Prio \subseteq Nat
BY MutexAssumption, KernelAssumption DEF WaitInv, OwnersOK, Fields

(* The owner inherits the priority of t.                                   *)
LEMMA InheritEnds ==
    ASSUME WaitInv, NEW t \in Task, NEW m \in Mutex, mx[m].value = 0,
           NEW q, q = Inherit(k, t, m)
    PROVE  /\ Ends(k, q, {}) /\ q.stat = k.stat /\ q.error = k.error
           /\ q.pend = k.pend /\ q.isr = k.isr /\ q.cur = k.cur
           /\ q.prio = [k.prio EXCEPT ![mx[m].owner] =
                           IF k.prio[t] < @ THEN k.prio[t] ELSE @]
<1>1. mx[m].owner \in Task /\ Works(k) /\ k.prio \in [Task -> Prio]
  BY OwnersFacts, WaitFacts
<1> DEFINE u == mx[m].owner
           p == k.prio[t]
<1>2. CASE p < k.prio[u]
  <2>1. q = PrioritySet(k, u, p) /\ p \in Prio /\ u \in Task
    BY <1>1, <1>2 DEF Inherit
  <2> HIDE DEF u, p
  <2>2. /\ Ends(k, q, {}) /\ q.stat = k.stat
        /\ q.error = k.error /\ q.prio = [k.prio EXCEPT ![u] = p]
        /\ q.pend = k.pend /\ q.isr = k.isr /\ q.cur = k.cur
    BY <1>1, <2>1, PriorityEnds
  <2> QED  BY <1>1, <1>2, <2>2 DEF u, p
<1>3. CASE ~(p < k.prio[u])
  BY <1>1, <1>3, EndsNone DEF Inherit
<1> QED  BY <1>2, <1>3

(* The owner gets its priority back.                                       *)
LEMMA RestoreEnds ==
    ASSUME WaitInv, NEW t \in Task, NEW m \in Mutex, mx[m].owner = t,
           NEW s, s = Restore(t, m)
    PROVE  /\ Ends(k, s, {}) /\ s.stat = k.stat /\ s.error = k.error
           /\ s.pend = k.pend /\ s.isr = k.isr /\ s.cur = k.cur
           /\ s.prio = [k.prio EXCEPT ![t] = mx[m].orig]
<1>1. mx[m].orig \in Prio /\ Works(k) /\ k.prio \in [Task -> Prio]
  BY OwnersFacts, WaitFacts
<1> DEFINE p == mx[m].orig
<1>2. CASE p # k.prio[t]
  <2>1. s = PrioritySet(k, t, p) /\ p \in Prio
    BY <1>1, <1>2 DEF Restore
  <2> HIDE DEF p
  <2>2. /\ Ends(k, s, {}) /\ s.stat = k.stat
        /\ s.error = k.error /\ s.prio = [k.prio EXCEPT ![t] = p]
        /\ s.pend = k.pend /\ s.isr = k.isr /\ s.cur = k.cur
    BY <1>1, <2>1, PriorityEnds
  <2> QED  BY <2>2 DEF p
<1>3. CASE p = k.prio[t]
  BY <1>1, <1>3, EndsNone DEF Restore
<1> QED  BY <1>2, <1>3

(* A task waits for a mutex.                                               *)
LEMMA MutexWaitShift ==
    ASSUME WaitInv, NEW t \in Task, NEW m \in Mutex, NEW d \in Nat, d \in 0..Forever,
           MutexWait(t, m, d), mb' = mb
    PROVE  /\ WaitInv' /\ Shift(t, {m})
           /\ Waiters(m)' = Waiters(m) \cup {t}
           /\ k'.prio = Inherit(k, t, m).prio
<1>1. /\ k.cur = t /\ k.isr = 0 /\ t \notin resched /\ t # Idle
      /\ mx[m].value = 0 /\ ThenSched(t) /\ mx' = mx
  BY DEF MutexWait, Calls, At
<1>2. Works(k) /\ k.stat[t] = "READY" /\ m \in Obj /\ m \in Val
  BY <1>1, WaitFacts, ActorFree, OwnersFacts
<1>3. PICK q : q = Inherit(k, t, m)
  OBVIOUS
<1>4. /\ Ends(k, q, {}) /\ q.stat = k.stat /\ q.error = k.error
      /\ q.pend = k.pend /\ q.isr = k.isr /\ q.cur = k.cur
  BY <1>1, <1>3, InheritEnds
<1>5. Works(q) /\ q.isr = 0 /\ q.stat[t] = "READY" /\ ToSet(q.timers) \subseteq ToSet(k.timers)
  BY <1>1, <1>2, <1>4 DEF Ends
<1>6. k' = WaitIn(q, m, t, d)
  BY <1>3 DEF MutexWait
<1>7. Begins(q, k', {m}, t) /\ k'.prio = q.prio
  BY <1>1, <1>2, <1>5, <1>6, WaitInBegins
<1>8. Begins(k, k', {m}, t)
  <2>1. /\ \A o \in Obj : ToSet(q.pend[o]) = ToSet(k.pend[o])
        /\ \A u \in Task \ {t} : q.error[u] = k.error[u]
    BY <1>4
  <2> QED  BY <1>4, <1>5, <1>7, <2>1, ThenBegins
<1>9. Moved(t, "mxBack")
  <2>1. /\ since = [since EXCEPT ![t] = since[t]] /\ since[t] \in 0..Forever
        /\ todo' = todo /\ since' = since
        /\ Goto(t, "mxBack") /\ arg' = [arg EXCEPT ![t] = d]
        /\ val' = [val EXCEPT ![t] = m] /\ m \in Val \cup {NoVal}
    BY <1>2 DEF WaitInv, WaitTypeOK, MutexWait
  <2>2. \E n \in 0..Forever : since' = [since EXCEPT ![t] = n]
    BY <2>1
  <2>3. todo = [todo EXCEPT ![t] = todo[t]] /\ todo[t] \in Seq(Obj \ {Pool})
    BY DEF WaitInv, WaitTypeOK, AsksOK
  <2> QED  BY <2>1, <2>2, <2>3 DEF Moved, Goto
<1>10. "mxBack" \in Step /\ Place(t, m)'
  BY WaitFacts DEF Step, MutexStep, Place, Goto, MutexWait
<1>11. OwnersOK' /\ mb' \in Mailbox
  BY <1>1 DEF WaitInv, OwnersOK
<1>12. WaitInv' /\ Shift(t, {m})
  BY <1>1, <1>2, <1>8, <1>9, <1>10, <1>11, WaitShift
<1>13. Waiters(m)' = Waiters(m) \cup {t}
  BY <1>2, <1>8 DEF Begins, Waiters
<1> QED  BY <1>3, <1>7, <1>12, <1>13


(* A record is known by its fields.                                        *)
LEMMA FieldsForm ==
    ASSUME NEW x \in Fields
    PROVE  x = [value |-> x.value, owner |-> x.owner, hold |-> x.hold,
                orig |-> x.orig]
BY DEF Fields

(* The fields that os_mutex_release writes for the new owner.              *)
LEMMA GivenFields ==
    ASSUME NEW r \in Fields, NEW u \in Task, NEW h \in Nat, NEW p \in Prio
    PROVE  [r EXCEPT !.hold = h, !.owner = u, !.orig = p]
              = [value |-> r.value, owner |-> u, hold |-> h, orig |-> p]
<1> DEFINE x == [r EXCEPT !.hold = h, !.owner = u, !.orig = p]
<1>2. x \in Fields
  BY DEF Fields
<1>3. x.value = r.value /\ x.owner = u /\ x.hold = h /\ x.orig = p
  BY DEF Fields
<1> HIDE DEF x
<1>4. x = [value |-> r.value, owner |-> u, hold |-> h, orig |-> p]
  BY <1>2, <1>3, FieldsForm
<1> QED  BY <1>4 DEF x

(* The mutex goes to the first task that waits for it, if there is one.    *)
HandedTo(t, m, w) ==
    /\ w \in Waiters(m) /\ w \in Task /\ w # t /\ w = k.pend[m][1]
    /\ k'.pend[m] = Tail(k.pend[m]) /\ Alike(k, k', Obj)
    /\ mx' = [mx EXCEPT ![m] = [value |-> 0, owner |-> w, hold |-> 1,
                                orig |-> k.prio[w]]]
    /\ Ends(k, k', {w}) /\ k'.error[w] = k.error[w]
    /\ k'.cur = k.cur /\ ThenSched(t)

GivenUp(m) ==
    /\ Waiters(m) = {}
    /\ mx' = [mx EXCEPT ![m] = [value |-> 1, owner |-> NoTask, hold |-> 0,
                                orig |-> NoPrio]]
    /\ Ends(k, k', {}) /\ UNCHANGED resched

(* The last os_mutex_release hands the mutex over.                         *)
LEMMA ReleaseLastOK ==
    ASSUME WaitInv, NEW t \in Task, NEW m \in Mutex, MutexReleaseLast(t, m)
    PROVE  /\ (\E w : HandedTo(t, m, w)) \/ GivenUp(m)
           /\ k'.prio = [k.prio EXCEPT ![t] = mx[m].orig]
<1>1. /\ k.cur = t /\ k.isr = 0 /\ t \notin resched
      /\ mx[m].owner = t /\ mx[m].hold = 1
  BY DEF MutexReleaseLast, Calls, At
<1>2. PICK s : s = Restore(t, m)
  OBVIOUS
<1>3. /\ Ends(k, s, {}) /\ s.stat = k.stat /\ s.error = k.error
      /\ s.pend = k.pend /\ s.isr = k.isr /\ s.cur = k.cur
      /\ s.prio = [k.prio EXCEPT ![t] = mx[m].orig]
  BY <1>1, <1>2, RestoreEnds
<1>4. Works(s) /\ s.isr = 0 /\ m \in Obj /\ k.stat[t] = "READY" /\ IsList(k.pend[m], Task)
  BY <1>1, <1>3, WaitFacts, ActorFree, OwnersFacts DEF Ends
<1>5. mx \in [Mutex -> Fields] /\ mx[m] \in Fields /\ mx[m].value = 0
  <2>1. OwnersOK /\ mx[m] \in Fields /\ mx[m].value = 0
    BY <1>1, OwnersFacts
  <2> QED  BY <2>1 DEF OwnersOK, Fields
<1>6. CASE s.pend[m] # <<>>
  <2> DEFINE w == s.pend[m][1]
  <2>1. /\ w \in Waiters(m) /\ w \in Task /\ w # t /\ w = k.pend[m][1]
    <3>1. w \in Waiters(m) /\ w = k.pend[m][1]
      BY <1>3, <1>4, <1>6 DEF Waiters, ToSet, IsList
    <3>2. k.stat[w] = "SUSPEND" /\ w \in Task
      BY <1>4, <3>1, WaitFacts
    <3> QED  BY <1>4, <3>1, <3>2
  <2>2. k' = ResumeHead(s, m) /\ Firsts(s, m) = {w} /\ ThenSched(t)
    BY <1>2, <1>6 DEF MutexReleaseLast, ResumeHead, Firsts, Foremost
  <2>3. s.prio[w] = k.prio[w]
    BY <1>3, <2>1
  <2>4. mx' = [mx EXCEPT ![m].hold = 1, ![m].owner = w, ![m].orig = k.prio[w]]
    BY <1>2, <1>6, <2>3 DEF MutexReleaseLast, HandOver
  <2>5. mx' = [mx EXCEPT ![m] = [value |-> 0, owner |-> w, hold |-> 1,
                                 orig |-> k.prio[w]]]
    <3>1. [mx[m] EXCEPT !.hold = 1, !.owner = w, !.orig = k.prio[w]]
             = [value |-> 0, owner |-> w, hold |-> 1, orig |-> k.prio[w]]
      <4>1. k.prio[w] \in Prio
        BY <2>1, WaitFacts
      <4> HIDE DEF w
      <4>2. w \in Task
        BY <2>1
      <4> DEFINE h == 1
                 p == k.prio[w]
                 r == mx[m]
      <4>3. h \in Nat /\ p \in Prio /\ r \in Fields /\ r.value = 0
        BY <1>5, <4>1
      <4> HIDE DEF h, p, r
      <4>4. [r EXCEPT !.hold = h, !.owner = w, !.orig = p]
               = [value |-> r.value, owner |-> w, hold |-> h, orig |-> p]
        BY <4>2, <4>3, GivenFields
      <4> QED  BY <4>3, <4>4 DEF h, p, r
    <3> QED  BY <1>5, <2>4, <3>1
  <2> HIDE DEF w
  <2>6. /\ Ends(s, k', Firsts(s, m)) /\ k'.error = s.error /\ k'.prio = s.prio
        /\ k'.cur = s.cur /\ Alike(s, k', Obj) /\ k'.pend[m] = Tail(s.pend[m])
    BY <1>4, <1>6, <2>2, ResumeHeadEnds
  <2>7. Ends(k, k', {} \cup {w})
    BY <1>3, <2>2, <2>6, EndsBoth
  <2>8. HandedTo(t, m, w)
    BY <1>3, <2>1, <2>2, <2>5, <2>6, <2>7 DEF HandedTo, Alike
  <2> QED  BY <1>3, <2>6, <2>8
<1>7. CASE s.pend[m] = <<>>
  <2>1. k' = s /\ resched' = resched
        /\ mx' = [mx EXCEPT ![m] = [value |-> @.value + 1, hold |-> 0,
                                    owner |-> NoTask, orig |-> NoPrio]]
    BY <1>2, <1>7 DEF MutexReleaseLast
  <2>2. mx' = [mx EXCEPT ![m] = [value |-> 1, owner |-> NoTask, hold |-> 0,
                                 orig |-> NoPrio]]
    BY <1>5, <2>1
  <2>3. Waiters(m) = {}
    BY <1>3, <1>7 DEF Waiters, ToSet
  <2> QED  BY <1>3, <2>1, <2>2, <2>3 DEF GivenUp
<1> QED  BY <1>6, <1>7

(* The last os_mutex_release keeps the invariant.                          *)
LEMMA ReleaseShift ==
    ASSUME WaitInv, NEW t \in Task, NEW m \in Mutex, MutexReleaseLast(t, m), mb' = mb
    PROVE  WaitInv' /\ Shift(t, {m})
<1>1. /\ k.cur = t /\ t \notin resched /\ pc[t] = "app"
      /\ UNCHANGED <<pc, arg, since, val, todo>>
  BY DEF MutexReleaseLast, Calls, At
<1>2. Moved(t, "app") /\ "app" \in Step \ {"evBack", "putBack"}
  BY <1>1, StayMoves DEF Step, WaitStep
<1>3. /\ OwnersOK /\ m \in Obj /\ mb' \in Mailbox /\ NoTask \notin Task
      /\ k.prio \in [Task -> Prio]
  BY OwnersFacts, WaitFacts DEF WaitInv
<1>4. CASE \E w : HandedTo(t, m, w)
  <2>1. PICK w : HandedTo(t, m, w)
    BY <1>4
  <2>2. OwnersOK'
    <3> DEFINE x == [value |-> 0, owner |-> w, hold |-> 1, orig |-> k.prio[w]]
    <3>1. x \in Fields /\ x.value = 0 /\ x.owner = w /\ x.orig \in Prio /\ w # NoTask
      BY <1>3, <2>1 DEF HandedTo, Fields
    <3>2. mx' = [mx EXCEPT ![m] = x]
      BY <2>1 DEF HandedTo
    <3> HIDE DEF x
    <3> QED  BY <1>3, <3>1, <3>2, OwnersSet
  <2>3. /\ Ends(k, k', {w}) /\ \A u \in {w} \ {t} : \E o \in {m} : u \in Waiters(o)
        /\ resched' \in {resched, resched \cup {t}}
    BY <2>1 DEF HandedTo, ThenSched
  <2> QED  BY <1>1, <1>2, <1>3, <2>2, <2>3, ActShift
<1>5. CASE GivenUp(m)
  <2>1. OwnersOK'
    <3> DEFINE x == [value |-> 1, owner |-> NoTask, hold |-> 0, orig |-> NoPrio]
    <3>1. x \in Fields /\ x.value = 1 /\ x.owner = NoTask
      BY DEF Fields
    <3>2. mx' = [mx EXCEPT ![m] = x]
      BY <1>5 DEF GivenUp
    <3> HIDE DEF x
    <3> QED  BY <1>3, <3>1, <3>2, OwnersSet
  <2> DEFINE S == {}
  <2>2. /\ Ends(k, k', S) /\ \A u \in S \ {t} : \E o \in {m} : u \in Waiters(o)
        /\ resched' \in {resched, resched \cup {t}}
    BY <1>5 DEF GivenUp
  <2> HIDE DEF S
  <2> QED  BY <1>1, <1>2, <1>3, <2>1, <2>2, ActShift
<1> QED  BY <1>4, <1>5, ReleaseLastOK

(* The fields of one mutex, and the error of the caller.                   *)
LEMMA TakeShift ==
    ASSUME WaitInv, NEW t \in Task, Calls(t), NEW m \in Mutex, NEW x \in Fields,
           mx' = [mx EXCEPT ![m] = x],
           x.value = IF x.owner = NoTask THEN 1 ELSE 0,
           x.owner # NoTask => x.orig \in Prio,
           k' = k \/ \E e \in Errno : k' = SetError(k, t, e),
           UNCHANGED <<pc, resched, arg, since, val, todo>>, mb' = mb
    PROVE  WaitInv' /\ Shift(t, {})
<1>1. k.cur = t /\ t \notin resched /\ pc[t] = "app"
  BY DEF Calls, At
<1>2. Moved(t, "app") /\ "app" \in Step \ {"evBack", "putBack", "resumeNext"}
  BY <1>1, StayMoves DEF Step, WaitStep
<1>3. OwnersOK' /\ mb' \in Mailbox
  <2>1. OwnersOK /\ mb \in Mailbox
    BY DEF WaitInv
  <2>2. OwnersOK'
    BY <2>1, OwnersSet
  <2> QED  BY <2>1, <2>2
<1>4. CASE k' = k
  BY <1>1, <1>2, <1>3, <1>4, OwnShift
<1>5. CASE \E e \in Errno : k' = SetError(k, t, e)
  <2>1. PICK e \in Errno : k' = SetError(k, t, e)
    BY <1>5
  <2> QED  BY <1>1, <1>2, <1>3, <2>1, ErrorShift
<1> QED  BY <1>4, <1>5

(* The first take, a nested one, and the release of a nested one.          *)
LEMMA HoldShift ==
    ASSUME WaitInv, NEW t \in Task, NEW m \in Mutex, mb' = mb,
           \/ MutexTakeFree(t, m) \/ MutexTakeAgain(t, m)
           \/ MutexReleaseInner(t, m)
    PROVE  WaitInv' /\ Shift(t, {})
<1>1. /\ mx[m] \in Fields /\ mx[m].hold \in Nat /\ OwnersOK
      /\ mx[m].value = IF mx[m].owner = NoTask THEN 1 ELSE 0
      /\ mx[m].owner # NoTask => mx[m].orig \in Prio
      /\ k.prio[t] \in Prio /\ NoTask \notin Task /\ "OS_OK" \in Errno
  BY OwnersFacts, WaitFacts DEF Errno
<1>2. mx \in [Mutex -> Fields]
  BY <1>1 DEF OwnersOK, Fields
<1>3. /\ Calls(t) /\ UNCHANGED <<pc, resched, arg, since, val, todo>>
      /\ k' = k \/ \E e \in Errno : k' = SetError(k, t, e)
  BY <1>1 DEF MutexTakeFree, MutexTakeAgain, MutexReleaseInner, NoError, SetError
<1>4. CASE MutexTakeFree(t, m)
  <2> DEFINE x == [value |-> 0, owner |-> t, hold |-> mx[m].hold + 1,
                   orig |-> k.prio[t]]
  <2>1. x \in Fields /\ x.value = 0 /\ x.owner = t /\ x.orig \in Prio /\ t # NoTask
    BY <1>1 DEF Fields
  <2>2. mx[m].value = 1
    BY <1>1, <1>4 DEF MutexTakeFree
  <2>3. [mx[m] EXCEPT !.value = @ - 1, !.owner = t, !.orig = k.prio[t], !.hold = @ + 1]
           = x
    <3>1. mx[m].hold + 1 \in Nat
      BY <1>1
    <3>2. [mx[m] EXCEPT !.value = 0, !.owner = t, !.orig = k.prio[t],
                        !.hold = mx[m].hold + 1] = x
      <4> DEFINE h == mx[m].hold + 1
                 p == k.prio[t]
                 r == mx[m]
                 v == 0
      <4>3. h \in Nat /\ p \in Prio /\ r \in Fields /\ v \in Nat
        BY <1>1, <3>1
      <4> HIDE DEF h, p, r, v, x
      <4> DEFINE y == [r EXCEPT !.value = v, !.owner = t, !.orig = p, !.hold = h]
      <4>5. y \in Fields
        BY <4>3 DEF Fields
      <4>6. y.value = v /\ y.owner = t /\ y.hold = h /\ y.orig = p
        BY <4>3 DEF Fields
      <4> HIDE DEF y
      <4>7. y = [value |-> v, owner |-> t, hold |-> h, orig |-> p]
        BY <4>5, <4>6, FieldsForm
      <4>4. [r EXCEPT !.value = v, !.owner = t, !.orig = p, !.hold = h]
               = [value |-> v, owner |-> t, hold |-> h, orig |-> p]
        BY <4>7 DEF y
      <4> QED  BY <4>4 DEF h, p, r, v, x
    <3>3. mx[m].value - 1 = 0
      BY <2>2
    <3> HIDE DEF x
    <3> QED  BY <3>2, <3>3
  <2>4. mx' = [mx EXCEPT ![m] = x]
    BY <1>2, <1>4, <2>3 DEF MutexTakeFree
  <2> HIDE DEF x
  <2> QED  BY <1>3, <2>1, <2>4, TakeShift
<1>5. CASE MutexTakeAgain(t, m) \/ MutexReleaseInner(t, m)
  <2> DEFINE h == IF MutexTakeAgain(t, m) THEN mx[m].hold + 1 ELSE mx[m].hold - 1
             x == [mx[m] EXCEPT !.hold = h]
  <2>1. h \in Nat
    BY <1>1, <1>5 DEF MutexReleaseInner
  <2>2. mx' = [mx EXCEPT ![m] = x]
    <3>1. CASE MutexTakeAgain(t, m)
      BY <1>2, <3>1 DEF MutexTakeAgain
    <3>2. CASE ~MutexTakeAgain(t, m)
      BY <1>2, <1>5, <3>2 DEF MutexReleaseInner
    <3> QED  BY <3>1, <3>2
  <2> HIDE DEF h
  <2>3. /\ x \in Fields /\ x.value = mx[m].value /\ x.owner = mx[m].owner
        /\ x.orig = mx[m].orig
    BY <1>1, <2>1 DEF Fields
  <2> HIDE DEF x
  <2>4. /\ x.value = IF x.owner = NoTask THEN 1 ELSE 0
        /\ x.owner # NoTask => x.orig \in Prio
    BY <1>1, <2>3
  <2> QED  BY <1>3, <2>2, <2>3, <2>4, TakeShift
<1> QED  BY <1>4, <1>5

(* The functions of os_mutex.c.                                            *)
LEMMA MutexShift ==
    ASSUME WaitInv, NEW t \in Task, Mutexes(t)
    PROVE  WaitInv' /\ Shift(t, Mutex)
<1>1. mb' = mb
  BY DEF Mutexes, SameMbox
<1>2. /\ "app" \in Step \ {"evBack", "putBack", "resumeNext"}
      /\ Timeout \subseteq 0..Forever /\ Forever \in Nat /\ Forever \in 0..Forever
      /\ {"OS_TIMEOUT", "OS_OK", "OS_ERROR"} \subseteq Errno
  BY WaitAssumption DEF Step, WaitStep, Errno
<1>3. ASSUME NEW m \in Mutex, \/ MutexTakeFree(t, m) \/ MutexTakeAgain(t, m)
                              \/ MutexReleaseInner(t, m)
      PROVE  WaitInv' /\ Shift(t, Mutex)
  <2>1. WaitInv' /\ Shift(t, {})
    BY <1>1, <1>3, HoldShift
  <2> QED  BY <2>1, ShiftMutex
<1>4. ASSUME NEW m \in Mutex, NEW d \in 0..Forever, MutexWait(t, m, d)
      PROVE  WaitInv' /\ Shift(t, Mutex)
  <2>1. d \in Nat
    BY <1>2
  <2>2. WaitInv' /\ Shift(t, {m})
    BY <1>1, <1>4, <2>1, MutexWaitShift
  <2> QED  BY <2>2, ShiftMutex
<1>5. ASSUME NEW m \in Mutex, MutexPoll(t, m) \/ MutexRefused(t, m)
      PROVE  WaitInv' /\ Shift(t, Mutex)
  <2>1. /\ k.cur = t /\ t \notin resched /\ pc[t] = "app" /\ resched' = resched
        /\ UNCHANGED <<pc, arg, since, val, todo>> /\ mx' = mx
        /\ \E e \in Errno : k' = SetError(k, t, e)
    BY <1>2, <1>5 DEF MutexPoll, MutexRefused, Calls, At, SetError
  <2>2. PICK e \in Errno : k' = SetError(k, t, e)
    BY <2>1
  <2>3. Moved(t, "app") /\ OwnersOK' /\ mb' \in Mailbox
    BY <1>1, <2>1, StayMoves DEF WaitInv, OwnersOK
  <2>4. WaitInv' /\ Shift(t, {})
    BY <1>2, <2>1, <2>2, <2>3, ErrorShift
  <2> QED  BY <2>4, ShiftMutex
<1>6. ASSUME NEW m \in Mutex, MutexReleaseLast(t, m)
      PROVE  WaitInv' /\ Shift(t, Mutex)
  <2>1. WaitInv' /\ Shift(t, {m})
    BY <1>1, <1>6, ReleaseShift
  <2> QED  BY <2>1, ShiftMutex
<1>7. ASSUME NEW m \in Mutex, MutexDelete(t, m)
      PROVE  WaitInv' /\ Shift(t, Mutex)
  <2>1. m \in Obj \ {Pool}
    BY MutexAssumption, ObjectsDiffer
  <2>2. /\ Calls(t) /\ ResumeLists(t, <<m>>) /\ mx' = mx
        /\ <<m>> \in Seq(Obj \ {Pool})
    BY <1>7, <2>1 DEF MutexDelete
  <2>3. WaitInv' /\ Shift(t, {})
    BY <1>1, <2>2, DeleteShift
  <2> QED  BY <2>3, ShiftMutex
<1>8. CASE MutexTaken(t) \/ MutexFails(t)
  <2>1. /\ k.cur = t /\ t \notin resched /\ Finish(t) /\ resched' = resched
        /\ k' = k /\ mx' = mx
    BY <1>8 DEF MutexTaken, MutexFails, At
  <2>2. OwnersOK' /\ mb' \in Mailbox
    BY <1>1, <2>1 DEF WaitInv, OwnersOK
  <2>3. WaitInv' /\ Shift(t, {})
    BY <2>1, <2>2, OverShift
  <2> QED  BY <2>3, ShiftMutex
<1> QED
  BY <1>2, <1>3, <1>4, <1>5, <1>6, <1>7, <1>8
     DEF Mutexes, MutexCall, MutexContinue


-----------------------------------------------------------------------------
(* The scheduler, the clock, os_list_resume_all and os_task_sleep          *)

(* A step of the kernel by itself, that ends the waits of S.               *)
LEMMA KernelEnds ==
    ASSUME WaitInv, UNCHANGED <<pc, arg, val, todo>>,
           since' \in [Task -> 0..Forever], NEW S, Ends(k, k', S),
           \A u \in S : k.stat[u] = "SUSPEND" /\ k'.error[u] # "OS_OK"
                        /\ u \in ToSet(k.timers),
           resched' \subseteq Task, k'.prio = k.prio, mx' = mx, mb' = mb,
           resched \subseteq resched' \/ k'.stat[k'.cur] = "READY"
    PROVE  WaitInv' /\ Shift(Idle, {})
<1>1. Idle \in Task /\ k.stat[Idle] = "READY"
  BY WaitFacts
<1>2. AsksOK' /\ WaitTypeOK(Step)' /\ OwnersOK' /\ mb' \in Mailbox
  BY DEF WaitInv, AsksOK, WaitTypeOK, OwnersOK, Ends, Works, KernelOK
<1> DEFINE Os == {}
<1> HIDE DEF Os
<1>3. /\ \A u \in S \ {Idle} : k.stat[u] = "SUSPEND"
      /\ \A q \in Obj \ Os : \A u \in S \cap Waiters(q) :
            /\ k'.error[u] # "OS_OK"
            /\ \/ u \in ToSet(k.timers)
               \/ \E v \in Task : pc[v] = "resumeNext" /\ q = Head(todo[v])
      /\ \A u \in Task \ {Idle} : /\ pc'[u] = pc[u] /\ todo'[u] = todo[u]
                                  /\ pc[u] # "evBack" => val'[u] = val[u]
      /\ Os \cap Mutex = {} => k'.prio = k.prio
  OBVIOUS
<1>4. WaitInv' /\ Shift(Idle, Os)
  BY <1>1, <1>2, <1>3, EndsShift
<1> QED  BY <1>4 DEF Os

(* os_sched of a task.                                                     *)
LEMMA ScheduleShift ==
    ASSUME WaitInv, NEW t \in Task, Schedule(t), mx' = mx, mb' = mb
    PROVE  WaitInv' /\ Shift(Idle, {})
<1>1. /\ UNCHANGED <<pc, arg, val, todo>> /\ since' = since
      /\ k' = Sched(k) /\ resched' \subseteq Task /\ Works(k)
      /\ since' \in [Task -> 0..Forever]
  BY WaitFacts DEF Schedule, WaitInv, WaitTypeOK
<1>2. Ends(k, k', {}) /\ k'.prio = k.prio /\ k'.stat[k'.cur] = "READY"
  BY <1>1, SchedEnds
<1> QED  BY <1>1, <1>2, KernelEnds

(* os_tick_isr and the timers of the tasks.                                *)
LEMMA ClockShift ==
    ASSUME WaitInv, Clock, mx' = mx, mb' = mb
    PROVE  WaitInv' /\ Shift(Idle, {})
<1>1. /\ UNCHANGED <<pc, arg, val, todo>> /\ resched' = resched /\ Works(k)
      /\ resched' \subseteq Task /\ UserTimer = {}
      /\ since \in [Task -> 0..Forever]
  BY WaitFacts, WaitAssumption
     DEF Clock, Tick, TaskTimerFire, TickEnd, WaitInv, WaitTypeOK
<1>2. CASE Tick
  <2>1. k' = TickIncrease(k) /\ k.isr = 0
    BY <1>2 DEF Tick
  <2>2. Ends(k, k', {}) /\ k'.prio = k.prio
    BY <1>1, <2>1, TickEnds
  <2>3. since' \in [Task -> 0..Forever]
    <3>1. \A t \in Task : since[t] < arg[t] => since[t] + 1 \in 0..Forever
      BY <1>1, WaitAssumption DEF WaitInv, WaitTypeOK
    <3> QED  BY <1>1, <1>2, <3>1 DEF Tick
  <2> QED  BY <1>1, <2>2, <2>3, KernelEnds
<1>3. CASE TaskTimerFire
  <2>1. k' = TimerAfter(TaskTimeout(TimerTake(k), k.n), k.n) /\ Due(k) /\ since' = since
    BY <1>3 DEF TaskTimerFire
  <2>2. /\ k.n \in Task /\ k.n \in ToSet(k.timers)
        /\ Ends(k, k', {k.n})
        /\ k'.error[k.n] = "OS_TIMEOUT" /\ k'.prio = k.prio
    BY <1>1, <2>1, FireEnds
  <2>3. k.stat[k.n] = "SUSPEND"
    BY <1>1, <2>2 DEF Works, KernelOK, TimerList
  <2> DEFINE S == {k.n}
  <2>4. /\ Ends(k, k', S)
        /\ \A u \in S : k.stat[u] = "SUSPEND" /\ k'.error[u] # "OS_OK"
                        /\ u \in ToSet(k.timers)
    BY <2>2, <2>3
  <2> HIDE DEF S
  <2> QED  BY <1>1, <2>1, <2>2, <2>4, KernelEnds
<1>4. CASE TickEnd
  <2>1. k' = IsrLeave(k) /\ since' = since
    BY <1>4 DEF TickEnd
  <2>2. Ends(k, k', {}) /\ k'.prio = k.prio
    BY <1>1, <2>1, TickEndEnds
  <2> QED  BY <1>1, <2>1, <2>2, KernelEnds
<1> QED  BY <1>2, <1>3, <1>4 DEF Clock

(* One turn of os_list_resume_all.                                         *)
LEMMA ResumeShift ==
    ASSUME WaitInv, NEW t \in Task, ResumeCheck(t) \/ ResumeNext(t),
           mx' = mx, mb' = mb
    PROVE  WaitInv' /\ Shift(t, {})
<1>1. /\ k.cur = t /\ k.isr = 0 /\ t \notin resched /\ t # Idle
      /\ resched' = resched /\ val' = [val EXCEPT ![t] = val[t]]
      /\ val[t] \in Val \cup {NoVal} /\ val' = val
      /\ UNCHANGED <<arg, since>> /\ Works(k)
  BY WaitFacts DEF ResumeCheck, ResumeNext, At
<1>2. /\ OwnersOK' /\ mb' \in Mailbox
      /\ {"resume", "resumeNext"} \subseteq Step \ {"evBack", "putBack"}
      /\ resched' \subseteq Task
  BY <1>1 DEF WaitInv, OwnersOK, Step, WaitStep, WaitTypeOK
<1>3. CASE ResumeCheck(t)
  <2>1. todo[t] \in Seq(Obj \ {Pool}) /\ todo[t] # <<>> /\ k' = k
    BY <1>3 DEF ResumeCheck, WaitInv, AsksOK
  <2>2. CASE k.pend[Head(todo[t])] # <<>>
    <3>1. pc' = [pc EXCEPT ![t] = "resumeNext"] /\ todo' = todo
      BY <1>3, <2>2 DEF ResumeCheck, Goto
    <3>2. Moved(t, "resumeNext") /\ todo'[t] # <<>>
      BY <1>1, <2>1, <3>1, GotoMoves
    <3> QED  BY <1>1, <1>2, <2>1, <3>2, OwnShift
  <2>3. CASE ~(k.pend[Head(todo[t])] # <<>>)
    <3> DEFINE s == IF Len(todo[t]) = 1 THEN "app" ELSE "resume"
    <3>1. /\ todo' = [todo EXCEPT ![t] = Tail(@)] /\ pc' = [pc EXCEPT ![t] = s]
          /\ s \in {"app", "resume"} /\ "app" \in Step
      BY <1>3, <2>3 DEF ResumeCheck, At, Goto, Step, WaitStep
    <3> HIDE DEF s
    <3>2. Tail(todo[t]) \in Seq(Obj \ {Pool}) /\ todo \in [Task -> Seq(Obj)]
      BY <2>1, WaitFacts
    <3>3. /\ \E os \in Seq(Obj \ {Pool}) : todo' = [todo EXCEPT ![t] = os]
          /\ pc' = [pc EXCEPT ![t] = s]
      BY <3>1, <3>2, WaitFacts
    <3>4. /\ arg' = [arg EXCEPT ![t] = arg[t]] /\ arg[t] \in 0..Forever
          /\ since' = [since EXCEPT ![t] = since[t]] /\ since[t] \in 0..Forever
      BY <1>1 DEF WaitInv, WaitTypeOK
    <3>5. Moved(t, s)
      BY <1>1, <3>3, <3>4 DEF Moved
    <3>6. s \in Step \ {"evBack", "putBack"} /\ s # "resumeNext"
      BY <1>2, <3>1
    <3> QED  BY <1>1, <1>2, <2>1, <3>5, <3>6, OwnShift
  <2> QED  BY <2>2, <2>3
<1>4. CASE ResumeNext(t)
  <2> DEFINE o == Head(todo[t])
             S == Firsts(k, o)
             Os == {}
  <2>1. o \in Obj
    BY <1>4 DEF ResumeNext, At, WaitInv, AsksOK
  <2>2. /\ k.pend[o] # <<>> /\ k' = WakeHead(k, o) /\ pc[t] = "resumeNext"
        /\ pc' = [pc EXCEPT ![t] = "resume"] /\ todo' = todo
    BY <1>4 DEF ResumeNext, At, Goto
  <2>3. \E v \in Task : pc[v] = "resumeNext" /\ o = Head(todo[v])
    BY <2>2
  <2> HIDE DEF o
  <2>4. /\ Ends(k, k', S) /\ k'.prio = k.prio
        /\ \A u \in S : k'.error[u] = "OS_ERROR"
        /\ S \subseteq ToSet(k.pend[o])
    BY <1>1, <2>1, <2>2, WakeHeadEnds
  <2>5. Moved(t, "resume")
    BY <1>1, <2>2, GotoMoves
  <2>6. k' \in Kernel
    BY <2>4 DEF Ends, Works, KernelOK
  <2>7. /\ WaitTypeOK(Step)' /\ AsksOK'
        /\ \A u \in Task \ {t} : /\ pc'[u] = pc[u] /\ todo'[u] = todo[u]
                                 /\ val'[u] = val[u]
    BY <1>1, <1>2, <2>5, <2>6, MovedOK
  <2>8. k.stat[t] = "READY"
    BY <1>1, ActorFree
  <2> HIDE DEF S, Os
  <2>9. \A q \in Obj \ Os : \A u \in S \cap Waiters(q) : q = o /\ k'.error[u] # "OS_OK"
    <3> SUFFICES ASSUME NEW q \in Obj \ Os, NEW u \in S \cap Waiters(q)
                 PROVE  q = o /\ k'.error[u] # "OS_OK"
      OBVIOUS
    <3>1. Place(u, q) /\ Place(u, o)
      BY <2>1, <2>4 DEF WaitInv, PlacesOK, Waiters
    <3> QED  BY <2>1, <2>4, <3>1, OnePlace
  <2>10. /\ \A u \in S \ {t} : k.stat[u] = "SUSPEND"
         /\ \A q \in Obj \ Os : \A u \in S \cap Waiters(q) :
               /\ k'.error[u] # "OS_OK"
               /\ \/ u \in ToSet(k.timers)
                  \/ \E v \in Task : pc[v] = "resumeNext" /\ q = Head(todo[v])
         /\ \A u \in Task \ {t} : /\ pc'[u] = pc[u] /\ todo'[u] = todo[u]
                                  /\ pc[u] # "evBack" => val'[u] = val[u]
         /\ Os \cap Mutex = {} => k'.prio = k.prio
         /\ resched \subseteq resched'
    <3>1. \A u \in S : k.stat[u] = "SUSPEND"
      BY <2>1, <2>4, WaitFacts DEF Waiters
    <3> QED  BY <1>1, <2>3, <2>4, <2>7, <2>9, <3>1
  <2>11. WaitInv' /\ Shift(t, Os)
    BY <1>2, <2>4, <2>7, <2>8, <2>10, EndsShift
  <2> QED  BY <2>11 DEF Os
<1> QED  BY <1>3, <1>4

(* os_task_sleep.                                                          *)
LEMMA SleepShift ==
    ASSUME WaitInv, NEW t \in Task, Sleep(t, 1) \/ SleepReturn(t),
           mx' = mx, mb' = mb
    PROVE  WaitInv' /\ Shift(t, {})
<1>1. /\ k.cur = t /\ k.isr = 0 /\ t \notin resched /\ t # Idle
      /\ val' = [val EXCEPT ![t] = val[t]]
      /\ val[t] \in Val \cup {NoVal} /\ val' = val
      /\ UNCHANGED <<arg, since, todo>> /\ Works(k)
  BY WaitFacts DEF Sleep, SleepReturn, Calls, At
<1>2. /\ OwnersOK' /\ mb' \in Mailbox
      /\ {"app", "slept"} \subseteq Step \ {"evBack", "putBack", "resumeNext"}
  BY DEF WaitInv, OwnersOK, Step, WaitStep
<1>3. CASE SleepReturn(t)
  <2>1. /\ pc' = [pc EXCEPT ![t] = "app"] /\ resched' = resched
        /\ \E e \in Errno : k' = SetError(k, t, e)
    <3>1. k.error[t] \in Errno /\ "OS_OK" \in Errno
      BY WaitFacts DEF Errno
    <3> QED  BY <1>3, <3>1 DEF SleepReturn, Goto, SetError
  <2>2. PICK e \in Errno : k' = SetError(k, t, e)
    BY <2>1
  <2>3. Moved(t, "app")
    BY <1>1, <2>1, GotoMoves
  <2> QED  BY <1>1, <1>2, <2>1, <2>2, <2>3, ErrorShift
<1>4. CASE Sleep(t, 1)
  <2> DEFINE Os == {}
             d == 1
  <2>1. /\ k' = TimerStart(TaskSuspend(k, t), t, d) /\ ThenSched(t)
        /\ pc' = [pc EXCEPT ![t] = "slept"] /\ d \in Nat
    BY <1>4 DEF Sleep, Goto
  <2>2. k.stat[t] = "READY"
    BY <1>1, ActorFree
  <2> HIDE DEF d
  <2>3. Begins(k, k', Os, t) /\ k'.prio = k.prio
    BY <1>1, <2>1, <2>2, SleepBegins
  <2>4. Moved(t, "slept")
    BY <1>1, <2>1, GotoMoves
  <2>5. /\ k' \in Kernel /\ resched' \subseteq Task /\ resched \subseteq resched'
        /\ t \in resched'
    BY <2>1, <2>3 DEF Begins, Works, KernelOK, WaitInv, WaitTypeOK, ThenSched
  <2>6. /\ WaitTypeOK(Step)' /\ AsksOK' /\ pc'[t] = "slept"
        /\ \A u \in Task \ {t} : /\ pc'[u] = pc[u] /\ todo'[u] = todo[u]
                                 /\ val'[u] = val[u]
    BY <1>1, <1>2, <2>4, <2>5, MovedOK
  <2>7. Os \subseteq Obj /\ \A o \in Os : Place(t, o)'
    OBVIOUS
  <2> HIDE DEF Os
  <2>8. WaitInv' /\ Shift(t, Os)
    BY <1>1, <1>2, <2>2, <2>3, <2>5, <2>6, <2>7, BeginsShift
  <2> QED  BY <2>8 DEF Os
<1> QED  BY <1>3, <1>4

(* Every step that belongs to no object.                                   *)
LEMMA KernelShift ==
    ASSUME WaitInv, KernelWork
    PROVE  /\ WaitInv' /\ \E t \in Task : Shift(t, {})
           /\ val' = val /\ k'.prio = k.prio
           /\ \A u \in Task : pc'[u] = pc[u] \/ {pc[u], pc'[u]} \subseteq WaitStep
<1>1. mx' = mx /\ mb' = mb /\ Idle \in Task /\ pc \in [Task -> Step]
  BY WaitFacts DEF KernelWork, SameObjects, SameMutexes, SameMbox
<1>2. WaitInv' /\ \E t \in Task : Shift(t, {})
  BY <1>1, ScheduleShift, ClockShift, ResumeShift, SleepShift DEF KernelWork
<1>3. k'.prio = k.prio
  BY <1>2 DEF Shift
<1>4. val' = val
  BY DEF KernelWork, Clock, Schedule, ResumeCheck, ResumeNext, Sleep, SleepReturn,
         Tick, TaskTimerFire, TickEnd
<1>5. \A u \in Task : pc'[u] = pc[u] \/ {pc[u], pc'[u]} \subseteq WaitStep
  BY <1>1 DEF KernelWork, Clock, Schedule, ResumeCheck, ResumeNext, Sleep, SleepReturn,
         Tick, TaskTimerFire, TickEnd, Goto, Calls, At, WaitStep
<1> QED  BY <1>2, <1>3, <1>4, <1>5

-----------------------------------------------------------------------------
(* The inductive invariant of all waits                                    *)

(* Every step keeps the invariant,                                         *)
LEMMA WaitStepOK ==
    ASSUME WaitInv, Next
    PROVE  WaitInv'
BY MboxShift, MboxIsrShift, MqueueShift, MqueueIsrShift, MutexShift, EventShift,
   EventIsrShift, MpoolShift, MpoolIsrShift, KernelShift DEF Next

(* also one that changes nothing,                                          *)
LEMMA WaitSame ==
    ASSUME WaitInv, UNCHANGED vars
    PROVE  WaitInv'
BY DEF WaitInv, WaitTypeOK, Works, CurOK, PlacesOK, Place, SleepersOK, AsksOK,
       OwnersOK, Waiters, vars

(* and it holds at first, when nobody waits.                               *)
LEMMA WaitFirst ==
    ASSUME IsFiniteSet(Task), Init
    PROVE  WaitInv /\ k.prio = BasePrio /\ \A o \in Obj : k.pend[o] = <<>>
<1>1. /\ k = Running(BasePrio) /\ BasePrio \in [Task -> Prio]
      /\ pc = [t \in Task |-> "app"] /\ resched = {}
      /\ arg = [t \in Task |-> Forever] /\ since = [t \in Task |-> 0]
      /\ val = [t \in Task |-> NoVal] /\ todo = [t \in Task |-> <<>>]
  BY WaitAssumption DEF Init, WaitInit
<1>2. /\ KernelOK(k, {}) /\ k.cur \in Task /\ k.lock = 0 /\ k.isr = 0
      /\ \A t \in Task : k.stat[t] = "READY"
      /\ \A o \in Obj : k.pend[o] = <<>>
      /\ k.prio = BasePrio
  BY <1>1, RunningOK
<1>3. Idle \in Task /\ Forever \in 0..Forever /\ 0 \in 0..Forever /\ "app" \in Step
  BY KernelAssumption, WaitAssumption DEF Step, WaitStep
<1>4. WaitTypeOK(Step)
  BY <1>1, <1>2, <1>3 DEF WaitTypeOK, KernelOK
<1>5. \A o \in Obj : Waiters(o) = {}
  BY <1>2, EmptyList DEF Waiters
<1>6. Works(k) /\ CurOK /\ PlacesOK /\ SleepersOK
  BY <1>2, <1>3, <1>5 DEF Works, CurOK, PlacesOK, SleepersOK
<1>7. AsksOK
  BY <1>1, <1>3 DEF AsksOK
<1>8. OwnersOK
  BY MutexAssumption DEF Init, MutexInit, OwnersOK
<1>9. mb \in Mailbox
  <2> DEFINE z == 0
  <2>1. /\ z \in 0..Size /\ z \in 0..Size - 1
        /\ [i \in 0..Size - 1 |-> NoVal] \in [0..Size - 1 -> Msg \cup {NoVal}]
    BY MboxAssumption
  <2>2. mb = [pool |-> [i \in 0..Size - 1 |-> NoVal], entry |-> z, in |-> z, out |-> z]
    BY DEF Init, MboxInit
  <2> HIDE DEF z
  <2> QED  BY <2>1, <2>2 DEF Mailbox
<1> QED
  BY <1>2, <1>4, <1>6, <1>7, <1>8, <1>9 DEF WaitInv

(* A task is in at most one pending list, waits for what it asked for and  *)
(* is told how its wait ended; every suspended task sleeps or is in a list *)
(* or is woken by its timer; a mutex is taken when it has an owner, and    *)
(* the lists, the bitmap and the timer list agree with the tasks' states,  *)
(* for every mix of the functions of os_mbox.c, os_mqueue.c, os_mutex.c,   *)
(* os_event.c and os_mpool.c with the clock.                               *)
THEOREM WaitInductive ==
    ASSUME IsFiniteSet(Task)
    PROVE  Spec => []WaitInv
<1>1. Init => WaitInv
  BY WaitFirst
<1>2. WaitInv /\ [Next]_vars => WaitInv'
  BY WaitStepOK, WaitSame
<1> QED  BY <1>1, <1>2, PTL DEF Spec

-----------------------------------------------------------------------------
(* The steps of the other objects                                          *)

(* A step of task t, or of a handler, in the functions whose steps are S   *)
(* and whose pending lists are those of Os.                                *)
Does(t, S, Os) ==
    /\ Shift(t, Os)
    /\ pc[t] \in S \cup WaitStep /\ pc'[t] \in S \cup WaitStep
    /\ "evBack" \notin S => \A u \in Task \ {t} : val'[u] = val[u]

(* What it is to the functions of another object, with steps S and lists   *)
(* Os.                                                                     *)
Aside(S, Os) ==
    /\ \A u \in Task : pc[u] \in S \/ pc'[u] \in S =>
          /\ pc'[u] = pc[u] /\ val'[u] = val[u]
          /\ k.stat[u] = "READY" => k'.error[u] = k.error[u]
          /\ u \in ToSet(k'.timers) => u \in ToSet(k.timers)
    /\ \A o \in Os :
          /\ Waiters(o)' \subseteq Waiters(o)
          /\ \A u \in Waiters(o) \ Waiters(o)' :
                /\ k'.error[u] # "OS_OK"
                /\ \/ u \in ToSet(k.timers)
                   \/ \E v \in Task : pc[v] = "resumeNext" /\ o = Head(todo[v])

(* What a step does leaves the other objects aside.                        *)
LEMMA DoesAside ==
    ASSUME NEW t \in Task, NEW S, NEW Os, Does(t, S, Os),
           NEW T, T \cap (S \cup WaitStep) = {}, NEW Ps, Ps \subseteq Obj \ Os
    PROVE  Aside(T, Ps)
<1>1. pc[t] \notin T /\ pc'[t] \notin T
  BY DEF Does
<1>2. ASSUME NEW u \in Task, pc[u] \in T \/ pc'[u] \in T
      PROVE  /\ u # t /\ pc'[u] = pc[u] /\ val'[u] = val[u]
             /\ k.stat[u] = "READY" => k'.error[u] = k.error[u]
             /\ u \in ToSet(k'.timers) => u \in ToSet(k.timers)
  <2>1. u # t
    BY <1>1, <1>2
  <2>2. pc'[u] = pc[u] /\ (pc[u] # "evBack" => val'[u] = val[u])
    BY <2>1 DEF Does, Shift
  <2>3. pc[u] = "evBack" => "evBack" \notin S
    BY <1>2, <2>2
  <2> QED  BY <2>1, <2>2, <2>3 DEF Does, Shift
<1>3. \A o \in Ps : o \in Obj \ Os
  OBVIOUS
<1> QED  BY <1>2, <1>3 DEF Aside, Does, Shift

(* The mailbox,                                                            *)
LEMMA MboxDoes ==
    ASSUME WaitInv, NEW t \in Task, Mbox(t)
    PROVE  Does(t, MboxStep, {Recv, Send})
<1>1. pc \in [Task -> Step] /\ val \in [Task -> Val \cup {NoVal}]
  BY WaitFacts
<1>2. pc[t] \in MboxStep \cup WaitStep /\ pc'[t] \in MboxStep \cup WaitStep
  BY <1>1 DEF Mbox, MboxCall, MboxContinue, MboxReset, MboxDelete, MboxGet, MboxPut,
     MboxPutWait, MboxGetWait, PutBack, PutAgain, PutFails, GetBack, GetAgain,
     GetTimesOut, GetFails, Got, PutStores, GetTakes, BeginWait, Finish, Goto,
     ResumeLists, Calls, At, MboxStep, WaitStep
<1>3. \A u \in Task \ {t} : val'[u] = val[u]
  BY <1>1 DEF Mbox, MboxCall, MboxContinue, MboxReset, MboxDelete, MboxGet, MboxPut,
     MboxPutWait, MboxGetWait, PutBack, PutAgain, PutFails, GetBack, GetAgain,
     GetTimesOut, GetFails, Got, PutStores, GetTakes, BeginWait, Finish,
     ResumeLists
<1> QED  BY <1>2, <1>3, MboxShift DEF Does

(* the message queue,                                                      *)
LEMMA MqueueDoes ==
    ASSUME WaitInv, NEW t \in Task, Mqueue(t)
    PROVE  Does(t, MqueueStep, {Queue})
<1>1. pc \in [Task -> Step] /\ val \in [Task -> Val \cup {NoVal}]
  BY WaitFacts
<1>2. pc[t] \in MqueueStep \cup WaitStep /\ pc'[t] \in MqueueStep \cup WaitStep
  BY <1>1 DEF Mqueue, MqueueCall, MqueueContinue, MqueueReset, MqueueDelete, MqueueGet,
     MqueuePut, MqueueGetWait, MqueueLink, MqueueLinkUrgent, Linked, MqueueCopy,
     MqueueGetBack, MqueueGetAgain, MqueueGetTimesOut, MqueueGetFails, UnlinkHead,
     BeginWait, Finish, Goto, ResumeLists, Calls, At, MqueueStep, WaitStep
<1>3. \A u \in Task \ {t} : val'[u] = val[u]
  BY <1>1 DEF Mqueue, MqueueCall, MqueueContinue, MqueueReset, MqueueDelete, MqueueGet,
     MqueuePut, MqueueGetWait, MqueueLink, MqueueLinkUrgent, Linked, MqueueCopy,
     MqueueGetBack, MqueueGetAgain, MqueueGetTimesOut, MqueueGetFails, UnlinkHead,
     BeginWait, Finish, ResumeLists
<1> QED  BY <1>2, <1>3, MqueueShift DEF Does

(* the mutexes,                                                            *)
LEMMA MutexDoes ==
    ASSUME WaitInv, NEW t \in Task, Mutexes(t)
    PROVE  Does(t, MutexStep, Mutex)
<1>1. pc \in [Task -> Step] /\ val \in [Task -> Val \cup {NoVal}]
  BY WaitFacts
<1>2. pc[t] \in MutexStep \cup WaitStep /\ pc'[t] \in MutexStep \cup WaitStep
  BY <1>1 DEF Mutexes, MutexCall, MutexContinue, MutexTakeAgain, MutexTakeFree, MutexWait,
     MutexPoll, MutexRefused, MutexReleaseInner, MutexReleaseLast, MutexDelete,
     MutexTaken, MutexFails, Finish, Goto, ResumeLists, Calls, At, MutexStep, WaitStep
<1>3. \A u \in Task \ {t} : val'[u] = val[u]
  BY <1>1 DEF Mutexes, MutexCall, MutexContinue, MutexTakeAgain, MutexTakeFree, MutexWait,
     MutexPoll, MutexRefused, MutexReleaseInner, MutexReleaseLast, MutexDelete,
     MutexTaken, MutexFails, Finish, ResumeLists
<1> QED  BY <1>2, <1>3, MutexShift DEF Does

(* the memory pool,                                                        *)
LEMMA MpoolDoes ==
    ASSUME WaitInv, NEW t \in Task, Mpool(t)
    PROVE  Does(t, MpoolStep, {Pool})
<1>1. pc \in [Task -> Step] /\ val \in [Task -> Val \cup {NoVal}]
  BY WaitFacts
<1>2. pc[t] \in MpoolStep \cup WaitStep /\ pc'[t] \in MpoolStep \cup WaitStep
  BY <1>1 DEF Mpool, MpoolCall, MpoolContinue, MpoolAlloc, MpoolPoll, MpoolDelete,
     MpoolAllocWait, MpoolFree, AllocBack, AllocAgain, AllocTimesOut, AllocFails,
     PoolCheck, PoolNext, Allocate, PoolWait, NoBlock, Finish, Goto, Calls, At,
     MpoolStep, WaitStep
<1>3. \A u \in Task \ {t} : val'[u] = val[u]
  BY <1>1 DEF Mpool, MpoolCall, MpoolContinue, MpoolAlloc, MpoolPoll, MpoolDelete,
     MpoolAllocWait, MpoolFree, AllocBack, AllocAgain, AllocTimesOut, AllocFails,
     PoolCheck, PoolNext, Allocate, PoolWait, NoBlock, Finish
<1> QED  BY <1>2, <1>3, MpoolShift DEF Does

(* the event,                                                              *)
LEMMA EventDoes ==
    ASSUME WaitInv, NEW t \in Task, Events(t)
    PROVE  Does(t, EventStep, {Event})
<1>1. pc \in [Task -> Step]
  BY WaitFacts
<1>2. pc[t] \in EventStep \cup WaitStep /\ pc'[t] \in EventStep \cup WaitStep
  BY <1>1 DEF Events, EventCall, EventContinue, EventPut, EventGet, EventPoll, EventWait,
     EventReturn, EventReset, EventDelete, BeginWait, Finish, Goto, ResumeLists,
     Calls, At, EventStep, WaitStep
<1> QED  BY <1>2, EventShift DEF Does, EventStep

(* A handler stays with the application code of the idle task.             *)
LEMMA HandlerDoes ==
    ASSUME WaitInv, NEW Os, Shift(Idle, Os), pc' = pc, NEW S,
           "evBack" \notin S => val' = val
    PROVE  Does(Idle, S, Os)
BY WaitFacts DEF Does, WaitStep

(* and the scheduler, the clock and os_task_sleep.                         *)
LEMMA KernelDoes ==
    ASSUME WaitInv, KernelWork
    PROVE  \E t \in Task : Does(t, {}, {})
<1>1. mx' = mx /\ mb' = mb /\ Idle \in Task /\ pc \in [Task -> Step] /\ val' = val
  BY WaitFacts, KernelShift DEF KernelWork, SameObjects, SameMutexes, SameMbox
<1>2. ASSUME NEW t \in Task, Schedule(t)
      PROVE  Does(Idle, {}, {})
  <2>1. pc' = pc /\ Shift(Idle, {})
    BY <1>1, <1>2, ScheduleShift DEF Schedule
  <2> QED  BY <1>1, <2>1, HandlerDoes
<1>3. ASSUME Clock
      PROVE  Does(Idle, {}, {})
  <2>1. pc' = pc /\ Shift(Idle, {})
    BY <1>1, <1>3, ClockShift DEF Clock, Tick, TaskTimerFire, TickEnd
  <2> QED  BY <1>1, <2>1, HandlerDoes
<1>4. ASSUME NEW t \in Task, ResumeCheck(t) \/ ResumeNext(t)
      PROVE  Does(t, {}, {})
  <2>1. Shift(t, {})
    BY <1>1, <1>4, ResumeShift
  <2>2. pc[t] \in WaitStep /\ pc'[t] \in WaitStep
    BY <1>1, <1>4 DEF ResumeCheck, ResumeNext, At, Goto, WaitStep
  <2> QED  BY <1>1, <2>1, <2>2 DEF Does
<1>5. ASSUME NEW t \in Task, Sleep(t, 1) \/ SleepReturn(t)
      PROVE  Does(t, {}, {})
  <2>1. Shift(t, {})
    BY <1>1, <1>5, SleepShift
  <2>2. pc[t] \in WaitStep /\ pc'[t] \in WaitStep
    BY <1>1, <1>5 DEF Sleep, SleepReturn, Calls, At, Goto, WaitStep
  <2> QED  BY <1>1, <2>1, <2>2 DEF Does
<1> QED  BY <1>1, <1>2, <1>3, <1>4, <1>5 DEF KernelWork

(* No function is at a step of another one.                                *)
LEMMA StepsDiffer ==
    /\ MboxStep \cap (MqueueStep \cup MutexStep \cup EventStep \cup MpoolStep
                      \cup WaitStep) = {}
    /\ MqueueStep \cap (MutexStep \cup EventStep \cup MpoolStep \cup WaitStep) = {}
    /\ MutexStep \cap (EventStep \cup MpoolStep \cup WaitStep) = {}
    /\ EventStep \cap (MpoolStep \cup WaitStep) = {}
    /\ MpoolStep \cap WaitStep = {}
BY DEF MboxStep, MqueueStep, MutexStep, EventStep, MpoolStep, WaitStep

(* Every step belongs to one object, or to the kernel.                     *)
LEMMA NextDoes ==
    ASSUME WaitInv, Next
    PROVE  \E t \in Task :
             \/ (Mbox(t) \/ MboxIsr) /\ Does(t, MboxStep, {Recv, Send})
             \/ (Mqueue(t) \/ MqueueIsr) /\ Does(t, MqueueStep, {Queue})
             \/ Mutexes(t) /\ Does(t, MutexStep, Mutex)
             \/ (Events(t) \/ EventIsr) /\ Does(t, EventStep, {Event})
             \/ (Mpool(t) \/ MpoolIsr) /\ Does(t, MpoolStep, {Pool})
             \/ KernelWork /\ Does(t, {}, {})
<1>1. Idle \in Task
  BY WaitFacts
<1>2. CASE MboxIsr
  <2>1. pc' = pc /\ val' = val /\ Shift(Idle, {Recv, Send})
    BY <1>2, MboxIsrShift DEF MboxIsr, MboxIsrPut
  <2> QED  BY <1>1, <1>2, <2>1, HandlerDoes
<1>3. CASE MqueueIsr
  <2>1. pc' = pc /\ val' = val /\ Shift(Idle, {Queue})
    BY <1>3, MqueueIsrShift DEF MqueueIsr, MqueueIsrPut
  <2> QED  BY <1>1, <1>3, <2>1, HandlerDoes
<1>4. CASE EventIsr
  <2>1. pc' = pc /\ Shift(Idle, {Event}) /\ "evBack" \in EventStep
    BY <1>4, EventIsrShift DEF EventIsr, EventIsrPut, EventStep
  <2>2. Does(Idle, EventStep, {Event})
    BY <2>1, HandlerDoes
  <2> QED  BY <1>1, <1>4, <2>2
<1>5. CASE MpoolIsr
  <2>1. pc' = pc /\ val' = val /\ Shift(Idle, {Pool})
    BY <1>5, MpoolIsrShift DEF MpoolIsr, MpoolIsrFree
  <2> QED  BY <1>1, <1>5, <2>1, HandlerDoes
<1>6. CASE KernelWork
  BY <1>6, KernelDoes
<1>7. CASE \E t \in Task : \/ Mbox(t) \/ Mqueue(t) \/ Mutexes(t) \/ Events(t)
                           \/ Mpool(t)
  BY <1>7, MboxDoes, MqueueDoes, MutexDoes, EventDoes, MpoolDoes
<1> QED  BY <1>2, <1>3, <1>4, <1>5, <1>6, <1>7 DEF Next

(* For the mailbox.                                                       *)
LEMMA MboxNext ==
    ASSUME WaitInv, Next
    PROVE  \/ \E t \in Task : (Mbox(t) \/ MboxIsr) /\ Shift(t, {Recv, Send})
           \/ Aside(MboxStep, {Recv, Send}) /\ UNCHANGED mb
<1>1. PICK t \in Task :
             \/ (Mbox(t) \/ MboxIsr) /\ Does(t, MboxStep, {Recv, Send})
             \/ (Mqueue(t) \/ MqueueIsr) /\ Does(t, MqueueStep, {Queue})
             \/ Mutexes(t) /\ Does(t, MutexStep, Mutex)
             \/ (Events(t) \/ EventIsr) /\ Does(t, EventStep, {Event})
             \/ (Mpool(t) \/ MpoolIsr) /\ Does(t, MpoolStep, {Pool})
             \/ KernelWork /\ Does(t, {}, {})
  BY NextDoes
<1>2. CASE (Mbox(t) \/ MboxIsr) /\ Does(t, MboxStep, {Recv, Send})
  BY <1>2 DEF Does
<1>3. CASE (Mqueue(t) \/ MqueueIsr) /\ Does(t, MqueueStep, {Queue})
  <2>1. /\ MboxStep \cap (MqueueStep \cup WaitStep) = {}
        /\ {Recv, Send} \subseteq Obj \ {Queue}
    BY StepsDiffer, ObjectsDiffer, WaitFacts
  <2>2. Aside(MboxStep, {Recv, Send})
    BY <1>3, <2>1, DoesAside
  <2> QED  BY <1>3, <2>2 DEF Mqueue, MqueueIsr, SameMbox
<1>4. CASE Mutexes(t) /\ Does(t, MutexStep, Mutex)
  <2>1. /\ MboxStep \cap (MutexStep \cup WaitStep) = {}
        /\ {Recv, Send} \subseteq Obj \ Mutex
    BY StepsDiffer, ObjectsDiffer, WaitFacts
  <2>2. Aside(MboxStep, {Recv, Send})
    BY <1>4, <2>1, DoesAside
  <2> QED  BY <1>4, <2>2 DEF Mutexes, SameMbox
<1>5. CASE (Events(t) \/ EventIsr) /\ Does(t, EventStep, {Event})
  <2>1. /\ MboxStep \cap (EventStep \cup WaitStep) = {}
        /\ {Recv, Send} \subseteq Obj \ {Event}
    BY StepsDiffer, ObjectsDiffer, WaitFacts
  <2>2. Aside(MboxStep, {Recv, Send})
    BY <1>5, <2>1, DoesAside
  <2> QED  BY <1>5, <2>2 DEF Events, EventIsr, SameMbox
<1>6. CASE (Mpool(t) \/ MpoolIsr) /\ Does(t, MpoolStep, {Pool})
  <2>1. /\ MboxStep \cap (MpoolStep \cup WaitStep) = {}
        /\ {Recv, Send} \subseteq Obj \ {Pool}
    BY StepsDiffer, ObjectsDiffer, WaitFacts
  <2>2. Aside(MboxStep, {Recv, Send})
    BY <1>6, <2>1, DoesAside
  <2> QED  BY <1>6, <2>2 DEF Mpool, MpoolIsr, SameMbox
<1>7. CASE KernelWork /\ Does(t, {}, {})
  <2>1. MboxStep \cap ({} \cup WaitStep) = {} /\ {Recv, Send} \subseteq Obj \ {}
    BY StepsDiffer, WaitFacts
  <2>2. Aside(MboxStep, {Recv, Send})
    BY <1>7, <2>1, DoesAside
  <2> QED  BY <1>7, <2>2 DEF KernelWork, SameObjects, SameMbox
<1> QED
  BY <1>1, <1>2, <1>3, <1>4, <1>5, <1>6, <1>7

(* For the message queue.                                                 *)
LEMMA MqueueNext ==
    ASSUME WaitInv, Next
    PROVE  \/ \E t \in Task : (Mqueue(t) \/ MqueueIsr) /\ Shift(t, {Queue})
           \/ Aside(MqueueStep, {Queue}) /\ UNCHANGED <<mq, node>>
<1>1. PICK t \in Task :
             \/ (Mbox(t) \/ MboxIsr) /\ Does(t, MboxStep, {Recv, Send})
             \/ (Mqueue(t) \/ MqueueIsr) /\ Does(t, MqueueStep, {Queue})
             \/ Mutexes(t) /\ Does(t, MutexStep, Mutex)
             \/ (Events(t) \/ EventIsr) /\ Does(t, EventStep, {Event})
             \/ (Mpool(t) \/ MpoolIsr) /\ Does(t, MpoolStep, {Pool})
             \/ KernelWork /\ Does(t, {}, {})
  BY NextDoes
<1>2. CASE (Mbox(t) \/ MboxIsr) /\ Does(t, MboxStep, {Recv, Send})
  <2>1. /\ MqueueStep \cap (MboxStep \cup WaitStep) = {}
        /\ {Queue} \subseteq Obj \ {Recv, Send}
    BY StepsDiffer, ObjectsDiffer, WaitFacts
  <2>2. Aside(MqueueStep, {Queue})
    BY <1>2, <2>1, DoesAside
  <2> QED  BY <1>2, <2>2 DEF Mbox, MboxIsr, SameMqueue
<1>3. CASE (Mqueue(t) \/ MqueueIsr) /\ Does(t, MqueueStep, {Queue})
  BY <1>3 DEF Does
<1>4. CASE Mutexes(t) /\ Does(t, MutexStep, Mutex)
  <2>1. /\ MqueueStep \cap (MutexStep \cup WaitStep) = {}
        /\ {Queue} \subseteq Obj \ Mutex
    BY StepsDiffer, ObjectsDiffer, WaitFacts
  <2>2. Aside(MqueueStep, {Queue})
    BY <1>4, <2>1, DoesAside
  <2> QED  BY <1>4, <2>2 DEF Mutexes, SameMqueue
<1>5. CASE (Events(t) \/ EventIsr) /\ Does(t, EventStep, {Event})
  <2>1. /\ MqueueStep \cap (EventStep \cup WaitStep) = {}
        /\ {Queue} \subseteq Obj \ {Event}
    BY StepsDiffer, ObjectsDiffer, WaitFacts
  <2>2. Aside(MqueueStep, {Queue})
    BY <1>5, <2>1, DoesAside
  <2> QED  BY <1>5, <2>2 DEF Events, EventIsr, SameMqueue
<1>6. CASE (Mpool(t) \/ MpoolIsr) /\ Does(t, MpoolStep, {Pool})
  <2>1. /\ MqueueStep \cap (MpoolStep \cup WaitStep) = {}
        /\ {Queue} \subseteq Obj \ {Pool}
    BY StepsDiffer, ObjectsDiffer, WaitFacts
  <2>2. Aside(MqueueStep, {Queue})
    BY <1>6, <2>1, DoesAside
  <2> QED  BY <1>6, <2>2 DEF Mpool, MpoolIsr, SameMqueue
<1>7. CASE KernelWork /\ Does(t, {}, {})
  <2>1. MqueueStep \cap ({} \cup WaitStep) = {} /\ {Queue} \subseteq Obj \ {}
    BY StepsDiffer, WaitFacts
  <2>2. Aside(MqueueStep, {Queue})
    BY <1>7, <2>1, DoesAside
  <2> QED  BY <1>7, <2>2 DEF KernelWork, SameObjects, SameMqueue
<1> QED
  BY <1>1, <1>2, <1>3, <1>4, <1>5, <1>6, <1>7

(* For the mutexes.                                                       *)
LEMMA MutexNext ==
    ASSUME WaitInv, Next
    PROVE  \/ \E t \in Task : (Mutexes(t)) /\ Shift(t, Mutex)
           \/ Aside(MutexStep, Mutex) /\ UNCHANGED <<mx, stack>> /\ k'.prio = k.prio
<1>1. PICK t \in Task :
             \/ (Mbox(t) \/ MboxIsr) /\ Does(t, MboxStep, {Recv, Send})
             \/ (Mqueue(t) \/ MqueueIsr) /\ Does(t, MqueueStep, {Queue})
             \/ Mutexes(t) /\ Does(t, MutexStep, Mutex)
             \/ (Events(t) \/ EventIsr) /\ Does(t, EventStep, {Event})
             \/ (Mpool(t) \/ MpoolIsr) /\ Does(t, MpoolStep, {Pool})
             \/ KernelWork /\ Does(t, {}, {})
  BY NextDoes
<1>2. CASE (Mbox(t) \/ MboxIsr) /\ Does(t, MboxStep, {Recv, Send})
  <2>1. /\ MutexStep \cap (MboxStep \cup WaitStep) = {}
        /\ Mutex \subseteq Obj \ {Recv, Send}
    BY StepsDiffer, ObjectsDiffer, WaitFacts
  <2>2. Aside(MutexStep, Mutex)
    BY <1>2, <2>1, DoesAside
  <2>3. k'.prio = k.prio
    BY <1>2, ObjectsDiffer DEF Does, Shift
  <2> QED  BY <1>2, <2>2, <2>3 DEF Mbox, MboxIsr, SameMutexes
<1>3. CASE (Mqueue(t) \/ MqueueIsr) /\ Does(t, MqueueStep, {Queue})
  <2>1. /\ MutexStep \cap (MqueueStep \cup WaitStep) = {}
        /\ Mutex \subseteq Obj \ {Queue}
    BY StepsDiffer, ObjectsDiffer, WaitFacts
  <2>2. Aside(MutexStep, Mutex)
    BY <1>3, <2>1, DoesAside
  <2>3. k'.prio = k.prio
    BY <1>3, ObjectsDiffer DEF Does, Shift
  <2> QED  BY <1>3, <2>2, <2>3 DEF Mqueue, MqueueIsr, SameMutexes
<1>4. CASE (Mutexes(t)) /\ Does(t, MutexStep, Mutex)
  BY <1>4 DEF Does
<1>5. CASE (Events(t) \/ EventIsr) /\ Does(t, EventStep, {Event})
  <2>1. /\ MutexStep \cap (EventStep \cup WaitStep) = {}
        /\ Mutex \subseteq Obj \ {Event}
    BY StepsDiffer, ObjectsDiffer, WaitFacts
  <2>2. Aside(MutexStep, Mutex)
    BY <1>5, <2>1, DoesAside
  <2>3. k'.prio = k.prio
    BY <1>5, ObjectsDiffer DEF Does, Shift
  <2> QED  BY <1>5, <2>2, <2>3 DEF Events, EventIsr, SameMutexes
<1>6. CASE (Mpool(t) \/ MpoolIsr) /\ Does(t, MpoolStep, {Pool})
  <2>1. /\ MutexStep \cap (MpoolStep \cup WaitStep) = {}
        /\ Mutex \subseteq Obj \ {Pool}
    BY StepsDiffer, ObjectsDiffer, WaitFacts
  <2>2. Aside(MutexStep, Mutex)
    BY <1>6, <2>1, DoesAside
  <2>3. k'.prio = k.prio
    BY <1>6, ObjectsDiffer DEF Does, Shift
  <2> QED  BY <1>6, <2>2, <2>3 DEF Mpool, MpoolIsr, SameMutexes
<1>7. CASE KernelWork /\ Does(t, {}, {})
  <2>1. MutexStep \cap ({} \cup WaitStep) = {} /\ Mutex \subseteq Obj \ {}
    BY StepsDiffer, WaitFacts
  <2>2. Aside(MutexStep, Mutex)
    BY <1>7, <2>1, DoesAside
  <2>3. k'.prio = k.prio
    BY <1>7 DEF Does, Shift
  <2> QED  BY <1>7, <2>2, <2>3 DEF KernelWork, SameObjects, SameMutexes
<1> QED
  BY <1>1, <1>2, <1>3, <1>4, <1>5, <1>6, <1>7

(* For the event.                                                         *)
LEMMA EventNext ==
    ASSUME WaitInv, Next
    PROVE  \/ \E t \in Task : (Events(t) \/ EventIsr) /\ Shift(t, {Event})
           \/ Aside(EventStep, {Event}) /\ UNCHANGED evset
<1>1. PICK t \in Task :
             \/ (Mbox(t) \/ MboxIsr) /\ Does(t, MboxStep, {Recv, Send})
             \/ (Mqueue(t) \/ MqueueIsr) /\ Does(t, MqueueStep, {Queue})
             \/ Mutexes(t) /\ Does(t, MutexStep, Mutex)
             \/ (Events(t) \/ EventIsr) /\ Does(t, EventStep, {Event})
             \/ (Mpool(t) \/ MpoolIsr) /\ Does(t, MpoolStep, {Pool})
             \/ KernelWork /\ Does(t, {}, {})
  BY NextDoes
<1>2. CASE (Mbox(t) \/ MboxIsr) /\ Does(t, MboxStep, {Recv, Send})
  <2>1. /\ EventStep \cap (MboxStep \cup WaitStep) = {}
        /\ {Event} \subseteq Obj \ {Recv, Send}
    BY StepsDiffer, ObjectsDiffer, WaitFacts
  <2>2. Aside(EventStep, {Event})
    BY <1>2, <2>1, DoesAside
  <2> QED  BY <1>2, <2>2 DEF Mbox, MboxIsr, SameEvent
<1>3. CASE (Mqueue(t) \/ MqueueIsr) /\ Does(t, MqueueStep, {Queue})
  <2>1. /\ EventStep \cap (MqueueStep \cup WaitStep) = {}
        /\ {Event} \subseteq Obj \ {Queue}
    BY StepsDiffer, ObjectsDiffer, WaitFacts
  <2>2. Aside(EventStep, {Event})
    BY <1>3, <2>1, DoesAside
  <2> QED  BY <1>3, <2>2 DEF Mqueue, MqueueIsr, SameEvent
<1>4. CASE Mutexes(t) /\ Does(t, MutexStep, Mutex)
  <2>1. /\ EventStep \cap (MutexStep \cup WaitStep) = {}
        /\ {Event} \subseteq Obj \ Mutex
    BY StepsDiffer, ObjectsDiffer, WaitFacts
  <2>2. Aside(EventStep, {Event})
    BY <1>4, <2>1, DoesAside
  <2> QED  BY <1>4, <2>2 DEF Mutexes, SameEvent
<1>5. CASE (Events(t) \/ EventIsr) /\ Does(t, EventStep, {Event})
  BY <1>5 DEF Does
<1>6. CASE (Mpool(t) \/ MpoolIsr) /\ Does(t, MpoolStep, {Pool})
  <2>1. /\ EventStep \cap (MpoolStep \cup WaitStep) = {}
        /\ {Event} \subseteq Obj \ {Pool}
    BY StepsDiffer, ObjectsDiffer, WaitFacts
  <2>2. Aside(EventStep, {Event})
    BY <1>6, <2>1, DoesAside
  <2> QED  BY <1>6, <2>2 DEF Mpool, MpoolIsr, SameEvent
<1>7. CASE KernelWork /\ Does(t, {}, {})
  <2>1. EventStep \cap ({} \cup WaitStep) = {} /\ {Event} \subseteq Obj \ {}
    BY StepsDiffer, WaitFacts
  <2>2. Aside(EventStep, {Event})
    BY <1>7, <2>1, DoesAside
  <2> QED  BY <1>7, <2>2 DEF KernelWork, SameObjects, SameEvent
<1> QED
  BY <1>1, <1>2, <1>3, <1>4, <1>5, <1>6, <1>7

(* For the memory pool.                                                   *)
LEMMA MpoolNext ==
    ASSUME WaitInv, Next
    PROVE  \/ \E t \in Task : (Mpool(t) \/ MpoolIsr) /\ Shift(t, {Pool})
           \/ Aside(MpoolStep, {Pool}) /\ UNCHANGED <<mp, own>>
<1>1. PICK t \in Task :
             \/ (Mbox(t) \/ MboxIsr) /\ Does(t, MboxStep, {Recv, Send})
             \/ (Mqueue(t) \/ MqueueIsr) /\ Does(t, MqueueStep, {Queue})
             \/ Mutexes(t) /\ Does(t, MutexStep, Mutex)
             \/ (Events(t) \/ EventIsr) /\ Does(t, EventStep, {Event})
             \/ (Mpool(t) \/ MpoolIsr) /\ Does(t, MpoolStep, {Pool})
             \/ KernelWork /\ Does(t, {}, {})
  BY NextDoes
<1>2. CASE (Mbox(t) \/ MboxIsr) /\ Does(t, MboxStep, {Recv, Send})
  <2>1. /\ MpoolStep \cap (MboxStep \cup WaitStep) = {}
        /\ {Pool} \subseteq Obj \ {Recv, Send}
    BY StepsDiffer, ObjectsDiffer, WaitFacts
  <2>2. Aside(MpoolStep, {Pool})
    BY <1>2, <2>1, DoesAside
  <2> QED  BY <1>2, <2>2 DEF Mbox, MboxIsr, SameMpool
<1>3. CASE (Mqueue(t) \/ MqueueIsr) /\ Does(t, MqueueStep, {Queue})
  <2>1. /\ MpoolStep \cap (MqueueStep \cup WaitStep) = {}
        /\ {Pool} \subseteq Obj \ {Queue}
    BY StepsDiffer, ObjectsDiffer, WaitFacts
  <2>2. Aside(MpoolStep, {Pool})
    BY <1>3, <2>1, DoesAside
  <2> QED  BY <1>3, <2>2 DEF Mqueue, MqueueIsr, SameMpool
<1>4. CASE Mutexes(t) /\ Does(t, MutexStep, Mutex)
  <2>1. /\ MpoolStep \cap (MutexStep \cup WaitStep) = {}
        /\ {Pool} \subseteq Obj \ Mutex
    BY StepsDiffer, ObjectsDiffer, WaitFacts
  <2>2. Aside(MpoolStep, {Pool})
    BY <1>4, <2>1, DoesAside
  <2> QED  BY <1>4, <2>2 DEF Mutexes, SameMpool
<1>5. CASE (Events(t) \/ EventIsr) /\ Does(t, EventStep, {Event})
  <2>1. /\ MpoolStep \cap (EventStep \cup WaitStep) = {}
        /\ {Pool} \subseteq Obj \ {Event}
    BY StepsDiffer, ObjectsDiffer, WaitFacts
  <2>2. Aside(MpoolStep, {Pool})
    BY <1>5, <2>1, DoesAside
  <2> QED  BY <1>5, <2>2 DEF Events, EventIsr, SameMpool
<1>6. CASE (Mpool(t) \/ MpoolIsr) /\ Does(t, MpoolStep, {Pool})
  BY <1>6 DEF Does
<1>7. CASE KernelWork /\ Does(t, {}, {})
  <2>1. MpoolStep \cap ({} \cup WaitStep) = {} /\ {Pool} \subseteq Obj \ {}
    BY StepsDiffer, WaitFacts
  <2>2. Aside(MpoolStep, {Pool})
    BY <1>7, <2>1, DoesAside
  <2> QED  BY <1>7, <2>2 DEF KernelWork, SameObjects, SameMpool
<1> QED
  BY <1>1, <1>2, <1>3, <1>4, <1>5, <1>6, <1>7

-----------------------------------------------------------------------------
(* The event                                                               *)

(* Fewer tasks wait, with what they asked for, and no bit is new.          *)
LEMMA VainLess ==
    ASSUME NobodyWaitsInVain, Waiters(Event)' \subseteq Waiters(Event),
           \A u \in Waiters(Event)' : val'[u] = val[u],
           evset' \subseteq evset
    PROVE  NobodyWaitsInVain'
<1>1. ASSUME NEW u \in Waiters(Event)'
      PROVE  ~Satisfied(val[u].set, val[u].info, evset)
  BY <1>1 DEF NobodyWaitsInVain
<1>2. ASSUME NEW u \in Waiters(Event)'
      PROVE  ~Satisfied(val[u].set, val[u].info, evset')
  BY <1>1, SatisfiedLess
<1> QED  BY <1>2 DEF NobodyWaitsInVain

(* os_event_put serves everybody who can be served.                        *)
LEMMA VainPut ==
    ASSUME WaitInv, k.isr = 0, NEW t \in Task, k.stat[t] = "READY",
           UNCHANGED <<pc, arg, since, todo>>,
           resched' \in {resched, resched \cup {t}},
           NEW s, NEW e, e = Served(s), k' \in {e.k, Sched(e.k)}, val' = e.val,
           evset' = e.set, mx' = mx, mb' = mb
    PROVE  NobodyWaitsInVain'
<1>1. \A u \in Waiters(Event)' :
         /\ ~Satisfied(val[u].set, val[u].info, e.set)
         /\ val'[u] = val[u]
  BY ServedShift
<1> QED  BY <1>1 DEF NobodyWaitsInVain

(* os_event_wait begins to wait only when the bits are not there.          *)
LEMMA VainWait ==
    ASSUME WaitInv, NobodyWaitsInVain, NEW t \in Task, NEW s, NEW i,
           NEW d \in 0..Forever, EventWait(t, s, i, d)
    PROVE  NobodyWaitsInVain'
<1>1. /\ k.cur = t /\ k.isr = 0 /\ t \notin resched /\ t # Idle /\ Works(k)
      /\ val' = [val EXCEPT ![t] = [set |-> s, info |-> i]] /\ evset' = evset
      /\ ~Satisfied(s, i, evset) /\ k' = WaitIn(k, Event, t, d)
      /\ val \in [Task -> Val \cup {NoVal}] /\ Event \in Obj
      /\ Waiters(Event) \subseteq Task
  BY WaitFacts DEF EventWait, Calls, At, BeginWait
<1>2. d \in Nat /\ k.stat[t] = "READY"
  BY <1>1, WaitAssumption, ActorFree
<1>3. Begins(k, k', {Event}, t)
  BY <1>1, <1>2, WaitInBegins
<1>4. Waiters(Event)' = Waiters(Event) \cup {t} /\ t \notin Waiters(Event)
  BY <1>1, <1>3, ActorFree DEF Begins, Waiters
<1>5. \A u \in Waiters(Event) : u # t /\ val'[u] = val[u]
  BY <1>1, <1>4
<1>6. val'[t].set = s /\ val'[t].info = i
  BY <1>1
<1>7. ASSUME NEW u \in Waiters(Event)'
      PROVE  ~Satisfied(val'[u].set, val'[u].info, evset')
  <2>1. CASE u = t
    BY <1>1, <1>6, <2>1
  <2>2. CASE u # t
    BY <1>1, <1>4, <1>5, <2>2 DEF NobodyWaitsInVain
  <2> QED  BY <2>1, <2>2
<1> QED  BY <1>7 DEF NobodyWaitsInVain

(* Every step keeps the bits from those who wait for others.               *)
LEMMA VainStep ==
    ASSUME WaitInv, NobodyWaitsInVain, Next
    PROVE  NobodyWaitsInVain'
<1>1. CASE Aside(EventStep, {Event}) /\ UNCHANGED evset
  <2>1. Waiters(Event)' \subseteq Waiters(Event)
    BY <1>1 DEF Aside
  <2>2. \A u \in Waiters(Event) : u \in Task /\ pc[u] = "evBack"
    BY WaitFacts, ObjectsDiffer DEF WaitInv, PlacesOK, Place
  <2>3. \A u \in Waiters(Event)' : val'[u] = val[u]
    BY <1>1, <2>1, <2>2 DEF Aside, EventStep
  <2> QED  BY <1>1, <2>1, <2>3, VainLess
<1>2. ASSUME NEW t \in Task, (Events(t) \/ EventIsr) /\ Shift(t, {Event})
      PROVE  NobodyWaitsInVain'
  <2>1. mx' = mx /\ mb' = mb /\ Idle \in Task /\ k.stat[Idle] = "READY"
    BY <1>2, WaitFacts DEF Events, EventIsr, SameMutexes, SameMbox
  <2>2. CASE EventIsr
    <3>1. PICK s : EventIsrPut(s)
      BY <2>2 DEF EventIsr
    <3>2. PICK e : e = Served(s)
      OBVIOUS
    <3>3. /\ k.isr = 0 /\ UNCHANGED <<pc, arg, since, todo>> /\ resched' = resched
          /\ k' \in {e.k, Sched(e.k)} /\ val' = e.val /\ evset' = e.set
      BY <3>1, <3>2 DEF EventIsrPut
    <3> QED  BY <2>1, <3>2, <3>3, VainPut
  <2>3. ASSUME NEW s, EventPut(t, s)
        PROVE  NobodyWaitsInVain'
    <3>1. PICK e : e = Served(s)
      OBVIOUS
    <3>2. /\ k.isr = 0 /\ UNCHANGED <<pc, arg, since, todo>>
          /\ k' \in {e.k, Sched(e.k)} /\ val' = e.val /\ evset' = e.set
          /\ resched' \in {resched, resched \cup {t}}
          /\ k.cur = t /\ t \notin resched
      BY <2>3, <3>1 DEF EventPut, Calls, At, ThenSched
    <3>3. k.stat[t] = "READY"
      BY <3>2, ActorFree
    <3> QED  BY <2>1, <3>1, <3>2, <3>3, VainPut
  <2>4. ASSUME NEW s, NEW i, EventGet(t, s, i)
        PROVE  NobodyWaitsInVain'
    <3>1. k'.pend = k.pend /\ val' = val /\ evset' \subseteq evset
      BY <2>4, WaitFacts DEF EventGet, Kernel
    <3> QED  BY <3>1, VainLess DEF Waiters
  <2>5. CASE EventPoll(t) \/ EventReturn(t) \/ EventDelete(t)
    <3>1. k'.pend = k.pend /\ evset' = evset
      BY <2>5, WaitFacts DEF EventPoll, EventReturn, EventDelete, ResumeLists, Kernel
    <3>2. \A u \in Waiters(Event) : u \in Task /\ u # t
      BY <2>5, WaitFacts, ActorFree DEF EventPoll, EventReturn, EventDelete, Calls, At
    <3>3. \A u \in Waiters(Event) : val'[u] = val[u]
      BY <2>5, <3>2, WaitFacts DEF EventPoll, EventReturn, EventDelete, ResumeLists, Finish
    <3> QED  BY <3>1, <3>3, VainLess DEF Waiters
  <2>6. ASSUME NEW s, NEW i, NEW d \in 0..Forever, EventWait(t, s, i, d)
        PROVE  NobodyWaitsInVain'
    BY <2>6, VainWait
  <2>7. ASSUME NEW s, EventReset(t, s)
        PROVE  NobodyWaitsInVain'
    <3>1. k' = ListResumeAll(k, Event) /\ k.isr = 0 /\ Works(k) /\ Event \in Obj
      BY <2>7, WaitFacts DEF EventReset, Calls, At
    <3>2. k'.pend[Event] = <<>>
      BY <3>1, ResumeAllEnds
    <3>3. Waiters(Event)' = {}
      BY <3>2, EmptyList DEF Waiters
    <3> QED  BY <3>3 DEF NobodyWaitsInVain
  <2>8. EventTimeout \subseteq 0..Forever
    BY ObjectsAssumption
  <2> QED
    BY <1>2, <2>2, <2>3, <2>4, <2>5, <2>6, <2>7, <2>8
       DEF Events, EventCall, EventContinue
<1> QED  BY <1>1, <1>2, EventNext

(* No task waits for bits that are set: whatever the tasks before it in    *)
(* the list were given, and whoever else the kernel runs meanwhile.        *)
THEOREM NobodyInVain ==
    ASSUME IsFiniteSet(Task)
    PROVE  Spec => []NobodyWaitsInVain
<1>1. Init => NobodyWaitsInVain
  <2>1. SUFFICES ASSUME Init PROVE Waiters(Event) = {}
    BY DEF NobodyWaitsInVain
  <2>2. k.pend[Event] = <<>>
    BY <2>1, WaitFirst, EventAssumption
  <2> QED  BY <2>2, EmptyList DEF Waiters
<1>2. WaitInv /\ NobodyWaitsInVain /\ [Next]_vars => NobodyWaitsInVain'
  <2>1. UNCHANGED vars /\ NobodyWaitsInVain => NobodyWaitsInVain'
    BY DEF vars, NobodyWaitsInVain, Waiters
  <2> QED  BY <2>1, VainStep
<1> QED  BY <1>1, <1>2, WaitInductive, PTL DEF Spec

-----------------------------------------------------------------------------
(* The stack of the mutexes that a task has taken                          *)

(* What Pop takes out of a stack.                                          *)
LEMMA LastIndexOK ==
    ASSUME NEW S, NEW s \in Seq(S), NEW m, m \in ToSet(s)
    PROVE  /\ LastIndex(s, m) \in 1..Len(s) /\ s[LastIndex(s, m)] = m
           /\ m = s[Len(s)] => LastIndex(s, m) = Len(s)
<1> DEFINE n == Len(s)
           P(i) == i \in Nat /\ n - i \in DOMAIN s /\ s[n - i] = m
<1>1. n \in Nat /\ DOMAIN s = 1..n
  OBVIOUS
<1>2. PICK h \in 1..n : s[h] = m
  BY <1>1 DEF ToSet
<1>3. P(n - h)
  BY <1>1, <1>2
<1> DEFINE A == {i \in Nat : P(i)}
<1>4. PICK i \in A : \A j \in A : i <= j
  <2>1. A \subseteq Nat /\ A # {}
    BY <1>3
  <2> HIDE DEF A, P
  <2> QED  BY <2>1, LeastNatural
<1>5. n - i \in DOMAIN s /\ s[n - i] = m /\ i \in Nat
  BY <1>4
<1>6. \A j \in DOMAIN s : s[j] = m => j <= n - i
  <2>1. ASSUME NEW j \in DOMAIN s, s[j] = m
        PROVE  j <= n - i
    <3>1. n - j \in A
      BY <1>1, <2>1
    <3>2. i <= n - j
      BY <1>4, <3>1
    <3> QED  BY <1>1, <1>5, <3>2
  <2> QED  BY <2>1
<1> DEFINE L == LastIndex(s, m)
<1>7. L \in DOMAIN s /\ s[L] = m /\ \A j \in DOMAIN s : s[j] = m => j <= L
  BY <1>5, <1>6 DEF LastIndex
<1> QED  BY <1>1, <1>7

-----------------------------------------------------------------------------
(* The owner of a mutex                                                    *)

(* The parts of MutexInv that are about one task.                          *)
HeldOK(m, t) ==
    IF mx[m].owner = t
    THEN mx[m].hold = Count(stack[t], m) + IF Handed(t, m) THEN 1 ELSE 0
    ELSE Count(stack[t], m) = 0

BackOK(t) ==
    pc[t] = "mxBack" =>
        /\ val[t] \in Mutex
        /\ IF t \in Waiters(val[t]) THEN mx[val[t]].owner \notin {t, NoTask}
           ELSE k.error[t] = "OS_OK" <=> mx[val[t]].owner = t

HoldForm(m) == /\ \A t \in Task : HeldOK(m, t)
               /\ Waiters(m) # {} => mx[m].owner # NoTask
               /\ mx[m].hold = 0 <=> mx[m].owner = NoTask

(* What the proofs below take from the invariant,                          *)
LEMMA MutexFacts ==
    ASSUME MutexInv
    PROVE  /\ \A m \in Mutex : HoldForm(m)
           /\ \A t \in Task : BackOK(t)
           /\ stack \in [Task -> Seq(Mutex)]
BY DEF MutexInv, HoldExact, Taken, HoldForm, HeldOK, Count, BackOK

Forms == /\ OwnersOK /\ stack \in [Task -> Seq(Mutex)]
         /\ \A m \in Mutex : HoldForm(m)
         /\ \A t \in Task : BackOK(t)

(* and how it is put together again.                                       *)
LEMMA MutexMake == Forms => MutexInv
<1> SUFFICES ASSUME Forms PROVE MutexInv
  OBVIOUS
<1>1. HoldExact
  BY DEF Forms, HoldExact, OwnersOK, Taken, HoldForm, HeldOK, Count
<1>2. /\ \A m \in Mutex : mx[m].hold = 0 <=> mx[m].owner = NoTask
      /\ \A t \in Task : pc[t] = "mxBack" =>
            /\ val[t] \in Mutex
            /\ IF t \in Waiters(val[t]) THEN mx[val[t]].owner \notin {t, NoTask}
               ELSE k.error[t] = "OS_OK" <=> mx[val[t]].owner = t
  BY DEF Forms, HoldForm, BackOK
<1> QED  BY <1>1, <1>2 DEF Forms, MutexInv

(* A task that is back from its wait runs, or could.                       *)
LEMMA BackReady ==
    ASSUME WaitInv, NEW t \in Task, pc[t] = "mxBack", t \notin Waiters(val[t])
    PROVE  k.stat[t] = "READY"
<1>1. \A o \in Obj : t \notin Waiters(o)
  BY ObjectsDiffer DEF WaitInv, PlacesOK, Place
<1> QED  BY <1>1 DEF WaitInv, Works, SleepersOK

(* A step of t that wakes at most the tasks of W: the others keep what     *)
(* they had, and only t begins to wait.                                    *)
Calm(t, W) ==
    /\ \A u \in Task \ {t} :
          /\ pc'[u] = pc[u]
          /\ pc[u] = "mxBack" => val'[u] = val[u]
          /\ k.stat[u] = "READY" => k'.error[u] = k.error[u]
          /\ stack'[u] = stack[u]
    /\ \A m \in Mutex :
          /\ Waiters(m)' \subseteq Waiters(m) \cup {t}
          /\ \A u \in Waiters(m) \ Waiters(m)' : u \notin W => k'.error[u] # "OS_OK"

(* A step that moves nobody who waits for a mutex.                         *)
LEMMA ShiftCalm ==
    ASSUME WaitInv, NEW t, Shift(t, {}), \A u \in Task \ {t} : stack'[u] = stack[u]
    PROVE  Calm(t, {})
<1>1. \A m \in Mutex : m \in Obj \ {}
  BY MutexAssumption
<1> QED  BY <1>1 DEF Shift, Calm

(* A task that comes back from its wait moves nobody else.                 *)
LEMMA BackCalm ==
    ASSUME WaitInv, NEW t, NEW W, Calm(t, W), NEW u \in Task \ ({t} \cup W), BackOK(u),
           \A m \in Mutex : /\ mx'[m].owner = u <=> mx[m].owner = u
                            /\ Waiters(m) # {} => mx'[m].owner # NoTask
    PROVE  BackOK(u)'
<1>1. SUFFICES ASSUME pc'[u] = "mxBack"
               PROVE  /\ val'[u] \in Mutex
                      /\ IF u \in Waiters(val[u])' THEN mx'[val'[u]].owner \notin {u, NoTask}
                         ELSE k'.error[u] = "OS_OK" <=> mx'[val'[u]].owner = u
  BY DEF BackOK
<1>2. PICK m \in Mutex : m = val[u]
  BY <1>1 DEF BackOK, Calm
<1>3. /\ pc[u] = "mxBack" /\ val'[u] = m
      /\ IF u \in Waiters(m) THEN mx[m].owner \notin {u, NoTask}
         ELSE k.error[u] = "OS_OK" <=> mx[m].owner = u
      /\ mx'[m].owner = u <=> mx[m].owner = u
      /\ Waiters(m) # {} => mx'[m].owner # NoTask
      /\ u \in Waiters(m)' => u \in Waiters(m)
      /\ u \in Waiters(m) => u \in Waiters(m)' \/ k'.error[u] # "OS_OK"
      /\ k.stat[u] = "READY" => k'.error[u] = k.error[u]
  BY <1>1, <1>2 DEF BackOK, Calm
<1>4. Waiters(val[u])' = Waiters(m)'
  BY <1>3 DEF Waiters
<1>5. u \notin Waiters(m) => k'.error[u] = k.error[u]
  BY <1>2, <1>3, BackReady
<1> QED  BY <1>3, <1>4, <1>5

(* The mutexes after a step of t that hands none over.                     *)
LEMMA MutexCalm ==
    ASSUME WaitInv, WaitInv', MutexInv, NEW t \in Task, Calm(t, {}),
           stack' \in [Task -> Seq(Mutex)], pc'[t] # "mxBack",
           \A m \in Mutex :
              /\ \A u \in Task \ {t} :
                    /\ mx'[m].owner = u <=> mx[m].owner = u
                    /\ mx[m].owner = u => mx'[m].hold = mx[m].hold
              /\ mx'[m].hold = 0 <=> mx'[m].owner = NoTask
              /\ Waiters(m) # {} => mx'[m].owner # NoTask
              /\ Count(stack'[t], m) = IF mx'[m].owner = t THEN mx'[m].hold ELSE 0,
           \A m \in Mutex : mx'[m].hold \in Nat
    PROVE  MutexInv'
<1>1. /\ \A m \in Mutex : HoldForm(m)
      /\ \A u \in Task : BackOK(u)
  BY MutexFacts
<1>2. \A u \in Task : BackOK(u)'
  <2>1. BackOK(t)'
    BY DEF BackOK
  <2>2. \A u \in Task \ {t} : BackOK(u)'
    BY <1>1, BackCalm
  <2> QED  BY <2>1, <2>2
<1>3. ASSUME NEW m \in Mutex, NEW u \in Task \ {t}
      PROVE  HeldOK(m, u)'
  <2>1. stack'[u] = stack[u] /\ HeldOK(m, u)
    BY <1>1, <1>3 DEF Calm, HoldForm
  <2>2. mx[m].owner = u => Handed(u, m)' = Handed(u, m)
    BY <1>3 DEF Handed, Calm
  <2> QED  BY <1>3, <2>1, <2>2 DEF HeldOK
<1>4. ASSUME NEW m \in Mutex
      PROVE  HeldOK(m, t)'
  <2>1. ~Handed(t, m)' /\ mx'[m].hold \in Nat
    BY DEF Handed
  <2>2. mx'[m].hold = mx'[m].hold + 0
    BY <2>1
  <2> QED  BY <1>4, <2>1, <2>2 DEF HeldOK
<1>5. \A m \in Mutex : HoldForm(m)'
  <2>1. ASSUME NEW m \in Mutex
        PROVE  HoldForm(m)'
    <3>1. \A u \in Task : HeldOK(m, u)'
      BY <1>3, <1>4
    <3>2. Waiters(m)' # {} => mx'[m].owner # NoTask
      <4>1. m \in Obj
        BY MutexAssumption
      <4>2. t \notin Waiters(m)'
        BY <4>1, ObjectsDiffer DEF WaitInv, PlacesOK, Place
      <4> QED  BY <4>2 DEF Calm
    <3> QED  BY <3>1, <3>2 DEF HoldForm
  <2> QED  BY <2>1
<1>6. OwnersOK'
  BY DEF WaitInv
<1>7. Forms'
  BY <1>2, <1>5, <1>6 DEF Forms
<1> QED  BY <1>7, MutexMake, PTL

(* A step of the other functions.                                          *)
LEMMA MutexAside ==
    ASSUME WaitInv, WaitInv', MutexInv, Aside(MutexStep, Mutex), UNCHANGED <<mx, stack>>
    PROVE  MutexInv'
<1>1. /\ \A m \in Mutex : HoldForm(m)
      /\ \A u \in Task : BackOK(u)
      /\ stack \in [Task -> Seq(Mutex)]
  BY MutexFacts
<1>2. ASSUME NEW u \in Task
      PROVE  BackOK(u)'
  <2>1. SUFFICES ASSUME pc'[u] = "mxBack"
                 PROVE  /\ val'[u] \in Mutex
                        /\ IF u \in Waiters(val[u])' THEN mx[val'[u]].owner \notin {u, NoTask}
                           ELSE k'.error[u] = "OS_OK" <=> mx[val'[u]].owner = u
    BY DEF BackOK
  <2>2. /\ pc[u] = "mxBack" /\ val'[u] = val[u]
        /\ k.stat[u] = "READY" => k'.error[u] = k.error[u]
    BY <2>1 DEF Aside, MutexStep
  <2>3. PICK m \in Mutex : m = val[u]
    BY <1>1, <2>2 DEF BackOK
  <2>4. /\ IF u \in Waiters(m) THEN mx[m].owner \notin {u, NoTask}
           ELSE k.error[u] = "OS_OK" <=> mx[m].owner = u
        /\ Waiters(m)' \subseteq Waiters(m)
        /\ \A v \in Waiters(m) \ Waiters(m)' : k'.error[v] # "OS_OK"
    BY <1>1, <2>2, <2>3 DEF BackOK, Aside
  <2>5. Waiters(val[u])' = Waiters(m)'
    BY <2>2, <2>3 DEF Waiters
  <2>6. u \notin Waiters(m) => k'.error[u] = k.error[u]
    BY <2>2, <2>3, BackReady
  <2> QED  BY <2>2, <2>3, <2>4, <2>5, <2>6
<1>3. ASSUME NEW m \in Mutex
      PROVE  HoldForm(m)'
  <2>1. HoldForm(m)
    BY <1>1
  <2>2. \A u \in Task : Handed(u, m)' = Handed(u, m)
    BY DEF Handed, Aside, MutexStep
  <2>3. \A u \in Task : HeldOK(m, u)'
    BY <2>1, <2>2 DEF HoldForm, HeldOK
  <2>4. Waiters(m)' \subseteq Waiters(m)
    BY DEF Aside
  <2> QED  BY <2>1, <2>3, <2>4 DEF HoldForm
<1>4. OwnersOK'
  BY DEF WaitInv
<1>5. Forms'
  BY <1>1, <1>2, <1>3, <1>4 DEF Forms
<1> QED  BY <1>5, MutexMake, PTL

(* A task that is at no os_mutex_take owns what its stack says.            *)
LEMMA OwnsCount ==
    ASSUME MutexInv, NEW t \in Task, \A x \in Mutex : ~Handed(t, x), NEW m \in Mutex
    PROVE  /\ Count(stack[t], m) = IF mx[m].owner = t THEN mx[m].hold ELSE 0
           /\ Count(stack[t], m) \in Nat /\ stack[t] \in Seq(Mutex)
<1>1. /\ HeldOK(m, t) /\ stack \in [Task -> Seq(Mutex)] /\ ~Handed(t, m)
  BY MutexFacts DEF HoldForm
<1>2. Count(stack[t], m) \in Nat
  BY <1>1, CountNat
<1> QED  BY <1>1, <1>2 DEF HeldOK

(* The calls that change at most the error of the task.                    *)
LEMMA MutexSame ==
    ASSUME WaitInv, WaitInv', MutexInv, NEW t \in Task, Shift(t, {}),
           UNCHANGED <<mx, stack>>, pc'[t] # "mxBack", \A m \in Mutex : ~Handed(t, m)
    PROVE  MutexInv'
<1>1. Calm(t, {})
  BY ShiftCalm
<1>2. /\ stack \in [Task -> Seq(Mutex)] /\ \A m \in Mutex : HoldForm(m)
  BY MutexFacts
<1>3. \A m \in Mutex :
         /\ Count(stack[t], m) = IF mx[m].owner = t THEN mx[m].hold ELSE 0
         /\ mx[m].hold \in Nat
  BY OwnsCount, OwnersFacts
<1> QED  BY <1>1, <1>2, <1>3, MutexCalm DEF HoldForm

(* The calls that change hold or the owner, and the stack of the task.     *)
LEMMA MutexSet ==
    ASSUME WaitInv, WaitInv', MutexInv, NEW t \in Task, NEW m \in Mutex, Calm(t, {}),
           pc'[t] # "mxBack", NEW q \in Seq(Mutex), stack' = [stack EXCEPT ![t] = q],
           \A x \in Mutex \ {m} : /\ mx'[x] = mx[x] /\ ~Handed(t, x)
                                  /\ Count(q, x) = Count(stack[t], x),
           mx[m].owner \in {t, NoTask}, mx'[m].owner \in {t, NoTask},
           Waiters(m) # {} => mx'[m].owner = t,
           mx'[m].hold = 0 <=> mx'[m].owner = NoTask,
           Count(q, m) = IF mx'[m].owner = t THEN mx'[m].hold ELSE 0,
           mx'[m].hold \in Nat
    PROVE  MutexInv'
<1>1. /\ stack \in [Task -> Seq(Mutex)]
      /\ \A x \in Mutex : HoldForm(x) /\ HeldOK(x, t)
      /\ NoTask \notin Task
  BY MutexFacts, KernelAssumption DEF HoldForm
<1>2. stack' \in [Task -> Seq(Mutex)] /\ stack'[t] = q
  BY <1>1
<1>3. \A x \in Mutex : /\ mx[x].hold \in Nat /\ Count(stack[t], x) \in Nat
  BY <1>1, OwnersFacts, CountNat
<1>4. ASSUME NEW x \in Mutex \ {m}
      PROVE  /\ \A u \in Task \ {t} :
                   /\ mx'[x].owner = u <=> mx[x].owner = u
                   /\ mx[x].owner = u => mx'[x].hold = mx[x].hold
             /\ mx'[x].hold = 0 <=> mx'[x].owner = NoTask
             /\ Waiters(x) # {} => mx'[x].owner # NoTask
             /\ Count(stack'[t], x) = IF mx'[x].owner = t THEN mx'[x].hold ELSE 0
             /\ mx'[x].hold \in Nat
  <2>1. Count(stack[t], x) = IF mx[x].owner = t THEN mx[x].hold ELSE 0
    BY <1>1, <1>3, <1>4 DEF HeldOK
  <2>2. mx'[x] = mx[x] /\ Count(stack'[t], x) = Count(stack[t], x)
    BY <1>2, <1>4
  <2>3. HoldForm(x)
    BY <1>1
  <2> QED  BY <1>3, <2>1, <2>2, <2>3 DEF HoldForm
<1>5. /\ \A u \in Task \ {t} :
            /\ mx'[m].owner = u <=> mx[m].owner = u
            /\ mx[m].owner = u => mx'[m].hold = mx[m].hold
      /\ mx'[m].hold = 0 <=> mx'[m].owner = NoTask
      /\ Waiters(m) # {} => mx'[m].owner # NoTask
      /\ Count(stack'[t], m) = IF mx'[m].owner = t THEN mx'[m].hold ELSE 0
      /\ mx'[m].hold \in Nat
  BY <1>1, <1>2
<1> QED  BY <1>2, <1>4, <1>5, MutexCalm

(* Nobody waits for a mutex that has no owner.                             *)
LEMMA FreeMutex ==
    ASSUME WaitInv, MutexInv, NEW m \in Mutex, NEW t \in Task
    PROVE  /\ mx[m].value > 0 <=> mx[m].owner = NoTask
           /\ mx[m].value = 0 <=> mx[m].owner # NoTask
           /\ mx[m].owner = NoTask => Waiters(m) = {} /\ mx[m].hold = 0
           /\ t # NoTask
BY OwnersFacts, MutexFacts DEF HoldForm

(* A task takes a mutex that nobody has.                                   *)
LEMMA TakenOK ==
    ASSUME WaitInv, WaitInv', MutexInv, NEW t \in Task, NEW m \in Mutex,
           Shift(t, {}), MutexTakeAgain(t, m) \/ MutexTakeFree(t, m)
    PROVE  MutexInv'
<1>1. /\ pc[t] = "app" /\ pc' = pc /\ stack' = [stack EXCEPT ![t] = Append(@, m)]
      /\ stack \in [Task -> Seq(Mutex)] /\ \A x \in Mutex : ~Handed(t, x)
      /\ mx \in [Mutex -> Fields] /\ mx[m].hold \in Nat
  BY MutexFacts, OwnersFacts
     DEF MutexTakeAgain, MutexTakeFree, Calls, At, Push, Handed, OwnersOK, Fields
<1>2. PICK q \in Seq(Mutex) : /\ q = Append(stack[t], m)
                              /\ stack' = [stack EXCEPT ![t] = q]
  <2> DEFINE q == Append(stack[t], m)
  <2>1. q \in Seq(Mutex) /\ stack' = [stack EXCEPT ![t] = q]
    BY <1>1
  <2> QED  BY <2>1
<1>3. Calm(t, {})
  BY <1>1, <1>2, ShiftCalm
<1>4. /\ \A x \in Mutex \ {m} : mx'[x] = mx[x]
      /\ mx'[m].owner = t /\ mx'[m].hold = mx[m].hold + 1
  BY <1>1 DEF MutexTakeAgain, MutexTakeFree, Fields
<1>5. mx[m].owner \in {t, NoTask} /\ (mx[m].owner # t => mx[m].hold = 0)
  BY FreeMutex DEF MutexTakeAgain, MutexTakeFree
<1>6. \A x \in Mutex : /\ Count(stack[t], x) = IF mx[x].owner = t THEN mx[x].hold ELSE 0
                       /\ Count(stack[t], x) \in Nat
  BY <1>1, OwnsCount
<1>7. \A x \in Mutex : Count(q, x) = Count(stack[t], x) + IF x = m THEN 1 ELSE 0
  BY <1>1, <1>2, CountAppend
<1>8. /\ \A x \in Mutex \ {m} : Count(q, x) = Count(stack[t], x)
      /\ Count(q, m) = mx[m].hold + 1
  BY <1>1, <1>5, <1>6, <1>7
<1>9. mx'[m].hold \in Nat /\ mx'[m].hold # 0 /\ t # NoTask
  BY <1>1, <1>4, FreeMutex
<1>10. /\ \A x \in Mutex \ {m} : /\ mx'[x] = mx[x] /\ ~Handed(t, x)
                                  /\ Count(q, x) = Count(stack[t], x)
       /\ mx[m].owner \in {t, NoTask} /\ mx'[m].owner \in {t, NoTask}
       /\ Waiters(m) # {} => mx'[m].owner = t
       /\ mx'[m].hold = 0 <=> mx'[m].owner = NoTask
       /\ Count(q, m) = IF mx'[m].owner = t THEN mx'[m].hold ELSE 0
       /\ mx'[m].hold \in Nat /\ pc'[t] # "mxBack"
  BY <1>1, <1>4, <1>5, <1>8, <1>9
<1> QED  BY <1>2, <1>3, <1>10, MutexSet

(* os_mutex_take returns with the mutex that was handed over.              *)
LEMMA TakeReturns ==
    ASSUME WaitInv, WaitInv', MutexInv, NEW t \in Task, Shift(t, {}), MutexTaken(t)
    PROVE  MutexInv'
<1>1. /\ k.cur = t /\ t \notin resched /\ pc[t] = "mxBack" /\ k.error[t] = "OS_OK"
      /\ pc' = [pc EXCEPT ![t] = "app"] /\ mx' = mx
      /\ stack' = [stack EXCEPT ![t] = Append(@, val[t])]
      /\ stack \in [Task -> Seq(Mutex)] /\ pc \in [Task -> Step]
  BY MutexFacts, WaitFacts DEF MutexTaken, At, Push, Finish, Goto
<1>2. PICK m \in Mutex : m = val[t]
  BY <1>1, MutexFacts DEF BackOK
<1>3. t \notin Waiters(m)
  BY <1>1, ActorFree, MutexAssumption
<1>4. mx[m].owner = t
  BY <1>1, <1>2, <1>3, MutexFacts DEF BackOK
<1> DEFINE q == Append(stack[t], m)
<1>5. q \in Seq(Mutex) /\ stack' = [stack EXCEPT ![t] = q]
  BY <1>1, <1>2
<1>6. Calm(t, {})
  BY <1>1, ShiftCalm
<1>7. /\ Handed(t, m) /\ \A x \in Mutex \ {m} : ~Handed(t, x)
      /\ pc'[t] # "mxBack"
  BY <1>1, <1>2, <1>4 DEF Handed
<1>8. /\ HeldOK(m, t) /\ HoldForm(m) /\ mx[m].hold \in Nat
      /\ t # NoTask
  BY MutexFacts, OwnersFacts DEF HoldForm
<1>9. \A x \in Mutex : Count(q, x) = Count(stack[t], x) + IF x = m THEN 1 ELSE 0
  BY <1>1, CountAppend
<1>10. \A x \in Mutex : Count(stack[t], x) \in Nat
  BY <1>1, CountNat
<1> HIDE DEF q
<1>11. /\ \A x \in Mutex \ {m} : Count(q, x) = Count(stack[t], x)
       /\ Count(q, m) = mx[m].hold
  BY <1>4, <1>7, <1>8, <1>9, <1>10 DEF HeldOK
<1>12. /\ \A x \in Mutex \ {m} : mx'[x] = mx[x] /\ mx'[m] = mx[m]
       /\ mx[m].hold = 0 <=> mx[m].owner = NoTask
  BY <1>1, <1>8 DEF HoldForm
<1> QED
  BY <1>1, <1>4, <1>5, <1>6, <1>7, <1>8, <1>11, <1>12, MutexSet

(* One entry leaves the stack of the task that releases.                   *)
LEMMA PopOK ==
    ASSUME MutexInv, NEW t \in Task, NEW m \in Mutex, m \in ToSet(stack[t]), Pop(t, m)
    PROVE  \E q \in Seq(Mutex) :
              /\ stack' = [stack EXCEPT ![t] = q]
              /\ \A x \in Mutex :
                    Count(q, x) = Count(stack[t], x) - IF x = m THEN 1 ELSE 0
              /\ m = stack[t][Len(stack[t])] =>
                    /\ Len(q) = Len(stack[t]) - 1
                    /\ \A i \in 1..Len(q) : q[i] = stack[t][i]
<1>1. stack \in [Task -> Seq(Mutex)] /\ stack[t] \in Seq(Mutex)
  BY MutexFacts
<1>2. PICK s \in Seq(Mutex) : s = stack[t]
  BY <1>1
<1>3. PICK j \in 1..Len(s) : /\ j = LastIndex(s, m) /\ s[j] = m
                             /\ m = s[Len(s)] => j = Len(s)
  BY <1>2, LastIndexOK
<1>4. PICK q : q = RemoveAt(s, j)
  OBVIOUS
<1>5. /\ q \in Seq(Mutex) /\ Len(q) = Len(s) - 1
      /\ \A i \in 1..Len(q) : q[i] = IF i < j THEN s[i] ELSE s[i + 1]
  BY <1>4, RemoveForm
<1>6. \A x : Count(q, x) = Count(s, x) - IF x = s[j] THEN 1 ELSE 0
  BY <1>4, CountRemove
<1>7. stack' = [stack EXCEPT ![t] = q]
  BY <1>1, <1>2, <1>3, <1>4 DEF Pop
<1>8. m = s[Len(s)] => \A i \in 1..Len(q) : q[i] = s[i]
  <2>1. \A i \in 1..Len(q) : i < Len(s)
    BY <1>5
  <2> QED  BY <1>3, <1>5, <2>1
<1> QED  BY <1>2, <1>3, <1>5, <1>6, <1>7, <1>8

(* The owner takes its mutex once more.                                    *)
LEMMA InnerOK ==
    ASSUME WaitInv, WaitInv', MutexInv, NEW t \in Task, NEW m \in Mutex,
           Shift(t, {}), m \in ToSet(stack[t]), MutexReleaseInner(t, m)
    PROVE  MutexInv'
<1>1. /\ pc[t] = "app" /\ pc' = pc /\ Pop(t, m) /\ mx[m].owner = t /\ mx[m].hold > 1
      /\ stack \in [Task -> Seq(Mutex)] /\ \A x \in Mutex : ~Handed(t, x)
      /\ mx \in [Mutex -> Fields] /\ mx[m].hold \in Nat
      /\ mx' = [mx EXCEPT ![m].hold = @ - 1]
  BY MutexFacts, OwnersFacts
     DEF MutexReleaseInner, Calls, At, Handed, OwnersOK, Fields
<1>2. PICK q \in Seq(Mutex) :
              /\ stack' = [stack EXCEPT ![t] = q]
              /\ \A x \in Mutex :
                    Count(q, x) = Count(stack[t], x) - IF x = m THEN 1 ELSE 0
  BY <1>1, PopOK
<1>3. Calm(t, {})
  BY <1>1, <1>2, ShiftCalm
<1>4. /\ \A x \in Mutex \ {m} : mx'[x] = mx[x]
      /\ mx'[m].owner = t /\ mx'[m].hold = mx[m].hold - 1
  BY <1>1 DEF Fields
<1>5. \A x \in Mutex : /\ Count(stack[t], x) = IF mx[x].owner = t THEN mx[x].hold ELSE 0
                       /\ Count(stack[t], x) \in Nat
  BY <1>1, OwnsCount
<1>6. /\ \A x \in Mutex \ {m} : Count(q, x) = Count(stack[t], x)
      /\ Count(q, m) = mx[m].hold - 1
  BY <1>1, <1>2, <1>5
<1>7. mx'[m].hold \in Nat /\ mx'[m].hold # 0 /\ t # NoTask
  BY <1>1, <1>4, FreeMutex
<1>8. /\ \A x \in Mutex \ {m} : /\ mx'[x] = mx[x] /\ ~Handed(t, x)
                                 /\ Count(q, x) = Count(stack[t], x)
      /\ mx[m].owner \in {t, NoTask} /\ mx'[m].owner \in {t, NoTask}
      /\ Waiters(m) # {} => mx'[m].owner = t
      /\ mx'[m].hold = 0 <=> mx'[m].owner = NoTask
      /\ Count(q, m) = IF mx'[m].owner = t THEN mx'[m].hold ELSE 0
      /\ mx'[m].hold \in Nat /\ pc'[t] # "mxBack"
  BY <1>1, <1>4, <1>6, <1>7
<1> QED  BY <1>2, <1>3, <1>8, MutexSet

(* A task begins to wait for a mutex that another one has.                 *)
LEMMA WaitsOK ==
    ASSUME WaitInv, WaitInv', MutexInv, NEW t \in Task, NEW m \in Mutex, NEW d,
           MutexWait(t, m, d), Shift(t, {m}), Waiters(m)' = Waiters(m) \cup {t}
    PROVE  MutexInv'
<1>1. /\ pc[t] = "app" /\ pc' = [pc EXCEPT ![t] = "mxBack"] /\ mx' = mx
      /\ stack' = stack /\ val' = [val EXCEPT ![t] = m] /\ mx[m].owner # t
      /\ mx[m].value = 0 /\ val \in [Task -> Val \cup {NoVal}]
      /\ pc \in [Task -> Step]
  BY WaitFacts DEF MutexWait, Calls, At, Goto
<1>2. Calm(t, {})
  <2>1. \A x \in Mutex : x # m => x \in Obj \ {m}
    BY MutexAssumption
  <2>2. \A x \in Mutex \ {m} :
           /\ Waiters(x)' \subseteq Waiters(x)
           /\ \A u \in Waiters(x) \ Waiters(x)' : k'.error[u] # "OS_OK"
    BY <2>1 DEF Shift
  <2> QED  BY <1>1, <2>2 DEF Calm, Shift
<1>3. /\ \A x \in Mutex : HoldForm(x)
      /\ \A u \in Task : BackOK(u)
      /\ stack \in [Task -> Seq(Mutex)]
  BY MutexFacts
<1>4. mx[m].owner \notin {t, NoTask}
  BY <1>1, FreeMutex
<1>5. BackOK(t)'
  BY <1>1, <1>4 DEF BackOK, Waiters
<1>6. \A u \in Task : BackOK(u)'
  <2>1. \A x \in Mutex : Waiters(x) # {} => mx[x].owner # NoTask
    BY <1>3 DEF HoldForm
  <2>2. \A u \in Task \ ({t} \cup {}) : BackOK(u)'
    BY <1>1, <1>2, <1>3, <2>1, BackCalm
  <2> QED  BY <1>5, <2>2
<1>7. ASSUME NEW x \in Mutex
      PROVE  HoldForm(x)'
  <2>1. HoldForm(x)
    BY <1>3
  <2>2. \A u \in Task : Handed(u, x)' = Handed(u, x)
    BY <1>1, <1>4 DEF Handed
  <2>3. \A u \in Task : HeldOK(x, u)'
    BY <1>1, <2>1, <2>2 DEF HoldForm, HeldOK
  <2>4. x # m => Waiters(x)' \subseteq Waiters(x)
    <3>1. x # m => x \in Obj \ {m}
      BY MutexAssumption
    <3> QED  BY <3>1 DEF Shift
  <2>5. Waiters(x)' # {} => mx[x].owner # NoTask
    BY <1>4, <2>1, <2>4 DEF HoldForm
  <2> QED  BY <1>1, <2>1, <2>3, <2>5 DEF HoldForm
<1>8. Forms'
  BY <1>1, <1>3, <1>6, <1>7 DEF Forms, WaitInv
<1> QED  BY <1>8, MutexMake, PTL

(* The mutex goes to a task that waits.                                    *)
LEMMA HandOverOK ==
    ASSUME WaitInv, WaitInv', MutexInv, NEW t \in Task, NEW m \in Mutex, NEW w,
           HandedTo(t, m, w), UNCHANGED <<pc, val>>, pc[t] = "app",
           mx[m].owner = t, mx[m].hold = 1, m \in ToSet(stack[t]), Pop(t, m)
    PROVE  MutexInv'
<1>1. /\ w \in Waiters(m) /\ w \in Task /\ w # t
      /\ mx' = [mx EXCEPT ![m] = [value |-> 0, owner |-> w, hold |-> 1,
                                  orig |-> k.prio[w]]]
      /\ Ends(k, k', {w}) /\ k'.error[w] = k.error[w]
  BY DEF HandedTo
<1>2. /\ \A x \in Mutex : HoldForm(x)
      /\ \A u \in Task : BackOK(u)
      /\ stack \in [Task -> Seq(Mutex)] /\ mx \in [Mutex -> Fields]
      /\ NoTask \notin Task
  BY MutexFacts, OwnersFacts, KernelAssumption DEF WaitInv, OwnersOK, Fields
<1>3. /\ mx'[m].owner = w /\ mx'[m].hold = 1
      /\ \A x \in Mutex \ {m} : mx'[x] = mx[x]
  BY <1>1, <1>2
<1>4. \A x \in Mutex : x \in Obj /\ Waiters(x)' = Waiters(x) \ {w}
  BY <1>1, MutexAssumption DEF Ends, Waiters
<1>5. PICK q \in Seq(Mutex) :
              /\ stack' = [stack EXCEPT ![t] = q]
              /\ \A x \in Mutex :
                    Count(q, x) = Count(stack[t], x) - IF x = m THEN 1 ELSE 0
  BY PopOK
<1>6. Calm(t, {w})
  <2>1. \A u \in Task \ {t} : k.stat[u] = "READY" => k'.error[u] = k.error[u]
    BY <1>1, WaitFacts DEF Ends
  <2>2. \A u \in Task \ {t} : stack'[u] = stack[u]
    BY <1>2, <1>5
  <2> QED  BY <1>4, <2>1, <2>2 DEF Calm
<1>7. /\ pc[w] = "mxBack" /\ val[w] = m /\ k.error[w] = "OS_OK"
  BY <1>1, MutexAssumption, ObjectsDiffer DEF WaitInv, PlacesOK, Place
<1>8. \A u \in Task : BackOK(u)'
  <2>1. BackOK(t)'
    BY DEF BackOK
  <2>2. BackOK(w)'
    BY <1>1, <1>3, <1>4, <1>7 DEF BackOK, Waiters
  <2>3. \A u \in Task \ ({t} \cup {w}) : BackOK(u)'
    <3>1. ASSUME NEW u \in Task \ ({t} \cup {w}), NEW x \in Mutex
          PROVE  /\ mx'[x].owner = u <=> mx[x].owner = u
                 /\ Waiters(x) # {} => mx'[x].owner # NoTask
      BY <1>1, <1>2, <1>3 DEF HoldForm
    <3> QED  BY <1>2, <1>6, <3>1, BackCalm
  <2> QED  BY <2>1, <2>2, <2>3
<1>9. \A x \in Mutex, u \in Task :
         /\ HeldOK(x, u) /\ Count(stack[u], x) \in Nat /\ mx[x].hold \in Nat
  BY <1>2, OwnersFacts, CountNat DEF HoldForm
<1>10. ASSUME NEW x \in Mutex \ {m}, NEW u \in Task
       PROVE  HeldOK(x, u)'
  <2>1. HeldOK(x, u) /\ mx'[x] = mx[x] /\ (Handed(u, x)' <=> Handed(u, x))
    BY <1>3, <1>9 DEF Handed
  <2>2. Count(stack'[u], x) = Count(stack[u], x)
    <3>1. CASE u = t
      BY <1>2, <1>5, <1>9, <3>1
    <3>2. CASE u # t
      BY <1>2, <1>5, <3>2
    <3> QED  BY <3>1, <3>2
  <2> QED  BY <2>1, <2>2 DEF HeldOK
<1>11. ASSUME NEW u \in Task
       PROVE  HeldOK(m, u)'
  <2>1. CASE u = t
    <3>1. ~Handed(t, m)
      BY DEF Handed
    <3>2. Count(stack[t], m) = 1
      BY <1>9, <3>1 DEF HeldOK
    <3>3. Count(stack'[t], m) = 0
      BY <1>2, <1>5, <3>2
    <3> QED  BY <1>1, <1>3, <2>1, <3>3 DEF HeldOK
  <2>2. CASE u = w
    <3>1. Count(stack'[w], m) = 0
      BY <1>1, <1>2, <1>5, <1>9 DEF HeldOK
    <3>2. Handed(w, m)'
      BY <1>3, <1>7 DEF Handed
    <3> QED  BY <1>3, <2>2, <3>1, <3>2 DEF HeldOK
  <2>3. CASE u # t /\ u # w
    <3>1. Count(stack'[u], m) = 0
      BY <1>2, <1>5, <1>9, <2>3 DEF HeldOK
    <3> QED  BY <1>3, <2>3, <3>1 DEF HeldOK
  <2> QED  BY <2>1, <2>2, <2>3
<1>12. ASSUME NEW x \in Mutex
       PROVE  HoldForm(x)'
  <2>1. \A u \in Task : HeldOK(x, u)'
    BY <1>10, <1>11
  <2>2. CASE x = m
    BY <1>1, <1>2, <1>3, <2>1, <2>2 DEF HoldForm
  <2>3. CASE x # m
    BY <1>2, <1>3, <1>4, <2>1, <2>3 DEF HoldForm
  <2> QED  BY <2>2, <2>3
<1>13. stack' \in [Task -> Seq(Mutex)]
  BY <1>2, <1>5
<1>14. Forms'
  BY <1>8, <1>12, <1>13 DEF Forms, WaitInv
<1> QED  BY <1>14, MutexMake, PTL

(* Nobody waits, and the mutex has no owner any more.                      *)
LEMMA GiveUpOK ==
    ASSUME WaitInv, WaitInv', MutexInv, NEW t \in Task, NEW m \in Mutex,
           GivenUp(m), UNCHANGED <<pc, val>>, pc[t] = "app", k.stat[t] = "READY",
           mx[m].owner = t, mx[m].hold = 1, m \in ToSet(stack[t]), Pop(t, m)
    PROVE  MutexInv'
<1>1. /\ Waiters(m) = {} /\ Ends(k, k', {})
      /\ mx' = [mx EXCEPT ![m] = [value |-> 1, owner |-> NoTask, hold |-> 0,
                                  orig |-> NoPrio]]
  BY DEF GivenUp
<1>2. /\ stack \in [Task -> Seq(Mutex)] /\ mx \in [Mutex -> Fields]
      /\ NoTask \notin Task /\ \A x \in Mutex : ~Handed(t, x)
  BY MutexFacts, KernelAssumption DEF WaitInv, OwnersOK, Fields, Handed
<1>3. PICK q \in Seq(Mutex) :
              /\ stack' = [stack EXCEPT ![t] = q]
              /\ \A x \in Mutex :
                    Count(q, x) = Count(stack[t], x) - IF x = m THEN 1 ELSE 0
  BY PopOK
<1>4. Calm(t, {})
  <2>1. \A x \in Mutex : x \in Obj /\ Waiters(x)' = Waiters(x)
    BY <1>1, MutexAssumption DEF Ends, Waiters
  <2>2. \A u \in Task \ {t} : k'.error[u] = k.error[u] /\ stack'[u] = stack[u]
    BY <1>1, <1>2, <1>3 DEF Ends
  <2> QED  BY <2>1, <2>2 DEF Calm
<1>5. /\ mx'[m].owner = NoTask /\ mx'[m].hold = 0
      /\ \A x \in Mutex \ {m} : mx'[x] = mx[x]
  BY <1>1, <1>2
<1>6. \A x \in Mutex : /\ Count(stack[t], x) = IF mx[x].owner = t THEN mx[x].hold ELSE 0
                       /\ Count(stack[t], x) \in Nat
  BY <1>2, OwnsCount
<1>7. Count(q, m) = 0 /\ \A x \in Mutex \ {m} : Count(q, x) = Count(stack[t], x)
  BY <1>3, <1>6
<1>8. /\ \A x \in Mutex \ {m} : /\ mx'[x] = mx[x] /\ ~Handed(t, x)
                                /\ Count(q, x) = Count(stack[t], x)
      /\ mx[m].owner \in {t, NoTask} /\ mx'[m].owner \in {t, NoTask}
      /\ Waiters(m) # {} => mx'[m].owner = t
      /\ mx'[m].hold = 0 <=> mx'[m].owner = NoTask
      /\ Count(q, m) = IF mx'[m].owner = t THEN mx'[m].hold ELSE 0
      /\ mx'[m].hold \in Nat /\ pc'[t] # "mxBack"
  BY <1>1, <1>2, <1>5, <1>7
<1> QED  BY <1>3, <1>4, <1>8, MutexSet

(* A call that fails, or begins to delete.                                 *)
Quiet(t) == /\ Shift(t, {}) /\ UNCHANGED <<mx, stack>>
            /\ pc'[t] # "mxBack" /\ \A m \in Mutex : ~Handed(t, m)
            /\ UNCHANGED val \/ pc'[t] = "app"

Releases(t, m) == m \in ToSet(stack[t]) /\ MayRelease(t, m, ops)

(* Every function of os_mutex.c keeps the invariant,                       *)
LEMMA MutexCases ==
    ASSUME WaitInv, MutexInv, NEW t \in Task, Mutexes(t)
    PROVE  \/ Quiet(t)
           \/ \E m \in Mutex : /\ MutexTakeAgain(t, m) \/ MutexTakeFree(t, m)
                               /\ Shift(t, {})
           \/ MutexTaken(t) /\ Shift(t, {})
           \/ \E m \in Mutex : /\ MutexReleaseInner(t, m) /\ Releases(t, m)
                               /\ Shift(t, {})
           \/ \E m \in Mutex : MutexReleaseLast(t, m) /\ Releases(t, m)
           \/ \E m \in Mutex, d \in 0..Forever :
                 /\ MutexWait(t, m, d) /\ Shift(t, {m})
                 /\ Waiters(m)' = Waiters(m) \cup {t}
                 /\ k'.prio = Inherit(k, t, m).prio
<1>1. /\ mb' = mb /\ pc \in [Task -> Step]
      /\ "app" \in Step \ {"evBack", "putBack", "resumeNext"}
      /\ Timeout \subseteq 0..Forever /\ Forever \in Nat /\ Forever \in 0..Forever
      /\ {"OS_TIMEOUT", "OS_OK", "OS_ERROR"} \subseteq Errno
  BY WaitAssumption, WaitFacts DEF Mutexes, SameMbox, Step, WaitStep, Errno
<1>2. ASSUME NEW m \in Mutex, \/ MutexTakeFree(t, m) \/ MutexTakeAgain(t, m)
                              \/ MutexReleaseInner(t, m)
      PROVE  Shift(t, {})
  BY <1>1, <1>2, HoldShift
<1>3. ASSUME NEW m \in Mutex, NEW d \in 0..Forever, MutexWait(t, m, d)
      PROVE  /\ Shift(t, {m}) /\ Waiters(m)' = Waiters(m) \cup {t}
             /\ k'.prio = Inherit(k, t, m).prio
  <2>1. d \in Nat
    BY <1>1
  <2> QED  BY <1>1, <1>3, <2>1, MutexWaitShift
<1>4. ASSUME NEW m \in Mutex, MutexPoll(t, m) \/ MutexRefused(t, m)
      PROVE  Quiet(t)
  <2>1. /\ k.cur = t /\ t \notin resched /\ pc[t] = "app" /\ resched' = resched
        /\ UNCHANGED <<pc, arg, since, val, todo>> /\ mx' = mx /\ stack' = stack
        /\ \E e \in Errno : k' = SetError(k, t, e)
    BY <1>1, <1>4 DEF MutexPoll, MutexRefused, Calls, At, SetError
  <2>2. PICK e \in Errno : k' = SetError(k, t, e)
    BY <2>1
  <2>3. Moved(t, "app") /\ OwnersOK' /\ mb' \in Mailbox
    BY <1>1, <2>1, StayMoves DEF WaitInv, OwnersOK
  <2>4. Shift(t, {})
    BY <1>1, <2>1, <2>2, <2>3, ErrorShift
  <2> QED  BY <2>1, <2>4 DEF Quiet, Handed
<1>5. ASSUME NEW m \in Mutex, MutexDelete(t, m)
      PROVE  Quiet(t)
  <2>1. m \in Obj \ {Pool}
    BY MutexAssumption, ObjectsDiffer
  <2>2. /\ Calls(t) /\ ResumeLists(t, <<m>>) /\ mx' = mx /\ stack' = stack
        /\ <<m>> \in Seq(Obj \ {Pool})
    BY <1>5, <2>1 DEF MutexDelete
  <2>3. Shift(t, {})
    BY <1>1, <2>2, DeleteShift
  <2>4. pc[t] = "app" /\ pc'[t] = "resume" /\ val' = val
    BY <1>1, <2>2 DEF Calls, At, ResumeLists, Goto
  <2> QED  BY <2>2, <2>3, <2>4 DEF Quiet, Handed
<1>6. ASSUME MutexTaken(t) \/ MutexFails(t)
      PROVE  Shift(t, {}) /\ pc'[t] = "app"
  <2>1. /\ k.cur = t /\ t \notin resched /\ Finish(t) /\ resched' = resched
        /\ k' = k /\ mx' = mx
    BY <1>6 DEF MutexTaken, MutexFails, At
  <2>2. OwnersOK' /\ mb' \in Mailbox
    BY <1>1, <2>1 DEF WaitInv, OwnersOK
  <2>3. Shift(t, {})
    BY <2>1, <2>2, OverShift
  <2>4. pc'[t] = "app"
    BY <1>1, <2>1 DEF Finish, Goto
  <2> QED  BY <2>3, <2>4
<1>7. ASSUME MutexFails(t)
      PROVE  Quiet(t)
  <2>1. /\ k.cur = t /\ t \notin resched /\ pc[t] = "mxBack" /\ k.error[t] # "OS_OK"
        /\ mx' = mx /\ stack' = stack
    BY <1>7 DEF MutexFails, At
  <2>2. BackOK(t)
    BY MutexFacts
  <2>3. val[t] \in Mutex /\ t \notin Waiters(val[t])
    BY <2>1, <2>2, ActorFree, MutexAssumption DEF BackOK
  <2>4. mx[val[t]].owner # t
    BY <2>1, <2>2, <2>3 DEF BackOK
  <2>5. \A m \in Mutex : ~Handed(t, m)
    BY <2>4 DEF Handed
  <2> QED  BY <1>6, <1>7, <2>1, <2>5 DEF Quiet
<1> QED
  BY <1>1, <1>2, <1>3, <1>4, <1>5, <1>6, <1>7
     DEF Mutexes, MutexCall, MutexContinue, Releases

(* so does every step,                                                     *)
LEMMA MutexStepOK ==
    ASSUME WaitInv, WaitInv', MutexInv, Next
    PROVE  MutexInv'
<1>1. CASE Aside(MutexStep, Mutex) /\ UNCHANGED <<mx, stack>>
  BY <1>1, MutexAside
<1>2. ASSUME NEW t \in Task, Mutexes(t)
      PROVE  MutexInv'
  <2>1. CASE Quiet(t)
    BY <2>1, MutexSame DEF Quiet
  <2>2. CASE \E m \in Mutex : /\ MutexTakeAgain(t, m) \/ MutexTakeFree(t, m)
                              /\ Shift(t, {})
    BY <2>2, TakenOK
  <2>3. CASE MutexTaken(t) /\ Shift(t, {})
    BY <2>3, TakeReturns
  <2>4. CASE \E m \in Mutex : /\ MutexReleaseInner(t, m) /\ Releases(t, m)
                              /\ Shift(t, {})
    BY <2>4, InnerOK DEF Releases
  <2>5. ASSUME NEW m \in Mutex, MutexReleaseLast(t, m), Releases(t, m)
        PROVE  MutexInv'
    <3>1. /\ pc[t] = "app" /\ k.cur = t /\ t \notin resched /\ UNCHANGED <<pc, val>>
          /\ mx[m].owner = t /\ mx[m].hold = 1 /\ Pop(t, m) /\ m \in ToSet(stack[t])
      BY <2>5 DEF MutexReleaseLast, Calls, At, Releases
    <3>2. k.stat[t] = "READY"
      BY <3>1, ActorFree
    <3>3. (\E w : HandedTo(t, m, w)) \/ GivenUp(m)
      BY <2>5, ReleaseLastOK
    <3>4. ASSUME NEW w, HandedTo(t, m, w)
          PROVE  MutexInv'
      BY <3>1, <3>4, HandOverOK
    <3>5. CASE GivenUp(m)
      BY <3>1, <3>2, <3>5, GiveUpOK
    <3> QED  BY <3>3, <3>4, <3>5
  <2>6. ASSUME NEW m \in Mutex, NEW d \in 0..Forever, MutexWait(t, m, d), Shift(t, {m}),
               Waiters(m)' = Waiters(m) \cup {t}
        PROVE  MutexInv'
    BY <2>6, WaitsOK
  <2> QED  BY <1>2, <2>1, <2>2, <2>3, <2>4, <2>5, <2>6, MutexCases
<1> QED  BY <1>1, <1>2, MutexNext

(* it holds at first,                                                      *)
LEMMA MutexFirst ==
    ASSUME IsFiniteSet(Task), Init
    PROVE  MutexInv
<1>1. /\ WaitInv /\ \A o \in Obj : Waiters(o) = {}
  BY WaitFirst, EmptyList DEF Waiters
<1>2. /\ stack = [t \in Task |-> <<>>] /\ pc = [t \in Task |-> "app"]
      /\ \A m \in Mutex : mx[m].owner = NoTask /\ mx[m].hold = 0
      /\ NoTask \notin Task
  BY KernelAssumption DEF Init, MutexInit, WaitInit
<1>3. \A t \in Task : stack[t] = <<>> /\ stack[t] \in Seq(Mutex) /\ Len(stack[t]) = 0
  BY <1>2
<1>4. \A t \in Task, m \in Mutex : Count(stack[t], m) = 0
  <2>1. ASSUME NEW t \in Task, NEW m \in Mutex
        PROVE  Count(stack[t], m) = 0
    <3>1. \A i \in 1..Len(stack[t]) : FALSE
      BY <1>3
    <3> QED  BY <1>3, <3>1, CountNat
  <2> QED  BY <2>1
<1>5. \A m \in Mutex : HoldForm(m)
  BY <1>1, <1>2, <1>4, MutexAssumption DEF HoldForm, HeldOK
<1>6. \A t \in Task : BackOK(t)
  BY <1>2 DEF BackOK
<1>7. stack \in [Task -> Seq(Mutex)]
  BY <1>2, <1>3
<1>8. Forms
  BY <1>1, <1>5, <1>6, <1>7 DEF Forms, WaitInv
<1> QED  BY <1>8, MutexMake

(* and therefore always.                                                   *)
LEMMA MutexInductive ==
    ASSUME IsFiniteSet(Task)
    PROVE  Spec => [](WaitInv /\ MutexInv)
<1>1. Init => MutexInv
  BY MutexFirst
<1>2. WaitInv /\ WaitInv' /\ MutexInv /\ [Next]_vars => MutexInv'
  <2>1. UNCHANGED vars => Aside(MutexStep, Mutex) /\ UNCHANGED <<mx, stack>>
    BY DEF vars, Aside, Waiters
  <2> QED  BY <2>1, MutexStepOK, MutexAside
<1> QED  BY <1>1, <1>2, WaitInductive, PTL DEF Spec

(* One task at a time has a mutex, it is the owner, and hold counts its    *)
(* takes, whoever waits, times out, is handed the mutex or deletes it.     *)
THEOREM MutexesHeldExactly ==
    ASSUME IsFiniteSet(Task)
    PROVE  Spec => []HoldExact
<1>1. MutexInv => HoldExact
  BY DEF MutexInv
<1> QED  BY <1>1, MutexInductive, PTL

-----------------------------------------------------------------------------
(* The priority of the owner of a mutex                                    *)

OwnPrio(t) == (\A m \in Mutex : mx[m].owner # t) => k.prio[t] = BasePrio[t]

FirstPrio(t) ==
    IF stack[t] # <<>> THEN mx[stack[t][1]].orig = BasePrio[t]
    ELSE \A m \in Mutex : Handed(t, m) => mx[m].orig = BasePrio[t]

PrioParts == \A t \in Task : OwnPrio(t) /\ FirstPrio(t)

(* The invariant in two parts.                                             *)
LEMMA PrioForm == PrioInv <=> PrioParts
BY DEF PrioInv, PriorityRestored, PrioParts, OwnPrio, FirstPrio

(* What is in a stack belongs to the task, and a task that owns something  *)
(* has it there, or will.                                                  *)
LEMMA StackOwned ==
    ASSUME WaitInv, MutexInv, NEW t \in Task
    PROVE  /\ stack[t] \in Seq(Mutex)
           /\ stack[t] # <<>> => /\ stack[t][1] \in Mutex /\ Len(stack[t]) > 0
                                 /\ mx[stack[t][1]].owner = t
           /\ (stack[t] = <<>> /\ \A m \in Mutex : ~Handed(t, m))
                 => \A m \in Mutex : mx[m].owner # t
<1>1. /\ stack[t] \in Seq(Mutex) /\ \A m \in Mutex : HoldForm(m) /\ HeldOK(m, t)
      /\ t # NoTask
  BY MutexFacts, KernelAssumption DEF HoldForm
<1>2. ASSUME stack[t] # <<>>
      PROVE  /\ stack[t][1] \in Mutex /\ Len(stack[t]) > 0
             /\ mx[stack[t][1]].owner = t
  <2>1. /\ stack[t][1] \in Mutex /\ Len(stack[t]) > 0 /\ 1 \in 1..Len(stack[t])
    BY <1>1, <1>2
  <2>2. Count(stack[t], stack[t][1]) # 0
    BY <1>1, <2>1, CountNat
  <2> QED  BY <1>1, <2>1, <2>2 DEF HeldOK
<1>3. ASSUME stack[t] = <<>>, \A m \in Mutex : ~Handed(t, m), NEW m \in Mutex
      PROVE  mx[m].owner # t
  <2>1. \A i \in 1..Len(stack[t]) : FALSE
    BY <1>3
  <2>2. Count(stack[t], m) = 0 /\ ~Handed(t, m)
    BY <1>1, <1>3, <2>1, CountNat
  <2>3. mx[m].owner = t => mx[m].hold = 0
    BY <1>1, <2>2 DEF HeldOK
  <2> QED  BY <1>1, <2>3 DEF HoldForm
<1> QED  BY <1>1, <1>2, <1>3

(* A task that nothing was handed to and that gave nothing back.           *)
LEMMA PrioKept ==
    ASSUME WaitInv, MutexInv, PrioParts, NEW u \in Task, stack'[u] = stack[u],
           \/ k'.prio[u] = k.prio[u]
           \/ \E m \in Mutex : mx'[m].owner = u,
           \A m \in Mutex : /\ mx[m].owner = u => /\ mx'[m].owner = u
                                                  /\ mx'[m].orig = mx[m].orig
                            /\ Handed(u, m)' => Handed(u, m)
    PROVE  OwnPrio(u)' /\ FirstPrio(u)'
<1>1. OwnPrio(u) /\ FirstPrio(u)
  BY DEF PrioParts
<1>2. OwnPrio(u)'
  BY <1>1 DEF OwnPrio
<1>3. FirstPrio(u)'
  <2>1. CASE stack[u] # <<>>
    <3>1. stack[u][1] \in Mutex /\ mx[stack[u][1]].owner = u
      BY <2>1, StackOwned
    <3> QED  BY <1>1, <2>1, <3>1 DEF FirstPrio
  <2>2. CASE stack[u] = <<>>
    <3>1. \A m \in Mutex : Handed(u, m) => mx[m].owner = u
      BY DEF Handed
    <3> QED  BY <1>1, <2>2, <3>1 DEF FirstPrio
  <2> QED  BY <2>1, <2>2
<1> QED  BY <1>2, <1>3

(* A task that takes a mutex, or finds itself the owner.                   *)
LEMMA PrioTake ==
    ASSUME WaitInv, MutexInv, PrioParts, NEW t \in Task, NEW m \in Mutex,
           mx'[m].owner = t, stack'[t] = Append(stack[t], m),
           \A x \in Mutex : mx[x].owner = t => mx'[x].orig = mx[x].orig,
           stack[t] = <<>> => mx'[m].orig = BasePrio[t]
    PROVE  OwnPrio(t)' /\ FirstPrio(t)'
<1>1. OwnPrio(t)'
  BY DEF OwnPrio
<1>2. /\ stack[t] \in Seq(Mutex)
      /\ stack[t] # <<>> => /\ stack[t][1] \in Mutex /\ Len(stack[t]) > 0
                            /\ mx[stack[t][1]].owner = t
  BY StackOwned
<1>3. FirstPrio(t)
  BY DEF PrioParts
<1>4. stack'[t] # <<>> /\ stack'[t][1] = IF stack[t] = <<>> THEN m ELSE stack[t][1]
  BY <1>2
<1>5. mx'[stack'[t][1]].orig = BasePrio[t]
  <2>1. CASE stack[t] = <<>>
    <3>1. stack'[t][1] = m
      BY <1>4, <2>1
    <3> QED  BY <2>1, <3>1
  <2>2. CASE stack[t] # <<>>
    <3>1. stack'[t][1] = stack[t][1]
      BY <1>4, <2>2
    <3>2. mx[stack[t][1]].orig = BasePrio[t]
      BY <1>3, <2>2 DEF FirstPrio
    <3> QED  BY <1>2, <2>2, <3>1, <3>2
  <2> QED  BY <2>1, <2>2
<1>6. FirstPrio(t)'
  <2> HIDE <1>2
  <2>1. stack'[t] # <<>>
    BY <1>4
  <2> QED  BY <1>5, <2>1, Zenon DEF FirstPrio
<1> QED  BY <1>1, <1>6

(* A mutex that is taken remembers the priority of its owner.              *)
LEMMA PrioTakes ==
    ASSUME WaitInv, MutexInv, PrioParts, NEW t \in Task, NEW m \in Mutex,
           Shift(t, {}), MutexTakeAgain(t, m) \/ MutexTakeFree(t, m)
    PROVE  PrioParts'
<1>1. /\ pc[t] = "app" /\ stack' = [stack EXCEPT ![t] = Append(@, m)]
      /\ stack \in [Task -> Seq(Mutex)] /\ \A x \in Mutex : ~Handed(t, x)
      /\ mx \in [Mutex -> Fields] /\ k'.prio = k.prio
      /\ UNCHANGED <<pc, val>>
  BY MutexFacts
     DEF MutexTakeAgain, MutexTakeFree, Calls, At, Push, Handed, WaitInv, OwnersOK,
         Fields, Shift
<1>2. /\ \A x \in Mutex \ {m} : mx'[x] = mx[x]
      /\ mx'[m].owner = t
      /\ mx[m].owner = t => mx'[m].orig = mx[m].orig
      /\ mx[m].owner # t => mx'[m].orig = k.prio[t]
  BY <1>1 DEF MutexTakeAgain, MutexTakeFree, Fields
<1>3. mx[m].owner \in {t, NoTask} /\ NoTask \notin Task
  BY FreeMutex, KernelAssumption DEF MutexTakeAgain, MutexTakeFree
<1>4. ASSUME NEW u \in Task \ {t}
      PROVE  OwnPrio(u)' /\ FirstPrio(u)'
  <2>1. stack'[u] = stack[u] /\ k'.prio[u] = k.prio[u]
    BY <1>1
  <2>2. \A x \in Mutex : /\ mx[x].owner = u => /\ mx'[x].owner = u
                                               /\ mx'[x].orig = mx[x].orig
                         /\ Handed(u, x)' => Handed(u, x)
    BY <1>1, <1>2, <1>3 DEF Handed
  <2> QED  BY <2>1, <2>2, PrioKept
<1>5. OwnPrio(t)' /\ FirstPrio(t)'
  <2>1. ASSUME stack[t] = <<>>
        PROVE  mx'[m].orig = BasePrio[t]
    <3>1. \A x \in Mutex : mx[x].owner # t
      BY <1>1, <2>1, StackOwned
    <3>2. k.prio[t] = BasePrio[t]
      BY <3>1 DEF PrioParts, OwnPrio
    <3> QED  BY <1>2, <3>1, <3>2
  <2>2. \A x \in Mutex : mx[x].owner = t => mx'[x].orig = mx[x].orig
    BY <1>2
  <2>3. stack'[t] = Append(stack[t], m)
    BY <1>1
  <2> QED  BY <1>2, <2>1, <2>2, <2>3, PrioTake
<1> QED  BY <1>4, <1>5 DEF PrioParts

(* The last mutex to be released gives the priority back.                  *)
LEMMA PrioReturns ==
    ASSUME WaitInv, MutexInv, PrioParts, NEW t \in Task, Shift(t, {}), MutexTaken(t)
    PROVE  PrioParts'
<1>1. /\ k.cur = t /\ t \notin resched /\ pc[t] = "mxBack" /\ k.error[t] = "OS_OK"
      /\ pc' = [pc EXCEPT ![t] = "app"] /\ mx' = mx /\ k'.prio = k.prio
      /\ stack' = [stack EXCEPT ![t] = Append(@, val[t])]
      /\ stack \in [Task -> Seq(Mutex)] /\ pc \in [Task -> Step]
      /\ \A u \in Task \ {t} : val'[u] = val[u]
  BY MutexFacts, WaitFacts DEF MutexTaken, At, Push, Finish, Goto, Shift
<1>2. PICK m \in Mutex : m = val[t]
  BY <1>1, MutexFacts DEF BackOK
<1>3. t \notin Waiters(m)
  BY <1>1, ActorFree, MutexAssumption
<1>4. mx[m].owner = t /\ Handed(t, m)
  BY <1>1, <1>2, <1>3, MutexFacts DEF BackOK, Handed
<1>5. ASSUME NEW u \in Task \ {t}
      PROVE  OwnPrio(u)' /\ FirstPrio(u)'
  <2>1. stack'[u] = stack[u] /\ k'.prio[u] = k.prio[u]
    BY <1>1
  <2>2. \A x \in Mutex : /\ mx[x].owner = u => /\ mx'[x].owner = u
                                               /\ mx'[x].orig = mx[x].orig
                         /\ Handed(u, x)' => Handed(u, x)
    BY <1>1 DEF Handed
  <2> QED  BY <2>1, <2>2, PrioKept
<1>6. OwnPrio(t)' /\ FirstPrio(t)'
  <2>1. stack[t] = <<>> => mx'[m].orig = BasePrio[t]
    BY <1>1, <1>4 DEF PrioParts, FirstPrio
  <2>2. \A x \in Mutex : mx[x].owner = t => mx'[x].orig = mx[x].orig
    BY <1>1
  <2>3. stack'[t] = Append(stack[t], m) /\ mx'[m].owner = t
    BY <1>1, <1>2, <1>4
  <2> QED  BY <2>1, <2>2, <2>3, PrioTake
<1> QED  BY <1>5, <1>6 DEF PrioParts

(* The calls that leave owners and stacks alone, also the one that raises  *)
(* an owner.                                                               *)
LEMMA PrioSame ==
    ASSUME WaitInv, MutexInv, PrioParts, UNCHANGED <<mx, stack>>,
           \A u \in Task : \/ k'.prio[u] = k.prio[u]
                           \/ \E m \in Mutex : mx[m].owner = u,
           \A u \in Task, m \in Mutex : Handed(u, m)' => Handed(u, m)
    PROVE  PrioParts'
<1>1. ASSUME NEW u \in Task
      PROVE  OwnPrio(u)' /\ FirstPrio(u)'
  BY PrioKept
<1> QED  BY <1>1 DEF PrioParts

(* A call that changes no mutex.                                           *)
LEMMA PrioQuiet ==
    ASSUME WaitInv, MutexInv, PrioParts, NEW t \in Task, Quiet(t)
    PROVE  PrioParts'
<1>1. /\ mx' = mx /\ stack' = stack /\ pc'[t] # "mxBack"
      /\ \A u \in Task \ {t} : /\ pc'[u] = pc[u]
                               /\ pc[u] # "evBack" => val'[u] = val[u]
  BY DEF Quiet, Shift
<1>2. k'.prio = k.prio
  BY DEF Quiet, Shift
<1>3. \A u \in Task, m \in Mutex : Handed(u, m)' => Handed(u, m)
  BY <1>1 DEF Handed
<1> QED  BY <1>1, <1>2, <1>3, PrioSame

(* A task begins to wait, and may raise the owner.                         *)
LEMMA PrioWait ==
    ASSUME WaitInv, MutexInv, PrioParts, NEW t \in Task, NEW m \in Mutex, NEW d,
           MutexWait(t, m, d), k'.prio = Inherit(k, t, m).prio
    PROVE  PrioParts'
<1>1. /\ pc' = [pc EXCEPT ![t] = "mxBack"] /\ mx' = mx
      /\ stack' = stack /\ val' = [val EXCEPT ![t] = m] /\ mx[m].owner # t
      /\ mx[m].value = 0 /\ val \in [Task -> Val \cup {NoVal}]
      /\ pc \in [Task -> Step] /\ k.prio \in [Task -> Prio]
  BY WaitFacts DEF MutexWait, Goto
<1>2. k'.prio = [k.prio EXCEPT ![mx[m].owner] = IF k.prio[t] < @ THEN k.prio[t] ELSE @]
  BY <1>1, InheritEnds
<1>3. \A u \in Task : \/ k'.prio[u] = k.prio[u]
                      \/ \E x \in Mutex : mx[x].owner = u
  BY <1>1, <1>2
<1>4. \A u \in Task, x \in Mutex : Handed(u, x)' => Handed(u, x)
  BY <1>1 DEF Handed
<1> QED  BY <1>1, <1>3, <1>4, PrioSame

(* What is left of a stack whose last entry is taken out.                  *)
LEMMA PopPrio ==
    ASSUME WaitInv, MutexInv, PrioParts, NEW t \in Task, NEW m \in Mutex,
           pc[t] = "app", mx[m].owner = t, Releases(t, m), "anyOrder" \notin ops,
           Pop(t, m)
    PROVE  \E q \in Seq(Mutex) :
              /\ stack' = [stack EXCEPT ![t] = q] /\ stack \in [Task -> Seq(Mutex)]
              /\ q # <<>> => /\ stack[t][1] \in Mutex /\ q[1] = stack[t][1]
                             /\ mx[stack[t][1]].owner = t
                             /\ mx[stack[t][1]].orig = BasePrio[t]
              /\ q = <<>> => mx[m].hold = 1 /\ mx[m].orig = BasePrio[t]
              /\ mx[m].hold = 1 => \A i \in 1..Len(q) : q[i] # m
<1>1. /\ m \in ToSet(stack[t]) /\ m = stack[t][Len(stack[t])]
      /\ stack \in [Task -> Seq(Mutex)] /\ \A x \in Mutex : ~Handed(t, x)
      /\ mx[m].hold \in Nat
  BY MutexFacts, OwnersFacts DEF Releases, MayRelease, Handed
<1>2. PICK q \in Seq(Mutex) :
              /\ stack' = [stack EXCEPT ![t] = q]
              /\ \A x \in Mutex :
                    Count(q, x) = Count(stack[t], x) - IF x = m THEN 1 ELSE 0
              /\ m = stack[t][Len(stack[t])] =>
                    /\ Len(q) = Len(stack[t]) - 1
                    /\ \A i \in 1..Len(q) : q[i] = stack[t][i]
  BY <1>1, PopOK
<1>3. /\ Len(q) = Len(stack[t]) - 1
      /\ \A i \in 1..Len(q) : q[i] = stack[t][i]
  BY <1>1, <1>2
<1>4. Count(stack[t], m) = mx[m].hold
  BY <1>1, OwnsCount
<1>5. Count(q, m) = mx[m].hold - 1
  BY <1>1, <1>2, <1>4
<1>6. stack[t] # <<>>
  BY <1>1 DEF ToSet
<1>7. /\ stack[t][1] \in Mutex /\ mx[stack[t][1]].owner = t /\ Len(stack[t]) > 0
      /\ mx[stack[t][1]].orig = BasePrio[t]
  <2>1. FirstPrio(t)
    BY DEF PrioParts
  <2> QED  BY <1>6, <2>1, StackOwned DEF FirstPrio
<1>8. q # <<>> => q[1] = stack[t][1]
  <2>1. q # <<>> => Len(q) > 0 /\ 1 \in 1..Len(q)
    OBVIOUS
  <2> QED  BY <1>3, <2>1
<1>9. ASSUME q = <<>>
      PROVE  mx[m].hold = 1 /\ mx[m].orig = BasePrio[t]
  <2>1. \A i \in 1..Len(q) : FALSE
    BY <1>9
  <2>2. Count(q, m) = 0
    BY <2>1, CountNat
  <2>3. Len(q) = 0
    BY <1>9
  <2>4. stack[t] \in Seq(Mutex)
    BY <1>1
  <2>5. Len(stack[t]) = 1
    BY <1>3, <2>3, <2>4
  <2>6. m = stack[t][1]
    BY <1>1, <2>5
  <2> QED  BY <1>1, <1>5, <1>7, <2>2, <2>6
<1>10. mx[m].hold = 1 => \A i \in 1..Len(q) : q[i] # m
  <2>1. mx[m].hold = 1 => Count(q, m) = 0
    BY <1>5
  <2> QED  BY <2>1, CountNat
<1> QED  BY <1>1, <1>2, <1>7, <1>8, <1>9, <1>10

(* An inner release.                                                       *)
LEMMA PrioInner ==
    ASSUME WaitInv, MutexInv, PrioParts, NEW t \in Task, NEW m \in Mutex,
           Shift(t, {}), MutexReleaseInner(t, m), Releases(t, m), "anyOrder" \notin ops
    PROVE  PrioParts'
<1>1. /\ pc[t] = "app" /\ Pop(t, m) /\ mx[m].owner = t /\ mx[m].hold > 1
      /\ UNCHANGED <<pc, val>> /\ k' = k
      /\ mx \in [Mutex -> Fields] /\ mx[m].hold \in Nat
      /\ mx' = [mx EXCEPT ![m].hold = @ - 1]
  BY OwnersFacts
     DEF MutexReleaseInner, Calls, At, OwnersOK, Fields
<1>2. \A x \in Mutex : mx'[x].owner = mx[x].owner /\ mx'[x].orig = mx[x].orig
  BY <1>1 DEF Fields
<1>3. PICK q \in Seq(Mutex) :
              /\ stack' = [stack EXCEPT ![t] = q] /\ stack \in [Task -> Seq(Mutex)]
              /\ q # <<>> => /\ stack[t][1] \in Mutex /\ q[1] = stack[t][1]
                             /\ mx[stack[t][1]].owner = t
                             /\ mx[stack[t][1]].orig = BasePrio[t]
              /\ q = <<>> => mx[m].hold = 1 /\ mx[m].orig = BasePrio[t]
  BY <1>1, PopPrio
<1>4. \A u \in Task, x \in Mutex : Handed(u, x)' => Handed(u, x)
  BY <1>1, <1>2 DEF Handed
<1>5. ASSUME NEW u \in Task \ {t}
      PROVE  OwnPrio(u)' /\ FirstPrio(u)'
  <2>1. stack'[u] = stack[u] /\ k'.prio[u] = k.prio[u]
    BY <1>1, <1>3
  <2> QED  BY <1>2, <1>4, <2>1, PrioKept
<1>6. OwnPrio(t)'
  BY <1>1, <1>2 DEF OwnPrio
<1>7. FirstPrio(t)'
  <2>1. q # <<>> /\ stack'[t] = q
    BY <1>1, <1>3
  <2>2. mx'[q[1]].orig = BasePrio[t]
    BY <1>2, <1>3, <2>1
  <2> QED  BY <2>1, <2>2 DEF FirstPrio
<1> QED  BY <1>5, <1>6, <1>7 DEF PrioParts

(* The last release restores the priority.                                 *)
LEMMA PrioRelease ==
    ASSUME WaitInv, MutexInv, PrioParts, NEW t \in Task, NEW m \in Mutex,
           MutexReleaseLast(t, m), Releases(t, m), "anyOrder" \notin ops
    PROVE  PrioParts'
<1>1. /\ pc[t] = "app" /\ Pop(t, m) /\ mx[m].owner = t /\ mx[m].hold = 1
      /\ UNCHANGED <<pc, val>> /\ k.prio \in [Task -> Prio]
      /\ mx \in [Mutex -> Fields] /\ NoTask \notin Task
  BY OwnersFacts, WaitFacts
     DEF MutexReleaseLast, Calls, At, OwnersOK, Fields
<1>2. /\ (\E w : HandedTo(t, m, w)) \/ GivenUp(m)
      /\ k'.prio = [k.prio EXCEPT ![t] = mx[m].orig]
  BY ReleaseLastOK
<1>3. PICK w : \/ HandedTo(t, m, w)
               \/ GivenUp(m) /\ w = NoTask
  BY <1>2
<1>4. /\ w # t /\ mx'[m].owner = w /\ \A x \in Mutex \ {m} : mx'[x] = mx[x]
      /\ w # NoTask => HandedTo(t, m, w)
  BY <1>1, <1>3 DEF HandedTo, GivenUp
<1>5. PICK q \in Seq(Mutex) :
              /\ stack' = [stack EXCEPT ![t] = q] /\ stack \in [Task -> Seq(Mutex)]
              /\ q # <<>> => /\ stack[t][1] \in Mutex /\ q[1] = stack[t][1]
                             /\ mx[stack[t][1]].owner = t
                             /\ mx[stack[t][1]].orig = BasePrio[t]
              /\ q = <<>> => mx[m].hold = 1 /\ mx[m].orig = BasePrio[t]
              /\ mx[m].hold = 1 => \A i \in 1..Len(q) : q[i] # m
  BY <1>1, PopPrio
<1>6. ASSUME NEW u \in Task \ {t, w}
      PROVE  OwnPrio(u)' /\ FirstPrio(u)'
  <2>1. stack'[u] = stack[u] /\ k'.prio[u] = k.prio[u]
    BY <1>1, <1>2, <1>5
  <2>2. \A x \in Mutex : /\ mx[x].owner = u => /\ mx'[x].owner = u
                                               /\ mx'[x].orig = mx[x].orig
                         /\ Handed(u, x)' => Handed(u, x)
    BY <1>1, <1>4 DEF Handed
  <2> QED  BY <2>1, <2>2, PrioKept
<1>7. OwnPrio(t)' /\ FirstPrio(t)'
  <2>1. stack'[t] = q /\ \A x \in Mutex : ~Handed(t, x)'
    BY <1>1, <1>5 DEF Handed
  <2>2. CASE q # <<>>
    <3>1. q[1] # m
      BY <1>1, <1>5, <2>2
    <3>2. PICK f \in Mutex \ {m} : f = q[1] /\ mx[f].owner = t /\ mx[f].orig = BasePrio[t]
      BY <1>5, <2>2, <3>1
    <3>3. mx'[f].owner = t /\ mx'[q[1]].orig = BasePrio[t]
      BY <1>4, <3>2
    <3>4. OwnPrio(t)'
      BY <3>2, <3>3 DEF OwnPrio
    <3> QED  BY <2>1, <2>2, <3>3, <3>4 DEF FirstPrio
  <2>3. CASE q = <<>>
    <3>1. k'.prio[t] = BasePrio[t]
      BY <1>1, <1>2, <1>5, <2>3
    <3> QED  BY <2>1, <2>3, <3>1 DEF OwnPrio, FirstPrio
  <2> QED  BY <2>2, <2>3
<1>8. ASSUME w \in Task
      PROVE  OwnPrio(w)' /\ FirstPrio(w)'
  <2>1. /\ w \in Waiters(m) /\ mx'[m].orig = k.prio[w] /\ w # t
    BY <1>1, <1>4, <1>8 DEF HandedTo
  <2>2. /\ pc[w] = "mxBack" /\ val[w] = m
    BY <2>1, MutexAssumption, ObjectsDiffer DEF WaitInv, PlacesOK, Place
  <2>3. OwnPrio(w)'
    BY <1>4 DEF OwnPrio
  <2>4. stack'[w] = stack[w]
    BY <1>5, <1>8, <2>1
  <2>5. CASE stack[w] # <<>>
    <3>1. PICK f \in Mutex : f = stack[w][1] /\ mx[f].owner = w
      BY <1>8, <2>5, StackOwned
    <3>2. mx[f].orig = BasePrio[w]
      BY <1>8, <2>5, <3>1 DEF PrioParts, FirstPrio
    <3>3. mx'[stack[w][1]].orig = BasePrio[w]
      BY <1>1, <1>4, <2>1, <3>1, <3>2
    <3> QED  BY <2>3, <2>4, <2>5, <3>3 DEF FirstPrio
  <2>6. CASE stack[w] = <<>>
    <3>1. \A x \in Mutex : ~Handed(w, x)
      BY <1>1, <2>1, <2>2 DEF Handed
    <3>2. \A x \in Mutex : mx[x].owner # w
      BY <1>8, <2>6, <3>1, StackOwned
    <3>3. mx'[m].orig = BasePrio[w]
      BY <1>8, <2>1, <3>2 DEF PrioParts, OwnPrio
    <3>4. \A x \in Mutex : Handed(w, x)' => x = m
      BY <1>1, <2>2 DEF Handed
    <3> QED  BY <2>3, <2>4, <2>6, <3>3, <3>4 DEF FirstPrio
  <2> QED  BY <2>5, <2>6
<1> QED  BY <1>6, <1>7, <1>8 DEF PrioParts

(* The steps, of an application that releases in the opposite order.       *)
LEMMA PrioStepOK ==
    ASSUME WaitInv, MutexInv, PrioParts, "anyOrder" \notin ops, Next
    PROVE  PrioParts'
<1>1. CASE Aside(MutexStep, Mutex) /\ UNCHANGED <<mx, stack>> /\ k'.prio = k.prio
  <2>1. \A u \in Task, m \in Mutex : Handed(u, m)' => Handed(u, m)
    BY <1>1 DEF Handed, Aside, MutexStep
  <2> QED  BY <1>1, <2>1, PrioSame
<1>2. ASSUME NEW t \in Task, Mutexes(t)
      PROVE  PrioParts'
  <2>1. CASE Quiet(t)
    BY <2>1, PrioQuiet
  <2>2. CASE \E m \in Mutex : /\ MutexTakeAgain(t, m) \/ MutexTakeFree(t, m)
                              /\ Shift(t, {})
    BY <2>2, PrioTakes
  <2>3. CASE MutexTaken(t) /\ Shift(t, {})
    BY <2>3, PrioReturns
  <2>4. CASE \E m \in Mutex : /\ MutexReleaseInner(t, m) /\ Releases(t, m)
                              /\ Shift(t, {})
    BY <2>4, PrioInner
  <2>5. CASE \E m \in Mutex : MutexReleaseLast(t, m) /\ Releases(t, m)
    BY <2>5, PrioRelease
  <2>6. CASE \E m \in Mutex, d \in 0..Forever :
                 MutexWait(t, m, d) /\ k'.prio = Inherit(k, t, m).prio
    BY <2>6, PrioWait
  <2> QED  BY <1>2, <2>1, <2>2, <2>3, <2>4, <2>5, <2>6, MutexCases
<1> QED  BY <1>1, <1>2, MutexNext

(* The priorities of the first state are those the tasks were started with.*)
LEMMA PrioFirst ==
    ASSUME IsFiniteSet(Task), Init
    PROVE  PrioParts
<1>1. /\ stack = [t \in Task |-> <<>>] /\ pc = [t \in Task |-> "app"]
      /\ k.prio = BasePrio
  BY WaitFirst DEF Init, MutexInit, WaitInit
<1> QED  BY <1>1 DEF PrioParts, OwnPrio, FirstPrio, Handed

(* However often the mutexes it held have raised a task, it has its own    *)
(* priority again when it owns none: if the application releases them in   *)
(* the opposite of the order in which it took them.                        *)
THEOREM PrioritiesRestored ==
    ASSUME IsFiniteSet(Task), \A D \in Uses : "anyOrder" \notin D
    PROVE  Spec => []PriorityRestored
<1>1. Init => PrioParts /\ ops \in Uses
  BY PrioFirst DEF Init
<1>2. WaitInv /\ MutexInv /\ PrioParts /\ ops \in Uses /\ [Next]_vars
        => PrioParts' /\ (ops \in Uses)'
  <2>1. ASSUME WaitInv, MutexInv, PrioParts, ops \in Uses, Next
        PROVE  PrioParts' /\ ops' = ops
    <3>1. PrioParts'
      BY <2>1, PrioStepOK
    <3>2. ops' = ops
      BY <2>1 DEF Next, Mbox, Mqueue, Mutexes, Events, Mpool, MboxIsr, MqueueIsr,
                  EventIsr, MpoolIsr, KernelWork, SameObjects
    <3> QED  BY <3>1, <3>2
  <2>2. ASSUME PrioParts, UNCHANGED vars
        PROVE  PrioParts' /\ ops' = ops
    BY <2>2 DEF vars, PrioParts, OwnPrio, FirstPrio, Handed
  <2> QED  BY <2>1, <2>2
<1>3. PrioParts => PriorityRestored
  BY PrioForm DEF PrioInv
<1> QED  BY <1>1, <1>2, <1>3, MutexInductive, PTL DEF Spec

-----------------------------------------------------------------------------
(* The mailbox *)

(* Offsets in a ring of Size slots.                                        *)
LEMMA RingOffset ==
    ASSUME NEW o \in 0..Size - 1, NEW i \in 0..Size
    PROVE  (o + i) % Size = IF o + i < Size THEN o + i ELSE o + i - Size
<1>1. Size \in Nat /\ Size > 0
  BY MboxAssumption
<1>2. CASE o + i < Size
  BY <1>1, <1>2, Z3
<1>3. CASE o + i >= Size
  BY <1>1, <1>3, Z3
<1> QED  BY <1>1, <1>2, <1>3

(* An offset beyond the end of the ring,                                   *)
LEMMA Wrapped ==
    ASSUME NEW z \in Int, NEW o \in Int, NEW c \in Int, NEW i \in Int,
           0 <= o, o < z, 0 <= c, c < z, 1 <= i, i <= c + 1,
           NEW a, a = IF o + i - 1 < z THEN o + i - 1 ELSE o + i - 1 - z,
           NEW b, b = IF o + c < z THEN o + c ELSE o + c - z
    PROVE  a = b <=> i = c + 1
OBVIOUS

(* and one that moves by one.                                              *)
LEMMA Advanced ==
    ASSUME NEW z \in Int, NEW o \in Int, NEW i \in Int,
           0 <= o, o < z, 1 <= i, i <= z,
           NEW n, n = IF o + 1 < z THEN o + 1 ELSE 0,
           NEW a, a = IF n + (i - 1) < z THEN n + (i - 1) ELSE n + (i - 1) - z,
           NEW b, b = IF o + i < z THEN o + i ELSE o + i - z
    PROVE  a = b
OBVIOUS

(* os_mbox_put stores at in, which is no slot of the ring.                 *)
LEMMA StoreRing ==
    ASSUME WaitInv, MailInv, mb.entry < Size, NEW v \in Msg, Store(v)
    PROVE  /\ mb' \in Mailbox /\ mb'.in = (mb'.out + mb'.entry) % Size
           /\ \A i \in 1..mb'.entry : mb'.pool[(mb'.out + i - 1) % Size] \in Msg
           /\ Ring' = Append(Ring, v) /\ Len(Ring) = mb.entry
<1>1. /\ Size \in Nat /\ Size > 0
      /\ mb.in \in 0..Size - 1 /\ mb.out \in 0..Size - 1 /\ mb.entry \in 0..Size
      /\ mb.pool \in [0..Size - 1 -> Msg \cup {NoVal}]
  BY MboxAssumption DEF MailInv, Mailbox
<1> DEFINE p == [mb.pool EXCEPT ![mb.in] = v]
           n == NextOffset(mb.in)
           e == mb.entry + 1
<1>2. mb' = [mb EXCEPT !.pool = p, !.in = n, !.entry = e]
  BY DEF Store, MailInv, Mailbox
<1>3. n \in 0..Size - 1 /\ e \in 0..Size /\ p \in [0..Size - 1 -> Msg \cup {NoVal}]
  BY <1>1 DEF NextOffset
<1>4. /\ p[mb.in] = v
      /\ \A j \in 0..Size - 1 : j # mb.in => p[j] = mb.pool[j]
  BY <1>1
<1>5. n = IF mb.in + 1 < Size THEN mb.in + 1 ELSE 0
  BY <1>1 DEF NextOffset
<1> HIDE DEF p, n
<1>6. /\ mb' \in Mailbox /\ mb'.pool = p /\ mb'.in = n /\ mb'.entry = e
      /\ mb'.out = mb.out
  BY <1>2, <1>3 DEF MailInv, Mailbox
<1>7. /\ mb.in = IF mb.out + mb.entry < Size THEN mb.out + mb.entry
                 ELSE mb.out + mb.entry - Size
      /\ (mb.out + e) % Size = IF mb.out + e < Size THEN mb.out + e
                               ELSE mb.out + e - Size
  BY <1>1, <1>3, RingOffset DEF MailInv
<1>8. n = (mb.out + e) % Size
  <2> DEFINE a == (mb.out + e) % Size
             b == mb.in
             c == mb.entry
             o == mb.out
  <2>1. /\ b = IF o + c < Size THEN o + c ELSE o + c - Size
        /\ a = IF o + (c + 1) < Size THEN o + (c + 1) ELSE o + (c + 1) - Size
        /\ n = IF b + 1 < Size THEN b + 1 ELSE 0
        /\ Size \in Int /\ o \in Int /\ c \in Int
        /\ 0 <= o /\ o < Size /\ 0 <= c /\ c < Size
    BY <1>1, <1>5, <1>7
  <2> HIDE DEF a, b, c, o
  <2>2. a = n
    BY <2>1
  <2> QED  BY <2>2 DEF a, o
<1> DEFINE at(i) == (mb.out + i - 1) % Size
<1>9. ASSUME NEW i \in 1..e
      PROVE  /\ at(i) \in 0..Size - 1
             /\ at(i) = mb.in <=> i = e
  <2>1. i - 1 \in 0..Size /\ mb.out + (i - 1) = mb.out + i - 1
    BY <1>1, <1>3
  <2>2. at(i) = IF mb.out + i - 1 < Size THEN mb.out + i - 1
                ELSE mb.out + i - 1 - Size
    BY <1>1, <2>1, RingOffset
  <2>3. /\ i \in Int /\ 1 <= i /\ i <= e /\ e = mb.entry + 1
        /\ mb.out \in Int /\ 0 <= mb.out /\ mb.out < Size
        /\ mb.entry \in Int /\ 0 <= mb.entry /\ mb.entry < Size
    BY <1>1
  <2> HIDE DEF at
  <2>4. at(i) \in 0..Size - 1
    BY <1>1, <2>2, <2>3
  <2>5. at(i) = mb.in <=> i = e
    <3>1. mb.in = IF mb.out + mb.entry < Size THEN mb.out + mb.entry
                  ELSE mb.out + mb.entry - Size
      BY <1>7
    <3> QED  BY <1>1, <2>2, <2>3, <3>1, Wrapped
  <2> QED  BY <2>4, <2>5
<1>10. \A i \in 1..mb.entry : mb.pool[at(i)] \in Msg
  BY DEF MailInv
<1> HIDE DEF at
<1>11. \A i \in 1..e : p[at(i)] = IF i = e THEN v ELSE mb.pool[at(i)]
  BY <1>4, <1>9
<1>12. Ring = [i \in 1..mb.entry |-> mb.pool[at(i)]]
  BY DEF Ring, at
<1>13. Ring' = [i \in 1..e |-> p[at(i)]]
  BY <1>6 DEF Ring, at
<1>14. Ring \in Seq(Msg) /\ Len(Ring) = mb.entry
  BY <1>1, <1>10, <1>12
<1>15. Ring' = Append(Ring, v)
  <2>1. /\ Append(Ring, v) \in Seq(Msg) /\ Len(Append(Ring, v)) = e
        /\ \A i \in 1..e : Append(Ring, v)[i] = IF i = e THEN v ELSE Ring[i]
    BY <1>1, <1>14
  <2>2. \A i \in 1..e : p[at(i)] = IF i = e THEN v ELSE Ring[i]
    BY <1>1, <1>11, <1>12
  <2>3. \A i \in 1..e : p[at(i)] \in Msg
    BY <1>1, <1>10, <1>11
  <2>4. Ring' \in Seq(Msg) /\ Len(Ring') = e
    BY <1>1, <1>13, <2>3
  <2>5. \A i \in 1..e : Ring'[i] = Append(Ring, v)[i]
    BY <1>13, <2>1, <2>2
  <2> QED  BY <2>1, <2>4, <2>5, SeqEqual
<1>16. \A i \in 1..e : p[at(i)] \in Msg
  BY <1>1, <1>10, <1>11
<1> QED  BY <1>6, <1>8, <1>14, <1>15, <1>16 DEF at

(* os_mbox_get takes the message at out, the oldest.                       *)
LEMMA TakeRing ==
    ASSUME WaitInv, MailInv, mb.entry > 0,
           mb' = [mb EXCEPT !.out = NextOffset(@), !.entry = @ - 1]
    PROVE  /\ mb' \in Mailbox /\ mb'.in = (mb'.out + mb'.entry) % Size
           /\ \A i \in 1..mb'.entry : mb'.pool[(mb'.out + i - 1) % Size] \in Msg
           /\ Ring # <<>> /\ Ring' = Tail(Ring)
           /\ mb.pool[mb.out] = Head(Ring) /\ Head(Ring) \in Msg
<1>1. /\ Size \in Nat /\ Size > 0
      /\ mb.in \in 0..Size - 1 /\ mb.out \in 0..Size - 1 /\ mb.entry \in 1..Size
      /\ mb.pool \in [0..Size - 1 -> Msg \cup {NoVal}]
  BY MboxAssumption DEF MailInv, Mailbox
<1> DEFINE n == NextOffset(mb.out)
           e == mb.entry - 1
<1>2. mb' = [mb EXCEPT !.out = n, !.entry = e]
  BY DEF MailInv, Mailbox
<1>3. n \in 0..Size - 1 /\ e \in 0..Size
  BY <1>1 DEF NextOffset
<1>4. n = IF mb.out + 1 < Size THEN mb.out + 1 ELSE 0
  BY <1>1 DEF NextOffset
<1> HIDE DEF n
<1>5. /\ mb' \in Mailbox /\ mb'.pool = mb.pool /\ mb'.in = mb.in
      /\ mb'.entry = e /\ mb'.out = n
  BY <1>2, <1>3 DEF MailInv, Mailbox
<1>6. mb.in = (n + e) % Size
  <2>1. mb.in = IF mb.out + mb.entry < Size THEN mb.out + mb.entry
                ELSE mb.out + mb.entry - Size
    <3>1. mb.entry \in 0..Size
      BY <1>1
    <3> QED  BY <1>1, <3>1, RingOffset DEF MailInv
  <2>2. (n + e) % Size = IF n + e < Size THEN n + e ELSE n + e - Size
    BY <1>3, RingOffset
  <2>3. /\ mb.out \in Int /\ 0 <= mb.out /\ mb.out < Size
        /\ mb.entry \in Int /\ 1 <= mb.entry /\ mb.entry <= Size
        /\ e = mb.entry - 1
    BY <1>1
  <2> DEFINE a == (n + e) % Size
             b == mb.in
             c == mb.entry
             o == mb.out
  <2>4. /\ a = IF n + (c - 1) < Size THEN n + (c - 1) ELSE n + (c - 1) - Size
        /\ b = IF o + c < Size THEN o + c ELSE o + c - Size
        /\ n = IF o + 1 < Size THEN o + 1 ELSE 0
        /\ Size \in Int /\ o \in Int /\ c \in Int
        /\ 0 <= o /\ o < Size /\ 1 <= c /\ c <= Size
    BY <1>1, <1>4, <2>1, <2>2, <2>3
  <2> HIDE DEF a, b, c, o
  <2>5. a = b
    BY <2>4, Advanced
  <2> QED  BY <2>5 DEF a, b
<1> DEFINE at(i) == (mb.out + i - 1) % Size
           to(i) == (n + i - 1) % Size
<1>7. \A i \in 1..e : to(i) = at(i + 1)
  <2> SUFFICES ASSUME NEW i \in 1..e PROVE to(i) = at(i + 1)
    OBVIOUS
  <2>1. i - 1 \in 0..Size /\ i \in 0..Size
    BY <1>1
  <2>2. (n + (i - 1)) % Size = IF n + (i - 1) < Size THEN n + (i - 1)
                               ELSE n + (i - 1) - Size
    BY <1>3, <2>1, RingOffset
  <2>3. (mb.out + i) % Size = IF mb.out + i < Size THEN mb.out + i
                              ELSE mb.out + i - Size
    BY <1>1, <2>1, RingOffset
  <2>4. n + (i - 1) = n + i - 1 /\ mb.out + (i + 1) - 1 = mb.out + i
    BY <1>1, <1>3
  <2>5. (n + (i - 1)) % Size = (mb.out + i) % Size
    <3>1. /\ mb.out \in Int /\ 0 <= mb.out /\ mb.out < Size
          /\ i \in Int /\ 1 <= i /\ i <= Size /\ n \in Int
      BY <1>1, <1>3
    <3> DEFINE a == (n + (i - 1)) % Size
               b == (mb.out + i) % Size
               o == mb.out
    <3>2. /\ a = IF n + (i - 1) < Size THEN n + (i - 1) ELSE n + (i - 1) - Size
          /\ b = IF o + i < Size THEN o + i ELSE o + i - Size
          /\ n = IF o + 1 < Size THEN o + 1 ELSE 0
          /\ Size \in Int /\ o \in Int /\ i \in Int
          /\ 0 <= o /\ o < Size /\ 1 <= i /\ i <= Size
      BY <1>1, <1>4, <2>2, <2>3, <3>1
    <3> HIDE DEF a, b, o
    <3>3. a = b
      BY <3>2, Advanced
    <3> QED  BY <3>3 DEF a, b
  <2> QED  BY <2>4, <2>5
<1>8. at(1) = mb.out
  <2>1. (mb.out + 0) % Size = mb.out
    <3>1. 0 \in 0..Size /\ mb.out + 0 = mb.out /\ mb.out < Size
      BY <1>1
    <3> QED  BY <1>1, <3>1, RingOffset
  <2> QED  BY <1>1, <2>1
<1>9. \A i \in 1..mb.entry : mb.pool[at(i)] \in Msg
  BY DEF MailInv
<1>10. Ring = [i \in 1..mb.entry |-> mb.pool[at(i)]]
  BY DEF Ring
<1>11. Ring' = [i \in 1..e |-> mb.pool[to(i)]]
  BY <1>5 DEF Ring
<1>12. \A i \in 1..e : mb'.pool[(mb'.out + i - 1) % Size] = mb.pool[to(i)]
  BY <1>5
<1> HIDE DEF at, to
<1>13. Ring \in Seq(Msg) /\ Len(Ring) = mb.entry /\ Ring # <<>>
  <2>1. PICK c \in Nat : c = mb.entry /\ c > 0
    BY <1>1
  <2>2. /\ Ring = [i \in 1..c |-> mb.pool[at(i)]]
        /\ \A i \in 1..c : mb.pool[at(i)] \in Msg
    BY <1>9, <1>10, <2>1
  <2>3. Ring \in Seq(Msg) /\ Len(Ring) = c
    BY <2>2
  <2> QED  BY <2>1, <2>3
<1>14. Ring' = Tail(Ring)
  <2>1. /\ Tail(Ring) \in Seq(Msg) /\ Len(Tail(Ring)) = e
        /\ \A i \in 1..e : Tail(Ring)[i] = Ring[i + 1]
    BY <1>1, <1>13
  <2>2. \A i \in 1..e : mb.pool[to(i)] = Ring[i + 1] /\ mb.pool[to(i)] \in Msg
    BY <1>1, <1>7, <1>9, <1>10
  <2>3. Ring' \in Seq(Msg) /\ Len(Ring') = e
    <3>1. PICK c \in Nat : c = e
      BY <1>1
    <3>2. /\ Ring' = [i \in 1..c |-> mb.pool[to(i)]]
          /\ \A i \in 1..c : mb.pool[to(i)] \in Msg
      BY <1>11, <2>2, <3>1
    <3>3. Ring' \in Seq(Msg) /\ Len(Ring') = c
      BY <3>2
    <3> QED  BY <3>1, <3>3
  <2>4. \A i \in 1..e : Ring'[i] = Tail(Ring)[i]
    BY <1>11, <2>1, <2>2
  <2> QED  BY <2>1, <2>3, <2>4, SeqEqual
<1>15. Head(Ring) = mb.pool[mb.out] /\ Head(Ring) \in Msg
  BY <1>1, <1>8, <1>9, <1>10, <1>13
<1>16. \A i \in 1..e : mb.pool[to(i)] \in Msg
  BY <1>1, <1>7, <1>9
<1> QED  BY <1>5, <1>6, <1>12, <1>13, <1>14, <1>15, <1>16

-----------------------------------------------------------------------------
(* What the abstract channel sees of a step *)

(* The message of t changes hands, and those of the others do not.         *)
LEMMA HandsOf ==
    ASSUME WaitInv, MailInv, NEW t \in Task, NEW s \in Step, NEW v \in Msg \cup {NoVal},
           pc' = [pc EXCEPT ![t] = s], val' = [val EXCEPT ![t] = v],
           s \in {"putBack", "got"} => v \in Msg
    PROVE  /\ pc' \in [Task -> Step] /\ val' \in [Task -> Val \cup {NoVal}]
           /\ \A u \in Task : pc'[u] \in {"putBack", "got"} => val'[u] \in Msg
           /\ Offered' = [Offered EXCEPT ![t] = IF s = "putBack" THEN v ELSE NoVal]
           /\ Received' = [Received EXCEPT ![t] = IF s = "got" THEN v ELSE NoVal]
           /\ Offered[t] = (IF pc[t] = "putBack" THEN val[t] ELSE NoVal)
           /\ Received[t] = IF pc[t] = "got" THEN val[t] ELSE NoVal
<1>1. pc \in [Task -> Step] /\ val \in [Task -> Val \cup {NoVal}] /\ Msg \subseteq Val
  BY WaitFacts, WaitAssumption
<1>2. /\ pc'[t] = s /\ val'[t] = v
      /\ \A u \in Task \ {t} : pc'[u] = pc[u] /\ val'[u] = val[u]
  BY <1>1
<1>3. pc' \in [Task -> Step] /\ val' \in [Task -> Val \cup {NoVal}]
  BY <1>1
<1>4. \A u \in Task : pc'[u] \in {"putBack", "got"} => val'[u] \in Msg
  BY <1>2 DEF MailInv
<1>5. Offered' = [Offered EXCEPT ![t] = IF s = "putBack" THEN v ELSE NoVal]
  BY <1>2 DEF Offered
<1>6. Received' = [Received EXCEPT ![t] = IF s = "got" THEN v ELSE NoVal]
  BY <1>2 DEF Received
<1> QED  BY <1>3, <1>4, <1>5, <1>6 DEF Offered, Received

(* A step that leaves the mailbox alone, of a task that neither sends nor  *)
(* has received.                                                           *)
LEMMA AsideStep ==
    ASSUME WaitInv, MailInv, mb' = mb, NEW t \in Task, NEW s \in Step,
           pc' = [pc EXCEPT ![t] = s], val' \in {val, [val EXCEPT ![t] = NoVal]},
           pc[t] \notin {"putBack", "got"}, s \notin {"putBack", "got"}
    PROVE  MailInv' /\ UNCHANGED MailChannel!cvars
<1>1. pc \in [Task -> Step] /\ val \in [Task -> Val \cup {NoVal}] /\ Msg \subseteq Val
  BY WaitFacts, WaitAssumption
<1>2. pc' \in [Task -> Step] /\ val' \in [Task -> Val \cup {NoVal}]
  BY <1>1
<1>3. /\ pc'[t] = s
      /\ \A u \in Task \ {t} : pc'[u] = pc[u] /\ val'[u] = val[u]
  BY <1>1
<1>4. Offered' = Offered /\ Received' = Received
  BY <1>3 DEF Offered, Received
<1>5. Ring' = Ring
  BY DEF Ring
<1>6. MailInv'
  BY <1>2, <1>3 DEF MailInv
<1> QED  BY <1>4, <1>5, <1>6 DEF MailChannel!cvars

(* os_mbox_put, os_mbox_put_wait and the end of a wait for a free slot.    *)
LEMMA SendStep ==
    ASSUME WaitInv, MailInv, NEW t \in Task,
           \/ \E v \in Msg : MboxPut(t, v) \/ \E d \in Timeout : MboxPutWait(t, v, d)
           \/ PutBack(t) \/ PutAgain(t) \/ PutFails(t)
    PROVE  MailInv' /\ [MailChannel!Next]_(MailChannel!cvars)
<1>1. /\ pc \in [Task -> Step] /\ val \in [Task -> Val \cup {NoVal}]
      /\ NoVal \notin Msg /\ "app" \in Step /\ "putBack" \in Step
  BY WaitFacts, WaitAssumption DEF Step, WaitStep, MboxStep
<1>2. ASSUME NEW v \in Msg, MboxPut(t, v)
      PROVE  MailInv' /\ MailChannel!Put(v)
  <2>1. /\ pc[t] = "app" /\ pc' = [pc EXCEPT ![t] = "app"]
        /\ val' = [val EXCEPT ![t] = NoVal]
        /\ mb.entry < Size /\ Store(v)
    BY <1>2 DEF MboxPut, PutStores, Calls, At, Finish, Goto
  <2>2. /\ MailInv' /\ Ring' = Append(Ring, v) /\ Len(Ring) = mb.entry
    BY <1>1, <2>1, StoreRing, HandsOf DEF MailInv
  <2>3. Offered' = Offered /\ Received' = Received
    BY <1>1, <2>1, HandsOf DEF Offered, Received
  <2> QED  BY <2>1, <2>2, <2>3 DEF MailChannel!Put, MailChannel!Room
<1>3. ASSUME NEW v \in Msg, NEW d \in Timeout, MboxPutWait(t, v, d)
      PROVE  MailInv' /\ MailChannel!Offer(t, v)
  <2>1. /\ pc[t] = "app" /\ pc' = [pc EXCEPT ![t] = "putBack"]
        /\ val' = [val EXCEPT ![t] = v] /\ mb' = mb
    BY <1>3 DEF MboxPutWait, Calls, At, BeginWait, Goto
  <2>2. /\ MailInv' /\ Ring' = Ring
    BY <1>1, <2>1, HandsOf DEF MailInv, Ring
  <2>3. /\ Offered' = [Offered EXCEPT ![t] = v] /\ Offered[t] = NoVal
        /\ Received' = [Received EXCEPT ![t] = NoVal] /\ Received[t] = NoVal
    BY <1>1, <2>1, HandsOf
  <2>4. Received' = Received
    BY <2>3 DEF Received
  <2> QED  BY <2>2, <2>3, <2>4 DEF MailChannel!Offer
<1>4. CASE PutBack(t)
  <2> DEFINE v == val[t]
  <2>1. /\ pc[t] = "putBack" /\ pc' = [pc EXCEPT ![t] = "app"]
        /\ val' = [val EXCEPT ![t] = NoVal]
        /\ mb.entry < Size /\ Store(v)
    BY <1>4 DEF PutBack, PutStores, At, Finish, Goto
  <2>2. v \in Msg
    BY <2>1 DEF MailInv
  <2>3. /\ MailInv' /\ Ring' = Append(Ring, v) /\ Len(Ring) = mb.entry
    BY <1>1, <2>1, <2>2, StoreRing, HandsOf DEF MailInv
  <2>4. /\ Offered' = [Offered EXCEPT ![t] = NoVal] /\ Offered[t] = v
        /\ Received' = [Received EXCEPT ![t] = NoVal] /\ Received[t] = NoVal
    BY <1>1, <2>1, HandsOf
  <2>5. Received' = Received
    BY <2>4 DEF Received
  <2>6. MailChannel!Accept(t)
    BY <1>1, <2>1, <2>2, <2>3, <2>4, <2>5 DEF MailChannel!Accept, MailChannel!Room
  <2> QED  BY <2>3, <2>6 DEF MailChannel!Next
<1>5. CASE PutAgain(t)
  <2>1. /\ pc[t] = "putBack" /\ pc' = [pc EXCEPT ![t] = "putBack"]
        /\ val' = val /\ mb' = mb
    BY <1>5 DEF PutAgain, At, BeginWait, Goto
  <2>2. pc' = pc
    BY <1>1, <2>1
  <2>3. MailInv' /\ UNCHANGED MailChannel!cvars
    BY <2>1, <2>2 DEF MailInv, MailChannel!cvars, Ring, Offered, Received
  <2> QED  BY <2>3
<1>6. CASE PutFails(t)
  <2>1. /\ pc[t] = "putBack" /\ pc' = [pc EXCEPT ![t] = "app"]
        /\ val' = [val EXCEPT ![t] = NoVal] /\ mb' = mb
    BY <1>6 DEF PutFails, At, Finish, Goto
  <2>2. val[t] \in Msg
    BY <2>1 DEF MailInv
  <2>3. /\ MailInv' /\ Ring' = Ring
    BY <1>1, <2>1, HandsOf DEF MailInv, Ring
  <2>4. /\ Offered' = [Offered EXCEPT ![t] = NoVal] /\ Offered[t] = val[t]
        /\ Received' = [Received EXCEPT ![t] = NoVal] /\ Received[t] = NoVal
    BY <1>1, <2>1, HandsOf
  <2>5. Received' = Received
    BY <2>4 DEF Received
  <2>6. MailChannel!Withdraw(t)
    BY <1>1, <2>2, <2>3, <2>4, <2>5 DEF MailChannel!Withdraw
  <2> QED  BY <2>3, <2>6 DEF MailChannel!Next
<1> QED  BY <1>2, <1>3, <1>4, <1>5, <1>6 DEF MailChannel!Next

(* os_mbox_get, the end of a wait for a message, and the return to the     *)
(* caller.                                                                 *)
LEMMA ReceiveStep ==
    ASSUME WaitInv, MailInv, NEW t \in Task,
           \/ MboxGet(t) \/ \E d \in Timeout : MboxGetWait(t, d)
           \/ GetBack(t) \/ GetAgain(t) \/ GetTimesOut(t) \/ GetFails(t) \/ Got(t)
    PROVE  MailInv' /\ [MailChannel!Next]_(MailChannel!cvars)
<1>1. /\ pc \in [Task -> Step] /\ val \in [Task -> Val \cup {NoVal}]
      /\ NoVal \notin Msg /\ {"app", "got", "getBack"} \subseteq Step
  BY WaitFacts, WaitAssumption DEF Step, WaitStep, MboxStep
<1>2. CASE MboxGet(t) \/ GetBack(t)
  <2> DEFINE v == mb.pool[mb.out]
  <2>1. /\ pc[t] \in {"app", "getBack"} /\ pc' = [pc EXCEPT ![t] = "got"]
        /\ val' = [val EXCEPT ![t] = v] /\ mb.entry > 0
        /\ mb' = [mb EXCEPT !.out = NextOffset(@), !.entry = @ - 1]
    BY <1>2 DEF MboxGet, GetBack, GetTakes, Calls, At, Goto
  <2>2. /\ mb' \in Mailbox /\ mb'.in = (mb'.out + mb'.entry) % Size
        /\ \A i \in 1..mb'.entry : mb'.pool[(mb'.out + i - 1) % Size] \in Msg
        /\ Ring # <<>> /\ Ring' = Tail(Ring) /\ v = Head(Ring) /\ v \in Msg
    BY <2>1, TakeRing
  <2>3. MailInv'
    BY <1>1, <2>1, <2>2, HandsOf DEF MailInv
  <2>4. /\ Offered' = [Offered EXCEPT ![t] = NoVal] /\ Offered[t] = NoVal
        /\ Received' = [Received EXCEPT ![t] = v] /\ Received[t] = NoVal
    BY <1>1, <2>1, <2>2, HandsOf
  <2>5. Offered' = Offered
    BY <2>4 DEF Offered
  <2>6. MailChannel!Receive(t)
    BY <2>2, <2>4, <2>5 DEF MailChannel!Receive
  <2> QED  BY <2>3, <2>6 DEF MailChannel!Next
<1>3. CASE \E d \in Timeout : MboxGetWait(t, d)
  <2>1. /\ pc[t] = "app" /\ pc' = [pc EXCEPT ![t] = "getBack"]
        /\ val' = val /\ mb' = mb
    BY <1>3 DEF MboxGetWait, Calls, At, BeginWait, Goto
  <2> QED  BY <1>1, <2>1, AsideStep
<1>4. CASE GetAgain(t)
  <2>1. /\ pc[t] = "getBack" /\ pc' = [pc EXCEPT ![t] = "getBack"]
        /\ val' = val /\ mb' = mb
    BY <1>4 DEF GetAgain, At, BeginWait, Goto
  <2> QED  BY <1>1, <2>1, AsideStep
<1>5. CASE GetTimesOut(t) \/ GetFails(t)
  <2>1. /\ pc[t] = "getBack" /\ pc' = [pc EXCEPT ![t] = "app"]
        /\ val' = [val EXCEPT ![t] = NoVal] /\ mb' = mb
    BY <1>5 DEF GetTimesOut, GetFails, At, Finish, Goto
  <2> QED  BY <1>1, <2>1, AsideStep
<1>6. CASE Got(t)
  <2>1. /\ pc[t] = "got" /\ pc' = [pc EXCEPT ![t] = "app"]
        /\ val' = [val EXCEPT ![t] = NoVal] /\ mb' = mb
    BY <1>6 DEF Got, At, Finish, Goto
  <2>2. val[t] \in Msg
    BY <2>1 DEF MailInv
  <2>3. /\ MailInv' /\ Ring' = Ring
    BY <1>1, <2>1, HandsOf DEF MailInv, Ring
  <2>4. /\ Offered' = [Offered EXCEPT ![t] = NoVal] /\ Offered[t] = NoVal
        /\ Received' = [Received EXCEPT ![t] = NoVal] /\ Received[t] = val[t]
    BY <1>1, <2>1, HandsOf
  <2>5. Offered' = Offered
    BY <2>4 DEF Offered
  <2>6. MailChannel!Return(t)
    BY <1>1, <2>2, <2>3, <2>4, <2>5 DEF MailChannel!Return
  <2> QED  BY <2>3, <2>6 DEF MailChannel!Next
<1> QED  BY <1>2, <1>3, <1>4, <1>5, <1>6

(* os_mbox_reset, and os_mbox_delete as far as it is a step of its own.    *)
LEMMA EmptyStep ==
    ASSUME WaitInv, MailInv, NEW t \in Task, MboxReset(t) \/ MboxDelete(t)
    PROVE  MailInv' /\ [MailChannel!Next]_(MailChannel!cvars)
<1>1. /\ pc \in [Task -> Step] /\ "resume" \in Step
      /\ Size \in Nat /\ Size > 0
  BY WaitFacts, MboxAssumption DEF Step, WaitStep
<1>2. CASE MboxReset(t)
  <2>1. /\ pc' = pc /\ val' = val
        /\ mb' = [mb EXCEPT !.entry = 0, !.in = 0, !.out = 0]
    BY <1>2 DEF MboxReset
  <2>2. /\ mb' \in Mailbox /\ mb'.entry = 0 /\ mb'.in = 0 /\ mb'.out = 0
    <3> DEFINE z == 0
    <3>1. z \in 0..Size - 1 /\ z \in 0..Size
      BY <1>1
    <3>2. mb' = [mb EXCEPT !.entry = z, !.in = z, !.out = z]
      BY <2>1
    <3> HIDE DEF z
    <3>3. /\ mb' \in Mailbox /\ mb'.entry = z /\ mb'.in = z /\ mb'.out = z
      BY <3>1, <3>2 DEF MailInv, Mailbox
    <3> QED  BY <3>3 DEF z
  <2>3. (0 + 0) % Size = 0
    BY <1>1, RingOffset
  <2>4. MailInv'
    BY <2>1, <2>2, <2>3 DEF MailInv
  <2>5. Ring' = <<>> /\ Offered' = Offered /\ Received' = Received
    BY <2>1, <2>2 DEF Ring, Offered, Received
  <2> QED  BY <2>4, <2>5 DEF MailChannel!Next, MailChannel!Reset
<1>3. CASE MboxDelete(t)
  <2>1. /\ pc[t] = "app" /\ pc' = [pc EXCEPT ![t] = "resume"]
        /\ val' = val /\ mb' = mb
    BY <1>3 DEF MboxDelete, Calls, At, ResumeLists, Goto
  <2> QED  BY <1>1, <2>1, AsideStep
<1> QED  BY <1>2, <1>3

(* A step of the other functions and of the kernel.                        *)
LEMMA MailAside ==
    ASSUME WaitInv, MailInv, Aside(MboxStep, {Recv, Send}), mb' = mb
    PROVE  MailInv' /\ UNCHANGED MailChannel!cvars
<1>1. \A u \in Task : \/ pc[u] \notin MboxStep /\ pc'[u] \notin MboxStep
                      \/ pc'[u] = pc[u] /\ val'[u] = val[u]
  BY DEF Aside
<1>2. Offered' = Offered /\ Received' = Received
  BY <1>1 DEF Offered, Received, MboxStep
<1>3. Ring' = Ring
  BY DEF Ring
<1>4. MailInv'
  BY <1>1 DEF MailInv, MboxStep
<1> QED  BY <1>2, <1>3, <1>4 DEF MailChannel!cvars

(* An interrupt handler sends.                                             *)
LEMMA MailIsr ==
    ASSUME WaitInv, MailInv, MboxIsr
    PROVE  MailInv' /\ [MailChannel!Next]_(MailChannel!cvars)
<1>1. PICK v \in Msg : MboxIsrPut(v)
  BY DEF MboxIsr
<1>2. pc' = pc /\ val' = val /\ mb.entry < Size /\ Store(v)
  BY <1>1 DEF MboxIsrPut
<1>3. MailInv' /\ Ring' = Append(Ring, v) /\ Len(Ring) = mb.entry
  BY <1>2, StoreRing DEF MailInv
<1>4. Offered' = Offered /\ Received' = Received
  BY <1>2 DEF Offered, Received
<1>5. MailChannel!Put(v)
  BY <1>2, <1>3, <1>4 DEF MailChannel!Put, MailChannel!Room
<1> QED  BY <1>3, <1>5 DEF MailChannel!Next

(* Each step is a step of the channel or leaves it alone.                  *)
LEMMA MailStep ==
    ASSUME WaitInv, MailInv, Next
    PROVE  MailInv' /\ [MailChannel!Next]_(MailChannel!cvars)
<1>1. CASE Aside(MboxStep, {Recv, Send}) /\ UNCHANGED mb
  BY <1>1, MailAside
<1>2. ASSUME NEW t \in Task, Mbox(t)
      PROVE  MailInv' /\ [MailChannel!Next]_(MailChannel!cvars)
  BY <1>2, SendStep, ReceiveStep, EmptyStep DEF Mbox, MboxCall, MboxContinue
<1> QED  BY <1>1, <1>2, MailIsr, MboxNext

(* The ring of os_mbox.c is a bounded first-in-first-out channel: a        *)
(* message enters it once, at its end, while the call that sends it is in  *)
(* progress, and is received once, whoever waits, gives up or resets.      *)
THEOREM MailboxImplemented ==
    ASSUME IsFiniteSet(Task)
    PROVE  Spec => ImplementsMail
<1>1. Init => MailInv /\ MailChannel!Init
  <2> SUFFICES ASSUME Init PROVE MailInv /\ MailChannel!Init
    OBVIOUS
  <2>1. Size \in Nat /\ Size > 0
    BY MboxAssumption
  <2>2. /\ pc = [t \in Task |-> "app"] /\ val = [t \in Task |-> NoVal]
        /\ mb = [pool |-> [i \in 0..Size - 1 |-> NoVal],
                 entry |-> 0, in |-> 0, out |-> 0]
    BY DEF Init, WaitInit, MboxInit
  <2>3. mb \in Mailbox /\ mb.entry = 0 /\ mb.in = 0 /\ mb.out = 0
    BY <2>1, <2>2 DEF Mailbox
  <2>4. (0 + 0) % Size = 0
    BY <2>1, RingOffset
  <2>5. MailInv
    BY <2>2, <2>3, <2>4 DEF MailInv
  <2>6. MailChannel!Init
    BY <2>2, <2>3 DEF MailChannel!Init, Ring, Offered, Received
  <2> QED  BY <2>5, <2>6
<1>2. WaitInv /\ MailInv /\ [Next]_vars
         => MailInv' /\ [MailChannel!Next]_(MailChannel!cvars)
  <2>1. UNCHANGED vars => Aside(MboxStep, {Recv, Send}) /\ UNCHANGED mb
    BY DEF vars, Aside, Waiters
  <2> QED  BY <2>1, MailStep, MailAside
<1> QED  BY <1>1, <1>2, WaitInductive, PTL DEF Spec, ImplementsMail, MailChannel!Spec

-----------------------------------------------------------------------------
(* The tasks that were resumed and are on their way                        *)

(* The tasks that wait for o do it at step s.                              *)
WaitsAt(o, s) ==
    \/ o = Recv /\ s = "getBack"
    \/ o = Send /\ s = "putBack"
    \/ o = Queue /\ s = "mqGetBack"
    \/ o = Pool /\ s = "allocBack"

(* There are as many of them as there are things to take, when others wait.*)
Enough(o, s, n) == Waiters(o) # {} => n <= Cardinality(Woken(s, o))

(* What a step of t that makes m of the n things may do.                   *)
Serves(t, o, s, n, m) ==
    /\ \A u \in Task \ {t} :
          pc[u] = s => /\ pc'[u] = s
                       /\ k.stat[u] = "READY" => k'.error[u] = k.error[u]
    /\ \/ m <= 0
       \/ Waiters(o)' = {}
       \/ /\ Waiters(o)' \subseteq Waiters(o)
          /\ \/ m <= n /\ t \notin Woken(s, o)
             \/ m + 1 <= n
             \/ /\ m <= n + 1 /\ t \notin Woken(s, o)
                /\ Waiters(o)' # {} =>
                      \E w \in Waiters(o) \ {t} : /\ w \notin Waiters(o)'
                                                  /\ k'.error[w] = "OS_OK"

(* The tasks on their way can be counted.                                  *)
LEMMA WokenFinite ==
    ASSUME IsFiniteSet(Task), NEW s, NEW o
    PROVE  /\ Woken(s, o) \subseteq Task
           /\ IsFiniteSet(Woken(s, o)) /\ Cardinality(Woken(s, o)) \in Nat
<1>1. Woken(s, o) \subseteq Task
  BY DEF Woken
<1>2. IsFiniteSet(Woken(s, o))
  BY <1>1, FS_Subset
<1> QED  BY <1>1, <1>2, FS_CardinalityType

(* A task on its way runs, or could.                                       *)
LEMMA WokenReady ==
    ASSUME WaitInv, NEW o, NEW s, WaitsAt(o, s), NEW u \in Woken(s, o)
    PROVE  u \in Task /\ pc[u] = s /\ k.stat[u] = "READY" /\ k.error[u] = "OS_OK"
<1>1. u \in Task /\ pc[u] = s /\ u \notin Waiters(o) /\ k.error[u] = "OS_OK"
  BY DEF Woken
<1>2. \A q \in Obj : u \notin Waiters(q)
  BY <1>1 DEF WaitInv, PlacesOK, Place, WaitsAt
<1> QED  BY <1>1, <1>2 DEF WaitInv, Works, SleepersOK, WaitsAt

(* Such a step keeps the tasks on their way enough.                        *)
LEMMA EnoughKept ==
    ASSUME WaitInv, IsFiniteSet(Task), NEW t, NEW o \in Obj, NEW s, WaitsAt(o, s),
           NEW n \in Int, NEW m \in Int, Enough(o, s, n), Serves(t, o, s, n, m)
    PROVE  Waiters(o)' # {} => m <= Cardinality(Woken(s, o)')
<1> DEFINE A == Woken(s, o)
           B == Woken(s, o)'
<1>1. IsFiniteSet(A) /\ Cardinality(A) \in Nat
  BY WokenFinite
<1>2. IsFiniteSet(B) /\ Cardinality(B) \in Nat
  <2>1. B \subseteq Task
    BY DEF Woken
  <2>2. IsFiniteSet(B)
    BY <2>1, FS_Subset
  <2> QED  BY <2>2, FS_CardinalityType
<1>3. ASSUME Waiters(o)' \subseteq Waiters(o), NEW u \in A, u # t
      PROVE  u \in B
  <2>1. u \in Task /\ pc[u] = s /\ k.stat[u] = "READY" /\ k.error[u] = "OS_OK"
    BY <1>3, WokenReady
  <2>2. u \notin Waiters(o)'
    BY <1>3 DEF Woken
  <2>3. pc'[u] = s /\ k'.error[u] = "OS_OK"
    BY <1>3, <2>1 DEF Serves
  <2> QED  BY <2>1, <2>2, <2>3 DEF Woken
<1> SUFFICES ASSUME Waiters(o)' # {} PROVE m <= Cardinality(B)
  OBVIOUS
<1>4. CASE m <= 0
  BY <1>2, <1>4
<1>5. ASSUME Waiters(o)' \subseteq Waiters(o)
      PROVE  n <= Cardinality(A)
  BY <1>5 DEF Enough
<1> HIDE DEF A, B
<1>6. CASE Waiters(o)' \subseteq Waiters(o) /\ m <= n /\ t \notin A
  <2>1. A \subseteq B
    BY <1>3, <1>6
  <2>2. Cardinality(A) <= Cardinality(B)
    BY <1>2, <2>1, FS_Subset
  <2> QED  BY <1>1, <1>2, <1>5, <1>6, <2>2
<1>7. CASE Waiters(o)' \subseteq Waiters(o) /\ m + 1 <= n
  <2>1. A \ {t} \subseteq B
    BY <1>3, <1>7
  <2>2. Cardinality(A) <= Cardinality(B) + 1
    BY <1>1, <1>2, <2>1, OneLess
  <2> QED  BY <1>1, <1>2, <1>5, <1>7, <2>2
<1>8. ASSUME Waiters(o)' \subseteq Waiters(o), m <= n + 1, t \notin A,
             NEW w \in Waiters(o) \ {t}, w \notin Waiters(o)', k'.error[w] = "OS_OK"
      PROVE  m <= Cardinality(B)
  <2>1. A \subseteq B
    BY <1>3, <1>8
  <2>2. w \in Task /\ pc[w] = s
    BY <1>8, WaitFacts, ObjectsDiffer DEF WaitInv, PlacesOK, Place, WaitsAt
  <2>3. w \in B
    BY <1>8, <2>2 DEF B, Woken, Serves
  <2>4. w \notin A
    BY <1>8 DEF A, Woken
  <2>5. Cardinality(A) + 1 <= Cardinality(B)
    BY <1>1, <1>2, <2>1, <2>3, <2>4, OneMore
  <2> QED  BY <1>1, <1>2, <1>5, <1>8, <2>5
<1> QED  BY <1>4, <1>6, <1>7, <1>8 DEF Serves, A

(* The steps that make no thing, and take one at most.                     *)
Steady(t, s) ==
    \A u \in Task \ {t} :
       pc[u] = s => /\ pc'[u] = s
                    /\ k.stat[u] = "READY" => k'.error[u] = k.error[u]

(* A step of another object makes nothing and takes nothing,               *)
LEMMA AsideServes ==
    ASSUME WaitInv, NEW S, NEW Os, Aside(S, Os), NEW o \in Os, NEW s \in S, NEW n \in Int,
           NEW t, t \notin Task
    PROVE  Serves(t, o, s, n, n)
<1>1. Waiters(o)' \subseteq Waiters(o) /\ t \notin Woken(s, o)
  BY DEF Aside, Woken
<1>2. \A u \in Task : pc[u] = s => /\ pc'[u] = s
                                   /\ k.stat[u] = "READY" => k'.error[u] = k.error[u]
  BY DEF Aside
<1> QED  BY <1>1, <1>2 DEF Serves

(* and one of the object moves nobody but t.                               *)
LEMMA ShiftSteady ==
    ASSUME NEW t, NEW Os, NEW s, Shift(t, Os)
    PROVE  Steady(t, s)
BY DEF Steady, Shift

(* The kernel gives the next one what was made.                            *)
LEMMA HeadServes ==
    ASSUME WaitInv, k.isr = 0, NEW o \in Obj, NEW s, NEW t \in Task, k.stat[t] = "READY",
           k' = ResumeHead(k, o) \/ k' = IsrResumeHead(k, o),
           Steady(t, s), t \notin Woken(s, o), NEW n \in Int
    PROVE  /\ Serves(t, o, s, n, n + 1)
           /\ \A q \in Obj : Waiters(q)' \subseteq Waiters(q)
<1>1. Works(k)
  BY WaitFacts
<1>2. /\ Ends(k, k', Firsts(k, o)) /\ k'.error = k.error
      /\ Firsts(k, o) \subseteq ToSet(k.pend[o])
  BY <1>1, ResumeHeadEnds, IsrResumeHeadEnds
<1>3. \A q \in Obj : Waiters(q)' = Waiters(q) \ Firsts(k, o)
  BY <1>2 DEF Ends, Waiters
<1>4. ASSUME Waiters(o) # {}
      PROVE  \E w \in Waiters(o) \ {t} : w \notin Waiters(o)' /\ k'.error[w] = "OS_OK"
  <2>1. k.pend[o] # <<>>
    BY <1>4 DEF Waiters, ToSet
  <2>2. PICK w : w \in Firsts(k, o)
    BY <2>1 DEF Firsts
  <2>3. w \in Waiters(o)
    BY <1>2, <2>2 DEF Waiters
  <2>4. w # t /\ k.error[w] = "OS_OK"
    BY <2>3, WaitFacts DEF WaitInv, PlacesOK
  <2> QED  BY <1>2, <1>3, <2>2, <2>3, <2>4
<1>5. Waiters(o)' \subseteq Waiters(o) /\ n + 1 <= n + 1
  BY <1>3
<1> QED  BY <1>3, <1>4, <1>5 DEF Serves, Steady

(* A call that waits, and one that only ends.                              *)
LEMMA WaitServes ==
    ASSUME WaitInv, k.isr = 0, NEW t \in Task, t # Idle, k.stat[t] = "READY",
           NEW o \in Obj, NEW d \in Nat, k' = WaitIn(k, o, t, d)
    PROVE  \A q \in Obj \ {o} : Waiters(q)' \subseteq Waiters(q)
<1>1. Works(k)
  BY WaitFacts
<1>2. Begins(k, k', {o}, t)
  BY <1>1, WaitInBegins
<1> QED  BY <1>2 DEF Begins, Waiters

(* A call that ends puts nobody in a list.                                 *)
LEMMA OverServes ==
    ASSUME WaitInv, k' = k \/ \E t \in Task : \E e : k' = SetError(k, t, e)
    PROVE  \A q \in Obj : Waiters(q)' \subseteq Waiters(q)
<1>1. k'.pend = k.pend
  BY WaitFacts DEF SetError, Kernel
<1> QED  BY <1>1 DEF Waiters

-----------------------------------------------------------------------------
(* The receivers and the senders of the mailbox                            *)

MailServes(t) ==
    /\ Serves(t, Recv, "getBack", mb.entry, mb'.entry)
    /\ Serves(t, Send, "putBack", Size - mb.entry, Size - mb'.entry)

(* What the proofs below take from the invariant.                          *)
LEMMA MailboxFacts ==
    ASSUME WaitInv
    PROVE  /\ mb.entry \in 0..Size /\ Size \in Nat /\ Size > 0 /\ mb \in Mailbox
           /\ Recv \in Obj /\ Send \in Obj /\ Recv # Send
           /\ WaitsAt(Recv, "getBack") /\ WaitsAt(Send, "putBack")
BY MboxAssumption, ObjectsDiffer DEF WaitInv, Mailbox, WaitsAt

(* A message is stored.                                                    *)
LEMMA PutServes ==
    ASSUME WaitInv, NEW t \in Task, k.stat[t] = "READY", k.isr = 0,
           k' = ResumeHead(k, Recv) \/ k' = IsrResumeHead(k, Recv),
           pc[t] # "getBack", Steady(t, "getBack"), Steady(t, "putBack"),
           mb.entry < Size, NEW v, Store(v)
    PROVE  MailServes(t)
<1>1. mb'.entry = mb.entry + 1
  BY MailboxFacts DEF Store, Mailbox
<1>2. t \notin Woken("getBack", Recv) /\ mb.entry \in Int
  BY MailboxFacts DEF Woken
<1>3. /\ Serves(t, Recv, "getBack", mb.entry, mb.entry + 1)
      /\ \A q \in Obj : Waiters(q)' \subseteq Waiters(q)
  BY <1>2, MailboxFacts, HeadServes
<1>4. Waiters(Send)' \subseteq Waiters(Send)
  BY <1>3, MailboxFacts
<1>5. (Size - mb'.entry) + 1 <= Size - mb.entry
  BY <1>1, MailboxFacts
<1>6. Serves(t, Send, "putBack", Size - mb.entry, Size - mb'.entry)
  BY <1>4, <1>5 DEF Serves, Steady
<1> QED  BY <1>1, <1>3, <1>6 DEF MailServes

(* A message is taken.                                                     *)
LEMMA GetServes ==
    ASSUME WaitInv, NEW t \in Task, k.stat[t] = "READY", k.isr = 0,
           k' = ResumeHead(k, Send),
           pc[t] # "putBack", Steady(t, "getBack"), Steady(t, "putBack"),
           mb.entry > 0, mb'.entry = mb.entry - 1
    PROVE  MailServes(t)
<1>1. t \notin Woken("putBack", Send) /\ mb.entry \in Int /\ Size - mb.entry \in Int
  BY MailboxFacts DEF Woken
<1>2. /\ Serves(t, Send, "putBack", Size - mb.entry, Size - mb.entry + 1)
      /\ \A q \in Obj : Waiters(q)' \subseteq Waiters(q)
  BY <1>1, MailboxFacts, HeadServes
<1>3. Waiters(Recv)' \subseteq Waiters(Recv)
  BY <1>2, MailboxFacts
<1>4. mb'.entry + 1 <= mb.entry /\ Size - mb'.entry = Size - mb.entry + 1
  BY MailboxFacts
<1>5. Serves(t, Recv, "getBack", mb.entry, mb'.entry)
  BY <1>3, <1>4 DEF Serves, Steady
<1> QED  BY <1>2, <1>4, <1>5 DEF MailServes

(* A call waits when there is nothing to take.                             *)
LEMMA CallServes ==
    ASSUME WaitInv, NEW t \in Task, t # Idle, k.stat[t] = "READY", k.isr = 0,
           Steady(t, "getBack"), Steady(t, "putBack"), mb' = mb, NEW d \in Nat,
           \/ k' = WaitIn(k, Recv, t, d) /\ mb.entry = 0 /\ pc[t] # "putBack"
           \/ k' = WaitIn(k, Send, t, d) /\ mb.entry = Size /\ pc[t] # "getBack"
    PROVE  MailServes(t)
<1>1. CASE k' = WaitIn(k, Recv, t, d) /\ mb.entry = 0 /\ pc[t] # "putBack"
  <2>1. Waiters(Send)' \subseteq Waiters(Send)
    BY <1>1, WaitServes, MailboxFacts
  <2>2. t \notin Woken("putBack", Send)
    BY <1>1 DEF Woken
  <2>3. Size - mb'.entry <= Size - mb.entry /\ mb'.entry <= 0
    BY <1>1, MailboxFacts
  <2> QED  BY <2>1, <2>2, <2>3 DEF MailServes, Serves, Steady
<1>2. CASE k' = WaitIn(k, Send, t, d) /\ mb.entry = Size /\ pc[t] # "getBack"
  <2>1. Waiters(Recv)' \subseteq Waiters(Recv)
    BY <1>2, WaitServes, MailboxFacts
  <2>2. t \notin Woken("getBack", Recv)
    BY <1>2 DEF Woken
  <2>3. mb'.entry <= mb.entry /\ Size - mb'.entry <= 0
    BY <1>2, MailboxFacts
  <2> QED  BY <2>1, <2>2, <2>3 DEF MailServes, Serves, Steady
<1> QED  BY <1>1, <1>2

(* A call ends, or fails.                                                  *)
LEMMA EndServes ==
    ASSUME WaitInv, NEW t \in Task, Steady(t, "getBack"), Steady(t, "putBack"), mb' = mb,
           k' = k \/ \E e : k' = SetError(k, t, e),
           t \in Woken("getBack", Recv) => mb.entry = 0,
           t \in Woken("putBack", Send) => mb.entry = Size
    PROVE  MailServes(t)
<1>1. Waiters(Recv)' \subseteq Waiters(Recv) /\ Waiters(Send)' \subseteq Waiters(Send)
  BY MailboxFacts, OverServes
<1>2. /\ mb'.entry <= mb.entry /\ Size - mb'.entry <= Size - mb.entry
      /\ mb.entry = 0 => mb'.entry <= 0
      /\ mb.entry = Size => Size - mb'.entry <= 0
  BY MailboxFacts
<1> QED  BY <1>1, <1>2 DEF MailServes, Serves, Steady

(* Every function of os_mbox.c, when its counts are compared.              *)
LEMMA MailActs ==
    ASSUME WaitInv, NEW t \in Task, Mbox(t), Shift(t, {Recv, Send})
    PROVE  MailServes(t)
<1>1. Steady(t, "getBack") /\ Steady(t, "putBack")
  BY ShiftSteady
<1>2. \A s : At(t, s) => /\ k.isr = 0 /\ k.stat[t] = "READY" /\ pc[t] = s
                         /\ pc[t] # "app" => t # Idle
  BY ActorFree, WaitFacts DEF At
<1>3. /\ Timeout \subseteq Nat /\ Remaining(t) \in Nat
      /\ \A s, o : t \in Woken(s, o) => pc[t] = s /\ k.error[t] = "OS_OK"
  BY WaitAssumption, RemainingOK DEF Woken
<1>4. ASSUME NEW v, PutStores(t, v), Calls(t) \/ At(t, "putBack")
      PROVE  MailServes(t)
  <2>1. /\ k.isr = 0 /\ k.stat[t] = "READY" /\ pc[t] # "getBack"
        /\ k' = ResumeHead(k, Recv) /\ mb.entry < Size /\ Store(v)
    BY <1>2, <1>4 DEF Calls, PutStores
  <2> QED  BY <1>1, <2>1, PutServes
<1>5. ASSUME GetTakes(t), Calls(t) \/ At(t, "getBack")
      PROVE  MailServes(t)
  <2>1. /\ k.isr = 0 /\ k.stat[t] = "READY" /\ pc[t] # "putBack"
        /\ k' = ResumeHead(k, Send) /\ mb.entry > 0 /\ mb'.entry = mb.entry - 1
    BY <1>2, <1>5, MailboxFacts DEF Calls, GetTakes, Mailbox
  <2> QED  BY <1>1, <2>1, GetServes
<1>6. ASSUME NEW d \in Nat, mb' = mb,
             \/ /\ BeginWait(t, Recv, d, "getBack") /\ mb.entry = 0
                /\ Calls(t) \/ At(t, "getBack")
             \/ /\ BeginWait(t, Send, d, "putBack") /\ mb.entry = Size
                /\ Calls(t) \/ At(t, "putBack")
      PROVE  MailServes(t)
  <2>1. /\ k.isr = 0 /\ k.stat[t] = "READY" /\ t # Idle
        /\ \/ k' = WaitIn(k, Recv, t, d) /\ mb.entry = 0 /\ pc[t] # "putBack"
           \/ k' = WaitIn(k, Send, t, d) /\ mb.entry = Size /\ pc[t] # "getBack"
    BY <1>2, <1>6 DEF Calls, BeginWait
  <2> QED  BY <1>1, <1>6, <2>1, CallServes
<1>7. CASE MboxCall(t, Timeout)
  BY <1>3, <1>4, <1>5, <1>6, <1>7
     DEF MboxCall, MboxGet, MboxPut, MboxPutWait, MboxGetWait
<1>8. CASE PutBack(t) \/ PutAgain(t) \/ GetBack(t) \/ GetAgain(t)
  BY <1>3, <1>4, <1>5, <1>6, <1>8 DEF PutBack, PutAgain, GetBack, GetAgain
<1>9. CASE PutFails(t) \/ GetTimesOut(t) \/ GetFails(t) \/ Got(t) \/ MboxDelete(t)
  <2>1. mb' = mb
    BY <1>9 DEF PutFails, GetTimesOut, GetFails, Got, MboxDelete
  <2>2. k' = k \/ \E e : k' = SetError(k, t, e)
    BY <1>9 DEF PutFails, GetTimesOut, GetFails, Got, MboxDelete, ResumeLists, SetError
  <2>3. t \in Woken("getBack", Recv) => mb.entry = 0
    BY <1>2, <1>3, <1>9
       DEF PutFails, GetTimesOut, GetFails, Got, MboxDelete, Calls, At
  <2>4. t \in Woken("putBack", Send) => mb.entry = Size
    BY <1>2, <1>3, <1>9
       DEF PutFails, GetTimesOut, GetFails, Got, MboxDelete, Calls, At
  <2> QED  BY <1>1, <2>1, <2>2, <2>3, <2>4, EndServes
<1>10. CASE MboxReset(t)
  <2>1. mb'.entry = 0 /\ k.isr = 0 /\ pc[t] = "app"
    BY <1>2, <1>10, MailboxFacts DEF MboxReset, Calls, Mailbox
  <2> DEFINE q == ListResumeAll(k, Recv)
  <2>2. k' = ListResumeAll(q, Send)
    BY <1>10 DEF MboxReset
  <2>3. Ends(k, q, ToSet(k.pend[Recv])) /\ q.isr = 0
    BY <2>1, WaitFacts, MailboxFacts, ResumeAllEnds
  <2> HIDE DEF q
  <2>4. Works(q)
    BY <2>3 DEF Ends
  <2>5. k'.pend[Send] = <<>>
    BY <2>2, <2>3, <2>4, MailboxFacts, ResumeAllEnds
  <2>6. Waiters(Send)' = {}
    BY <2>5 DEF Waiters, ToSet
  <2>7. mb'.entry <= 0
    BY <2>1
  <2> QED  BY <1>1, <2>6, <2>7 DEF MailServes, Serves, Steady
<1> QED  BY <1>7, <1>8, <1>9, <1>10 DEF Mbox, MboxContinue

(* The kernel of a handler wakes the next one.                             *)
LEMMA MboxIsrServes ==
    ASSUME WaitInv, MboxIsr
    PROVE  MailServes(Idle)
<1>1. PICK v \in Msg : MboxIsrPut(v)
  BY DEF MboxIsr
<1>2. /\ k.isr = 0 /\ mb.entry < Size /\ Store(v) /\ pc' = pc
      /\ k' = IsrResumeHead(k, Recv)
  BY <1>1 DEF MboxIsrPut
<1>3. Idle \in Task /\ k.stat[Idle] = "READY" /\ pc[Idle] = "app" /\ Works(k)
  BY WaitFacts
<1>4. k'.error = k.error
  BY <1>2, <1>3, MailboxFacts, IsrResumeHeadEnds
<1>5. Steady(Idle, "getBack") /\ Steady(Idle, "putBack")
  BY <1>2, <1>4 DEF Steady
<1> QED  BY <1>2, <1>3, <1>5, PutServes

(* The mailbox lets nobody sleep.                                          *)
LEMMA MailWakesStep ==
    ASSUME WaitInv, IsFiniteSet(Task), MailWakesReceiver, Next
    PROVE  MailWakesReceiver'
<1>1. /\ Enough(Recv, "getBack", mb.entry)
      /\ Enough(Send, "putBack", Size - mb.entry)
  BY DEF MailWakesReceiver, Enough
<1>2. \E t : MailServes(t)
  <2>1. CASE Aside(MboxStep, {Recv, Send}) /\ UNCHANGED mb
    <3>1. NoTask \notin Task /\ "getBack" \in MboxStep /\ "putBack" \in MboxStep
      BY KernelAssumption DEF MboxStep
    <3>2. mb.entry \in Int /\ Size - mb.entry \in Int
      BY MailboxFacts
    <3>3. Serves(NoTask, Recv, "getBack", mb.entry, mb.entry)
      BY <2>1, <3>1, <3>2, AsideServes
    <3>4. Serves(NoTask, Send, "putBack", Size - mb.entry, Size - mb.entry)
      BY <2>1, <3>1, <3>2, AsideServes
    <3>5. mb'.entry = mb.entry
      BY <2>1
    <3> QED  BY <3>3, <3>4, <3>5 DEF MailServes
  <2>2. CASE MboxIsr
    BY <2>2, MboxIsrServes
  <2>3. ASSUME NEW t \in Task, Mbox(t), Shift(t, {Recv, Send})
        PROVE  MailServes(t)
    BY <2>3, MailActs
  <2> QED  BY <2>1, <2>2, <2>3, MboxNext
<1>3. PICK t : MailServes(t)
  BY <1>2
<1>4. mb'.entry \in Int /\ mb.entry \in Int /\ Size \in Int
  <2>1. WaitInv'
    BY WaitStepOK
  <2>2. mb' \in Mailbox
    BY <2>1 DEF WaitInv
  <2> QED  BY <2>2, MailboxFacts DEF Mailbox
<1>5. /\ Serves(t, Recv, "getBack", mb.entry, mb'.entry)
      /\ Serves(t, Send, "putBack", Size - mb.entry, Size - mb'.entry)
  BY <1>3 DEF MailServes
<1>6. Waiters(Recv)' # {} => mb'.entry <= Cardinality(Woken("getBack", Recv)')
  BY <1>1, <1>4, <1>5, MailboxFacts, EnoughKept
<1>7. Size - mb.entry \in Int /\ Size - mb'.entry \in Int
  BY <1>4
<1>8. Waiters(Send)' # {} => Size - mb'.entry <= Cardinality(Woken("putBack", Send)')
  BY <1>1, <1>5, <1>7, MailboxFacts, EnoughKept
<1> QED  BY <1>6, <1>8 DEF MailWakesReceiver

-----------------------------------------------------------------------------
(* The receivers of the message queue                                      *)

(* The queue has a count, whatever its nodes are linked to.                *)
Counted(m) == "entry" \in DOMAIN m /\ m.entry \in Nat

(* A message is linked,                                                    *)
LEMMA LinkCounts ==
    ASSUME NEW m, Counted(m), NEW x
    PROVE  /\ Counted(LinkTail(m, x)) /\ LinkTail(m, x).entry = m.entry + 1
           /\ Counted(LinkHead(m, x)) /\ LinkHead(m, x).entry = m.entry + 1
BY DEF Counted, LinkTail, LinkHead

(* a node is filled,                                                       *)
LEMMA FilledCounts ==
    ASSUME Counted(mq), NEW v, NEW n
    PROVE  Counted(Filled(v, n)) /\ Filled(v, n).entry = mq.entry
BY DEF Counted, Filled

(* the queue is emptied,                                                   *)
LEMMA FreedCounts ==
    ASSUME Counted(mq)
    PROVE  Counted(AllFreed) /\ AllFreed.entry = 0
BY DEF Counted, AllFreed

(* a message is unlinked,                                                  *)
LEMMA UnlinkCounts ==
    ASSUME Counted(mq), NEW t, UnlinkHead(t)
    PROVE  Counted(mq') /\ mq'.entry = mq.entry - 1
BY DEF Counted, UnlinkHead

(* and its node goes back to the free list.                                *)
LEMMA CopyCounts ==
    ASSUME Counted(mq), NEW t, MqueueCopy(t)
    PROVE  Counted(mq') /\ mq'.entry = mq.entry
BY DEF Counted, MqueueCopy

QueueServes(t) ==
    /\ Serves(t, Queue, "mqGetBack", mq.entry, mq'.entry)
    /\ Counted(mq')

(* The queue is an object of its own.                                      *)
LEMMA QueueFacts ==
    ASSUME Counted(mq)
    PROVE  /\ Queue \in Obj /\ WaitsAt(Queue, "mqGetBack")
           /\ mq.entry \in Nat /\ mq.entry \in Int
BY MqueueAssumption, ObjectsDiffer DEF WaitsAt, Counted

(* A message is linked.                                                    *)
LEMMA LinkServes ==
    ASSUME WaitInv, Counted(mq), NEW t \in Task, k.stat[t] = "READY", k.isr = 0,
           k' = ResumeHead(k, Queue) \/ k' = IsrResumeHead(k, Queue),
           pc[t] # "mqGetBack", Steady(t, "mqGetBack"),
           Counted(mq'), mq'.entry = mq.entry + 1
    PROVE  QueueServes(t)
<1>1. t \notin Woken("mqGetBack", Queue)
  BY DEF Woken
<1>2. Serves(t, Queue, "mqGetBack", mq.entry, mq.entry + 1)
  BY <1>1, QueueFacts, HeadServes
<1> QED  BY <1>2 DEF QueueServes

(* A step that links none and wakes nobody.                                *)
LEMMA KeepServes ==
    ASSUME WaitInv, Counted(mq), NEW t \in Task, Steady(t, "mqGetBack"),
           k' = k \/ \E e : k' = SetError(k, t, e), Counted(mq'),
           \/ mq'.entry = mq.entry /\ t \notin Woken("mqGetBack", Queue)
           \/ mq'.entry = mq.entry - 1
           \/ mq'.entry = 0
    PROVE  QueueServes(t)
<1>1. Waiters(Queue)' \subseteq Waiters(Queue)
  BY QueueFacts, OverServes
<1>2. \/ mq'.entry <= mq.entry /\ t \notin Woken("mqGetBack", Queue)
      \/ mq'.entry + 1 <= mq.entry
      \/ mq'.entry <= 0
  BY QueueFacts
<1> QED  BY <1>1, <1>2 DEF QueueServes, Serves, Steady

(* Every function of os_mqueue.c, when its counts are compared.            *)
LEMMA QueueActs ==
    ASSUME WaitInv, Counted(mq), NEW t \in Task, Mqueue(t), Shift(t, {Queue})
    PROVE  QueueServes(t)
<1>1. Steady(t, "mqGetBack")
  BY ShiftSteady
<1>2. \A s : At(t, s) => k.isr = 0 /\ k.stat[t] = "READY" /\ pc[t] = s
  BY ActorFree DEF At
<1>3. \A s, o : t \in Woken(s, o) => pc[t] = s /\ k.error[t] = "OS_OK"
  BY DEF Woken
<1>4. CASE MqueueLink(t) \/ MqueueLinkUrgent(t)
  <2>1. /\ k.isr = 0 /\ k.stat[t] = "READY" /\ pc[t] # "mqGetBack"
        /\ k' = ResumeHead(k, Queue)
    BY <1>2, <1>4 DEF MqueueLink, MqueueLinkUrgent, Linked
  <2>2. mq' = LinkTail(mq, node[t]) \/ mq' = LinkHead(mq, node[t])
    BY <1>4 DEF MqueueLink, MqueueLinkUrgent, Linked
  <2>3. Counted(mq') /\ mq'.entry = mq.entry + 1
    BY <2>2, LinkCounts
  <2> QED  BY <1>1, <2>1, <2>3, LinkServes
<1>5. CASE UnlinkHead(t)
  <2>1. k' = k
    BY <1>5 DEF UnlinkHead
  <2>2. Counted(mq') /\ mq'.entry = mq.entry - 1
    BY <1>5, UnlinkCounts
  <2> QED  BY <1>1, <2>1, <2>2, KeepServes
<1>6. ASSUME NEW v, NEW s, MqueuePut(t, v, s)
      PROVE  QueueServes(t)
  <2>1. k' = k /\ t \notin Woken("mqGetBack", Queue)
    BY <1>2, <1>3, <1>6 DEF MqueuePut, Calls
  <2>2. PICK n : mq' = Filled(v, n)
    BY <1>6 DEF MqueuePut
  <2>3. Counted(mq') /\ mq'.entry = mq.entry
    BY <2>2, FilledCounts
  <2> QED  BY <1>1, <2>1, <2>3, KeepServes
<1>7. CASE MqueueCopy(t)
  <2>1. k' = k /\ t \notin Woken("mqGetBack", Queue)
    BY <1>2, <1>3, <1>7 DEF MqueueCopy
  <2>2. Counted(mq') /\ mq'.entry = mq.entry
    BY <1>7, CopyCounts
  <2> QED  BY <1>1, <2>1, <2>2, KeepServes
<1>8. CASE MqueueGetTimesOut(t) \/ MqueueGetFails(t) \/ MqueueDelete(t)
  <2>1. k' = k \/ \E e : k' = SetError(k, t, e)
    BY <1>8 DEF MqueueGetTimesOut, MqueueGetFails, MqueueDelete, ResumeLists, SetError
  <2>2. mq' = mq /\ (mq.entry = 0 \/ t \notin Woken("mqGetBack", Queue))
    BY <1>2, <1>3, <1>8
       DEF MqueueGetTimesOut, MqueueGetFails, MqueueDelete, Calls, At, mqvars
  <2> QED  BY <1>1, <2>1, <2>2, KeepServes
<1>9. ASSUME NEW d, BeginWait(t, Queue, d, "mqGetBack"), mq' = mq, mq.entry = 0
      PROVE  QueueServes(t)
  <2>1. mq'.entry <= 0 /\ Counted(mq')
    BY <1>9
  <2> QED  BY <1>1, <2>1 DEF QueueServes, Serves, Steady
<1>10. CASE MqueueReset(t)
  <2>1. mq' = AllFreed
    BY <1>10 DEF MqueueReset
  <2>2. mq'.entry <= 0 /\ Counted(mq')
    BY <2>1, FreedCounts
  <2> QED  BY <1>1, <2>2 DEF QueueServes, Serves, Steady
<1>11. CASE MqueueCall(t, Timeout)
  BY <1>5, <1>6, <1>9, <1>11 DEF MqueueCall, MqueueGet, MqueueGetWait
<1>12. CASE MqueueContinue(t)
  BY <1>4, <1>5, <1>7, <1>8, <1>9, <1>12
     DEF MqueueContinue, MqueueGetBack, MqueueGetAgain
<1> QED  BY <1>8, <1>10, <1>11, <1>12 DEF Mqueue

(* The kernel of a handler wakes the next one.                             *)
LEMMA MqueueIsrServes ==
    ASSUME WaitInv, Counted(mq), MqueueIsr
    PROVE  QueueServes(Idle)
<1>1. PICK v \in Msg : MqueueIsrPut(v)
  BY DEF MqueueIsr
<1>2. /\ k.isr = 0 /\ pc' = pc /\ k' = IsrResumeHead(k, Queue)
      /\ mq' = LinkTail(Filled(v, Null), mq.free)
  BY <1>1 DEF MqueueIsrPut
<1>3. Idle \in Task /\ k.stat[Idle] = "READY" /\ pc[Idle] = "app" /\ Works(k)
  BY WaitFacts
<1>4. k'.error = k.error
  BY <1>2, <1>3, QueueFacts, IsrResumeHeadEnds
<1>5. Steady(Idle, "mqGetBack")
  BY <1>2, <1>4 DEF Steady
<1>6. Counted(mq') /\ mq'.entry = mq.entry + 1
  BY <1>2, FilledCounts, LinkCounts
<1> QED  BY <1>2, <1>3, <1>5, <1>6, LinkServes

(* The message queue lets nobody sleep.                                    *)
LEMMA MessageWakesStep ==
    ASSUME WaitInv, IsFiniteSet(Task), Counted(mq), MessageWakesReceiver, Next
    PROVE  Counted(mq') /\ MessageWakesReceiver'
<1>1. Enough(Queue, "mqGetBack", mq.entry)
  BY DEF MessageWakesReceiver, Enough, Woken
<1>2. \E t : QueueServes(t)
  <2>1. CASE Aside(MqueueStep, {Queue}) /\ UNCHANGED mqvars
    <3>1. NoTask \notin Task /\ "mqGetBack" \in MqueueStep
      BY KernelAssumption DEF MqueueStep
    <3>2. mq' = mq
      BY <2>1 DEF mqvars
    <3>3. Serves(NoTask, Queue, "mqGetBack", mq.entry, mq.entry)
      BY <2>1, <3>1, QueueFacts, AsideServes
    <3> QED  BY <3>2, <3>3 DEF QueueServes
  <2>2. CASE MqueueIsr
    BY <2>2, MqueueIsrServes
  <2>3. ASSUME NEW t \in Task, Mqueue(t), Shift(t, {Queue})
        PROVE  QueueServes(t)
    BY <2>3, QueueActs
  <2> QED  BY <2>1, <2>2, <2>3, MqueueNext DEF mqvars
<1>3. PICK t : QueueServes(t)
  BY <1>2
<1>4. /\ Counted(mq') /\ mq'.entry \in Int
      /\ Serves(t, Queue, "mqGetBack", mq.entry, mq'.entry)
  BY <1>3 DEF QueueServes, Counted
<1>5. Waiters(Queue)' # {} => mq'.entry <= Cardinality(Woken("mqGetBack", Queue)')
  BY <1>1, <1>4, QueueFacts, EnoughKept
<1> QED  BY <1>4, <1>5 DEF MessageWakesReceiver, Woken

(* No message and no free slot is left to a task that sleeps: for every    *)
(* one of them some task was resumed that is still on its way.             *)
THEOREM NobodySleeps ==
    ASSUME IsFiniteSet(Task)
    PROVE  Spec => []NobodySleepsOnMessages
<1>1. Init => NobodySleepsOnMessages /\ Counted(mq)
  <2>1. SUFFICES ASSUME Init PROVE NobodySleepsOnMessages /\ Counted(mq)
    OBVIOUS
  <2>2. \A o \in Obj : Waiters(o) = {}
    BY <2>1, WaitFirst, EmptyList DEF Waiters
  <2>3. Recv \in Obj /\ Send \in Obj /\ Queue \in Obj
    BY MboxAssumption, MqueueAssumption
  <2>4. Counted(mq)
    BY <2>1 DEF Init, MqueueInit, Counted
  <2> QED  BY <2>2, <2>3, <2>4
           DEF NobodySleepsOnMessages, MailWakesReceiver, MessageWakesReceiver
<1>2. WaitInv /\ NobodySleepsOnMessages /\ Counted(mq) /\ [Next]_vars
      => NobodySleepsOnMessages' /\ Counted(mq)'
  <2>1. UNCHANGED vars /\ NobodySleepsOnMessages => NobodySleepsOnMessages'
    BY DEF vars, NobodySleepsOnMessages, MailWakesReceiver, MessageWakesReceiver,
           Woken, Waiters
  <2>2. UNCHANGED vars /\ Counted(mq) => Counted(mq)'
    BY DEF vars
  <2> QED  BY <2>1, <2>2, MailWakesStep, MessageWakesStep DEF NobodySleepsOnMessages
<1> QED  BY <1>1, <1>2, WaitInductive, PTL DEF Spec

-----------------------------------------------------------------------------
(* The tasks that wait for a block                                         *)

(* The timeout of a task that waits for a block is its own.                *)
Lasts == \A u \in Task : pc[u] = "allocBack" => arg'[u] = arg[u]

(* The mailbox leaves the list of the pool alone,                          *)
LEMMA MboxLasts ==
    ASSUME WaitInv, NEW t \in Task, Mbox(t)
    PROVE  Lasts
BY WaitFacts
   DEF Lasts, Mbox, MboxCall, MboxContinue, MboxReset, MboxDelete, MboxGet, MboxPut,
       MboxPutWait, MboxGetWait, PutBack, PutAgain, PutFails, GetBack, GetAgain,
       GetTimesOut, GetFails, Got, PutStores, GetTakes, BeginWait, Finish,
       ResumeLists, Calls, At

(* and so does the message queue,                                          *)
LEMMA MqueueLasts ==
    ASSUME WaitInv, NEW t \in Task, Mqueue(t)
    PROVE  Lasts
BY WaitFacts
   DEF Lasts, Mqueue, MqueueCall, MqueueContinue, MqueueReset, MqueueDelete, MqueueGet,
       MqueuePut, MqueueGetWait, MqueueLink, MqueueLinkUrgent, Linked, MqueueCopy,
       MqueueGetBack, MqueueGetAgain, MqueueGetTimesOut, MqueueGetFails, UnlinkHead,
       BeginWait, Finish, ResumeLists, Calls, At

(* the event,                                                              *)
LEMMA EventLasts ==
    ASSUME WaitInv, NEW t \in Task, Events(t)
    PROVE  Lasts
BY WaitFacts
   DEF Lasts, Events, EventCall, EventContinue, EventPut, EventGet, EventPoll, EventWait,
       EventReturn, EventReset, EventDelete, BeginWait, Finish, ResumeLists, Calls, At

(* a mutex,                                                                *)
LEMMA MutexLasts ==
    ASSUME WaitInv, NEW t \in Task, Mutexes(t)
    PROVE  Lasts
BY WaitFacts
   DEF Lasts, Mutexes, MutexCall, MutexContinue, MutexTakeAgain, MutexTakeFree, MutexPoll,
       MutexWait, MutexTaken, MutexFails, MutexRefused, MutexReleaseInner,
       MutexReleaseLast, MutexDelete, BeginWait, Finish, ResumeLists, Calls, At

(* and the scheduler and the clock.                                        *)
LEMMA KernelLasts ==
    ASSUME KernelWork
    PROVE  Lasts
BY DEF Lasts, KernelWork, Clock, Schedule, ResumeCheck, ResumeNext, Sleep, SleepReturn,
       Tick, TaskTimerFire, TickEnd

(* The fields of the pool that count.                                      *)
PoolCounts(m) ==
    {"free", "suspended"} \subseteq DOMAIN m /\ m.free \in Nat /\ m.suspended \in Nat

(* What the proofs below take from the invariant,                          *)
LEMMA PoolFacts ==
    ASSUME WaitInv, PoolInv
    PROVE  /\ PoolCounts(mp) /\ mp.suspended = Len(k.pend[Pool])
           /\ Enough(Pool, "allocBack", mp.free)
           /\ Pool \in Obj /\ WaitsAt(Pool, "allocBack")
           /\ IsList(k.pend[Pool], Task) /\ Works(k)
           /\ \A t \in Task : pc[t] = "allocBack" => arg[t] = Forever
           /\ Waiters(Pool) \cap ToSet(k.timers) = {}
           /\ Forever \in Nat /\ Forever # NoWait
<1>1. IsList(k.pend[Pool], Task) /\ Pool \in Obj
  BY WaitFacts
<1>2. Len(k.pend[Pool]) \in Nat
  BY <1>1 DEF IsList
<1> QED
  BY <1>1, <1>2, WaitFacts, WaitAssumption
     DEF PoolInv, PoolCounts, SuspendCountExact, Enough, Woken, WaitsAt

(* and how it is put together again.                                       *)
LEMMA PoolMade ==
    ASSUME PoolCounts(mp), mp.suspended = Len(k.pend[Pool]),
           Waiters(Pool) # {} => mp.free <= Cardinality(Woken("allocBack", Pool)),
           \A t \in Task : pc[t] = "allocBack" => arg[t] = Forever,
           Waiters(Pool) \cap ToSet(k.timers) = {}
    PROVE  PoolInv
BY DEF PoolInv, PoolCounts, SuspendCountExact, Woken

(* What a step may do with the pool.                                       *)
PoolMoves(t) ==
    /\ PoolCounts(mp') /\ mp'.suspended = Len(k'.pend[Pool])
    /\ Serves(t, Pool, "allocBack", mp.free, mp'.free)
    /\ \A u \in Task : pc'[u] = "allocBack" => arg'[u] = Forever
    /\ Waiters(Pool)' \cap ToSet(k'.timers) = {}

(* os_mpool_alloc takes a block,                                           *)
LEMMA AllocateCounts ==
    ASSUME PoolCounts(mp), NEW t, Allocate(t)
    PROVE  /\ PoolCounts(mp') /\ mp'.suspended = mp.suspended
           /\ mp'.free = mp.free - 1
BY DEF PoolCounts, Allocate

(* or is counted as suspended.                                             *)
LEMMA WaitCounts ==
    ASSUME PoolCounts(mp), NEW t, NEW d, PoolWait(t, d)
    PROVE  /\ PoolCounts(mp') /\ mp'.suspended = mp.suspended + 1
           /\ mp'.free = mp.free /\ mp.free = 0
<1>1. mp' = [mp EXCEPT !.suspended = @ + 1] /\ mp.free = 0
  BY DEF PoolWait
<1> QED  BY <1>1 DEF PoolCounts

(* os_mpool_free puts the block back,                                      *)
LEMMA FreeCounts ==
    ASSUME PoolCounts(mp), NEW b, mp' = Freed(b)
    PROVE  /\ PoolCounts(mp') /\ mp'.free = mp.free + 1
           /\ mp'.suspended = IF mp.suspended > 0 THEN mp.suspended - 1 ELSE mp.suspended
BY DEF PoolCounts, Freed

(* or wakes the first task of the list.                                    *)
LEMMA NextCounts ==
    ASSUME PoolCounts(mp), mp.suspended > 0, mp' = [mp EXCEPT !.suspended = @ - 1]
    PROVE  /\ PoolCounts(mp') /\ mp'.free = mp.free
           /\ mp'.suspended = mp.suspended - 1
BY DEF PoolCounts

(* A call that ends.                                                       *)
LEMMA PoolEnds ==
    ASSUME WaitInv, PoolInv, NEW t \in Task, Steady(t, "allocBack"),
           k' = k \/ \E e : k' = SetError(k, t, e),
           PoolCounts(mp'), mp'.suspended = mp.suspended,
           \/ mp'.free = mp.free /\ t \notin Woken("allocBack", Pool)
           \/ mp'.free = mp.free - 1
           \/ mp'.free = 0,
           \A u \in Task : pc'[u] = "allocBack" => arg'[u] = Forever
    PROVE  PoolMoves(t)
<1>1. k'.pend = k.pend /\ k'.timers = k.timers
  BY WaitFacts DEF SetError, Kernel
<1>2. Waiters(Pool)' = Waiters(Pool)
  BY <1>1 DEF Waiters
<1>3. \/ mp'.free <= mp.free /\ t \notin Woken("allocBack", Pool)
      \/ mp'.free + 1 <= mp.free
      \/ mp'.free <= 0
  BY PoolFacts DEF PoolCounts
<1>4. Serves(t, Pool, "allocBack", mp.free, mp'.free)
  BY <1>2, <1>3 DEF Serves, Steady
<1> QED  BY <1>1, <1>2, <1>4, PoolFacts DEF PoolMoves

(* A task begins to wait.                                                  *)
LEMMA PoolBegins ==
    ASSUME WaitInv, PoolInv, NEW t \in Task, t # Idle, k.stat[t] = "READY", k.isr = 0,
           k.cur = t, t \notin resched, mx' = mx, mb' = mb,
           Steady(t, "allocBack"), PoolWait(t, Forever)
    PROVE  PoolMoves(t)
<1>1. Forever \in Nat /\ Forever \in 0..Forever
  BY PoolFacts
<1>2. /\ Waiters(Pool)' = Waiters(Pool) \cup {t}
      /\ Untimed(k, k', Forever)
      /\ Len(k'.pend[Pool]) = Len(k.pend[Pool]) + 1
  <2>1. WaitInv' /\ Shift(t, {Pool})
           /\ Waiters(Pool)' = Waiters(Pool) \cup {t}
           /\ Untimed(k, k', Forever)
           /\ Len(k'.pend[Pool]) = Len(k.pend[Pool]) + 1
    BY <1>1, PoolWaitShift
  <2> QED  BY <2>1
<1>3. ToSet(k'.timers) = ToSet(k.timers)
  BY <1>2 DEF Untimed
<1>4. t \notin ToSet(k.timers)
  BY PoolFacts DEF Works, KernelOK, TimerList
<1>5. PoolCounts(mp') /\ mp'.suspended = Len(k'.pend[Pool]) /\ mp'.free <= 0
  BY <1>2, PoolFacts, WaitCounts
<1>6. Serves(t, Pool, "allocBack", mp.free, mp'.free)
  BY <1>5 DEF Serves, Steady
<1>7. \A u \in Task : pc'[u] = "allocBack" => arg'[u] = Forever
  <2>1. arg \in [Task -> 0..Forever] /\ pc \in [Task -> Step]
    BY WaitFacts
  <2> QED  BY <2>1, PoolFacts DEF PoolWait, Goto
<1>8. Waiters(Pool)' \cap ToSet(k'.timers) = {}
  BY <1>2, <1>3, <1>4, PoolFacts
<1> QED  BY <1>5, <1>6, <1>7, <1>8 DEF PoolMoves

(* The first task of the list is resumed, or woken by a deletion.          *)
LEMMA PoolLeaves ==
    ASSUME WaitInv, PoolInv, NEW t \in Task, k.stat[t] = "READY",
           Steady(t, "allocBack"), pc[t] # "allocBack", k.pend[Pool] # <<>>,
           Ends(k, k', Firsts(k, Pool)), Len(k'.pend[Pool]) = Len(k.pend[Pool]) - 1,
           PoolCounts(mp'), mp'.suspended = mp.suspended - 1,
           \/ mp'.free = mp.free
           \/ mp'.free = mp.free + 1 /\ k'.error[Foremost(k, Pool)] = "OS_OK",
           UNCHANGED arg, \A u \in Task : pc'[u] = "allocBack" => pc[u] = "allocBack"
    PROVE  PoolMoves(t)
<1> DEFINE w == Foremost(k, Pool)
<1>1. Firsts(k, Pool) = {w}
  BY DEF Firsts
<1>2. /\ w \in Task /\ w \in Waiters(Pool)
  BY PoolFacts, ForemostOK DEF Waiters, Works
<1>3. w # t
  BY <1>2, PoolFacts, WaitFacts
<1> HIDE DEF w
<1>4. Waiters(Pool)' = Waiters(Pool) \ {w} /\ ToSet(k'.timers) \subseteq ToSet(k.timers)
  BY <1>1, PoolFacts DEF Ends, Waiters
<1>5. t \notin Woken("allocBack", Pool) /\ mp.free \in Nat
  BY PoolFacts DEF Woken, PoolCounts
<1>6. Serves(t, Pool, "allocBack", mp.free, mp'.free)
  <2>1. CASE mp'.free = mp.free
    <3>1. mp'.free <= mp.free /\ Waiters(Pool)' \subseteq Waiters(Pool)
      BY <1>4, <1>5, <2>1
    <3> QED  BY <1>5, <3>1 DEF Serves, Steady
  <2>2. CASE mp'.free = mp.free + 1 /\ k'.error[w] = "OS_OK"
    <3>1. mp'.free <= mp.free + 1 /\ Waiters(Pool)' \subseteq Waiters(Pool)
      BY <1>4, <1>5, <2>2
    <3>2. w \in Waiters(Pool) \ {t} /\ w \notin Waiters(Pool)'
      BY <1>2, <1>3, <1>4
    <3> QED  BY <1>5, <2>2, <3>1, <3>2 DEF Serves, Steady
  <2> QED  BY <2>1, <2>2 DEF w
<1>7. /\ mp'.suspended = Len(k'.pend[Pool])
      /\ \A u \in Task : pc'[u] = "allocBack" => arg'[u] = Forever
      /\ Waiters(Pool)' \cap ToSet(k'.timers) = {}
  BY <1>4, PoolFacts
<1> QED  BY <1>6, <1>7 DEF PoolMoves

(* A block is freed.                                                       *)
LEMMA PoolFrees ==
    ASSUME WaitInv, PoolInv, NEW t \in Task, k.stat[t] = "READY", k.isr = 0,
           Steady(t, "allocBack"), pc[t] # "allocBack", NEW b, mp' = Freed(b), FindsTask,
           IF mp.suspended > 0 THEN k' = PoolResume(k) \/ k' = Sched(PoolResume(k))
                               ELSE k' = k,
           UNCHANGED <<arg, pc>>
    PROVE  PoolMoves(t)
<1>1. /\ PoolCounts(mp') /\ mp'.free = mp.free + 1
      /\ mp'.suspended = IF mp.suspended > 0 THEN mp.suspended - 1 ELSE mp.suspended
  BY PoolFacts, FreeCounts
<1>2. CASE mp.suspended > 0
  <2> DEFINE q == PoolResume(k)
  <2>1. k.pend[Pool] # <<>> /\ (k' = q \/ k' = Sched(q))
    BY <1>2 DEF FindsTask
  <2>2. /\ Ends(k, q, Firsts(k, Pool))
        /\ q.error = [k.error EXCEPT ![Foremost(k, Pool)] = "OS_OK"]
        /\ q.pend[Pool] = Tail(k.pend[Pool])
    BY <2>1, PoolFacts, PoolResumeEnds
  <2> HIDE DEF q
  <2>3. Works(q)
    BY <2>2 DEF Ends
  <2>4. /\ Ends(k, k', Firsts(k, Pool))
        /\ k'.error = q.error /\ k'.pend = q.pend
    <3>1. CASE k' = q
      BY <2>2, <3>1
    <3>2. CASE k' = Sched(q)
      <4>1. Ends(q, k', {}) /\ k'.error = q.error /\ k'.pend = q.pend
        BY <2>3, <3>2, SchedEnds
      <4>2. Ends(k, k', Firsts(k, Pool) \cup {})
        BY <2>2, <4>1, EndsBoth
      <4> QED  BY <4>1, <4>2
    <3> QED  BY <2>1, <3>1, <3>2
  <2>5. Foremost(k, Pool) \in Task
    BY <2>1, PoolFacts, ForemostOK DEF Works
  <2>6. k'.error[Foremost(k, Pool)] = "OS_OK"
    BY <2>2, <2>4, <2>5, WaitFacts
  <2>7. Len(k'.pend[Pool]) = Len(k.pend[Pool]) - 1
    BY <2>1, <2>2, <2>4, PoolFacts, TailLength
  <2>8. mp'.suspended = mp.suspended - 1
    BY <1>1, <1>2
  <2> QED  BY <1>1, <2>1, <2>4, <2>6, <2>7, <2>8, PoolLeaves
<1>3. CASE ~(mp.suspended > 0)
  <2>1. k' = k /\ mp'.suspended = mp.suspended /\ Len(k.pend[Pool]) = 0
    BY <1>1, <1>3, PoolFacts DEF PoolCounts
  <2>2. k.pend[Pool] = <<>>
    BY <2>1, PoolFacts DEF IsList
  <2>3. Waiters(Pool)' = {}
    BY <2>1, <2>2, EmptyList DEF Waiters
  <2>4. Serves(t, Pool, "allocBack", mp.free, mp'.free)
    BY <2>3 DEF Serves, Steady
  <2> QED  BY <1>1, <2>1, <2>3, <2>4, PoolFacts DEF PoolMoves
<1> QED  BY <1>2, <1>3

(* Every function of os_mpool.c, when its counts are compared.             *)
LEMMA PoolActs ==
    ASSUME WaitInv, PoolInv, NEW t \in Task, Mpool(t), Shift(t, {Pool}),
           PoolTimeout \subseteq {NoWait, Forever}
    PROVE  PoolMoves(t)
<1>1. Steady(t, "allocBack")
  BY ShiftSteady
<1>2. /\ pc \in [Task -> Step] /\ arg \in [Task -> 0..Forever]
      /\ mx' = mx /\ mb' = mb
  BY WaitFacts DEF Mpool, SameMutexes, SameMbox
<1>3. \A s : At(t, s) => /\ k.isr = 0 /\ k.stat[t] = "READY" /\ pc[t] = s
                         /\ k.cur = t /\ t \notin resched
                         /\ pc[t] # "app" => t # Idle
  BY ActorFree, WaitFacts DEF At
<1>4. ASSUME Finish(t)
      PROVE  \A u \in Task : pc'[u] = "allocBack" => arg'[u] = Forever
  BY <1>2, <1>4, PoolFacts DEF Finish, Goto
<1>5. CASE Allocate(t)
  <2>1. PoolCounts(mp') /\ mp'.suspended = mp.suspended /\ mp'.free = mp.free - 1
    BY <1>5, PoolFacts, AllocateCounts
  <2>2. Finish(t) /\ k' = k
    BY <1>5 DEF Allocate
  <2> QED  BY <1>1, <1>4, <2>1, <2>2, PoolEnds
<1>6. CASE MpoolPoll(t) \/ AllocTimesOut(t) \/ AllocFails(t)
  <2>1. k' = k \/ \E e : k' = SetError(k, t, e)
    BY <1>6 DEF MpoolPoll, AllocTimesOut, AllocFails, NoBlock, SetError
  <2>2. /\ mp' = mp /\ Finish(t)
        /\ mp.free = 0 \/ t \notin Woken("allocBack", Pool)
    BY <1>3, <1>6 DEF MpoolPoll, AllocTimesOut, AllocFails, NoBlock, Woken
  <2>3. /\ PoolCounts(mp') /\ mp'.suspended = mp.suspended
        /\ \/ mp'.free = mp.free /\ t \notin Woken("allocBack", Pool)
           \/ mp'.free = 0
    BY <2>2, PoolFacts
  <2> QED  BY <1>1, <1>4, <2>1, <2>2, <2>3, PoolEnds
<1>7. ASSUME NEW d, PoolWait(t, d), d = Forever, Calls(t) \/ At(t, "allocBack")
      PROVE  PoolMoves(t)
  <2>1. /\ t # Idle /\ k.stat[t] = "READY" /\ k.isr = 0 /\ k.cur = t /\ t \notin resched
    BY <1>3, <1>7 DEF Calls
  <2> QED  BY <1>1, <1>2, <1>7, <2>1, PoolBegins
<1>8. ASSUME NEW d \in PoolTimeout, MpoolAllocWait(t, d)
      PROVE  PoolMoves(t)
  <2>1. PoolWait(t, d) /\ d = Forever /\ Calls(t)
    BY <1>8 DEF MpoolAllocWait, PoolWait
  <2> QED  BY <1>7, <2>1
<1>9. CASE AllocAgain(t)
  <2>1. PoolWait(t, Remaining(t)) /\ At(t, "allocBack")
    BY <1>9 DEF AllocAgain
  <2>2. Remaining(t) = Forever
    BY <1>3, <2>1, PoolFacts DEF Remaining
  <2> QED  BY <1>7, <2>1, <2>2
<1>10. ASSUME NEW b \in Block, MpoolFree(t, b)
       PROVE  PoolMoves(t)
  <2>1. /\ k.isr = 0 /\ k.stat[t] = "READY" /\ pc[t] = "app" /\ FindsTask
        /\ mp' = Freed(b) /\ UNCHANGED <<arg, pc>>
        /\ IF mp.suspended > 0 THEN k' = PoolResume(k) ELSE k' = k
    BY <1>3, <1>10 DEF MpoolFree, Calls
  <2> QED  BY <1>1, <2>1, PoolFrees
<1>11. CASE MpoolDelete(t) \/ PoolCheck(t)
  <2>1. /\ k' = k /\ mp' = mp /\ arg' = arg
        /\ t \notin Woken("allocBack", Pool)
    BY <1>3, <1>11 DEF MpoolDelete, PoolCheck, Calls, Woken
  <2>2. \A u \in Task : pc'[u] = "allocBack" => pc[u] = "allocBack"
    BY <1>2, <1>11 DEF MpoolDelete, PoolCheck, Goto
  <2> QED  BY <1>1, <2>1, <2>2, PoolFacts, PoolEnds
<1>12. CASE PoolNext(t)
  <2>1. /\ k.isr = 0 /\ k.stat[t] = "READY" /\ pc[t] = "poolNext" /\ arg' = arg
        /\ k.pend[Pool] # <<>> /\ k' = WakeHead(k, Pool)
        /\ mp' = [mp EXCEPT !.suspended = @ - 1]
    BY <1>3, <1>12 DEF PoolNext
  <2>2. \A u \in Task : pc'[u] = "allocBack" => pc[u] = "allocBack"
    BY <1>2, <1>12 DEF PoolNext, Goto
  <2>3. Ends(k, k', Firsts(k, Pool)) /\ k'.pend[Pool] = Tail(k.pend[Pool])
    BY <2>1, PoolFacts, WakeHeadEnds
  <2>4. /\ Len(k'.pend[Pool]) = Len(k.pend[Pool]) - 1
        /\ mp.suspended > 0
    BY <2>1, <2>3, PoolFacts, TailLength
  <2>5. PoolCounts(mp') /\ mp'.free = mp.free /\ mp'.suspended = mp.suspended - 1
    BY <2>1, <2>4, PoolFacts, NextCounts
  <2> QED  BY <1>1, <2>1, <2>2, <2>3, <2>4, <2>5, PoolLeaves
<1>13. CASE MpoolCall(t, PoolTimeout)
  BY <1>5, <1>6, <1>8, <1>10, <1>11, <1>13 DEF MpoolCall, MpoolAlloc
<1>14. CASE MpoolContinue(t)
  BY <1>5, <1>6, <1>9, <1>11, <1>12, <1>14 DEF MpoolContinue, AllocBack
<1> QED  BY <1>13, <1>14 DEF Mpool

(* os_isr_mpool_free.                                                      *)
LEMMA PoolIsrActs ==
    ASSUME WaitInv, PoolInv, MpoolIsr
    PROVE  PoolMoves(Idle)
<1>1. PICK b \in Block : MpoolIsrFree(b)
  BY DEF MpoolIsr
<1>2. /\ k.isr = 0 /\ FindsTask /\ mp' = Freed(b) /\ UNCHANGED <<arg, pc>>
      /\ IF mp.suspended > 0 THEN k' = Sched(PoolResume(k)) ELSE k' = k
  BY <1>1 DEF MpoolIsrFree
<1>3. Idle \in Task /\ k.stat[Idle] = "READY" /\ pc[Idle] = "app" /\ Works(k)
  BY WaitFacts
<1>4. Steady(Idle, "allocBack")
  <2>1. Shift(Idle, {Pool})
    BY MpoolIsrShift
  <2>2. pc'[Idle] = pc[Idle]
    BY <1>2
  <2> QED  BY <2>1, ShiftSteady
<1> QED  BY <1>2, <1>3, <1>4, PoolFrees

(* A step of another object leaves the list of the pool as it is: no timer *)
(* and no deletion takes a task out of it.                                 *)
LEMMA PoolAside ==
    ASSUME WaitInv, WaitInv', PoolInv, Lasts, Aside(MpoolStep, {Pool}), mp' = mp,
           NEW t, t \notin Task
    PROVE  PoolMoves(t)
<1>1. "allocBack" \in MpoolStep
  BY DEF MpoolStep
<1>2. Serves(t, Pool, "allocBack", mp.free, mp'.free)
  <2>1. mp.free \in Int
    BY PoolFacts DEF PoolCounts
  <2> QED  BY <1>1, <2>1, PoolFacts, AsideServes
<1>3. Waiters(Pool)' = Waiters(Pool)
  <2>1. Waiters(Pool)' \subseteq Waiters(Pool)
    BY DEF Aside
  <2> SUFFICES ASSUME NEW u \in Waiters(Pool), u \notin Waiters(Pool)' PROVE FALSE
    BY <2>1
  <2>2. u \notin ToSet(k.timers)
    BY PoolFacts
  <2>3. PICK v \in Task : pc[v] = "resumeNext" /\ Pool = Head(todo[v])
    BY <2>2 DEF Aside
  <2>4. todo[v] \in Seq(Obj \ {Pool}) /\ todo[v] # <<>>
    BY <2>3 DEF WaitInv, AsksOK
  <2> QED  BY <2>3, <2>4, HeadOfList
<1>4. /\ IsList(k.pend[Pool], Task) /\ IsList(k'.pend[Pool], Task)
  <2>1. IsList(k'.pend[Pool], Task)
    BY PoolFacts DEF WaitInv, Works, KernelOK, PendingLists, Kernel, IsList
  <2> QED  BY <2>1, PoolFacts
<1>5. Len(k'.pend[Pool]) = Len(k.pend[Pool])
  <2>1. Len(k'.pend[Pool]) = Cardinality(ToSet(k'.pend[Pool]))
    BY <1>4, ListSize
  <2>2. Len(k.pend[Pool]) = Cardinality(ToSet(k.pend[Pool]))
    BY <1>4, ListSize
  <2> QED  BY <1>3, <2>1, <2>2 DEF Waiters
<1>6. \A u \in Task : pc'[u] = "allocBack" => arg'[u] = Forever
  BY <1>1, PoolFacts DEF Aside, Lasts
<1>7. Waiters(Pool)' \cap ToSet(k'.timers) = {}
  <2> SUFFICES ASSUME NEW u \in Waiters(Pool), u \in ToSet(k'.timers) PROVE FALSE
    BY <1>3
  <2>1. u \in Task /\ pc[u] = "allocBack"
    BY PoolFacts, WaitFacts, ObjectsDiffer DEF WaitInv, PlacesOK, Place
  <2>2. u \in ToSet(k.timers)
    BY <1>1, <2>1 DEF Aside
  <2> QED  BY <2>2, PoolFacts
<1> QED  BY <1>2, <1>5, <1>6, <1>7, PoolFacts DEF PoolMoves

(* Every step keeps the count.                                             *)
LEMMA PoolStepOK ==
    ASSUME WaitInv, IsFiniteSet(Task), PoolInv, Next, PoolTimeout \subseteq {NoWait, Forever}
    PROVE  PoolInv'
<1>1. WaitInv'
  BY WaitStepOK
<1>2. \E t : PoolMoves(t)
  <2>1. CASE Aside(MpoolStep, {Pool}) /\ UNCHANGED <<mp, own>>
    <3>1. CASE Lasts
      <4>1. NoTask \notin Task
        BY KernelAssumption
      <4>2. PoolMoves(NoTask)
        BY <1>1, <2>1, <3>1, <4>1, PoolAside
      <4> QED  BY <4>2
    <3>2. CASE \E t \in Task : Mpool(t)
      BY <3>2, PoolActs, MpoolShift
    <3>3. CASE MboxIsr \/ MqueueIsr \/ EventIsr \/ MpoolIsr
      <4>1. Lasts
        BY <3>3 DEF MboxIsr, MqueueIsr, EventIsr, MpoolIsr, MboxIsrPut, MqueueIsrPut,
                    EventIsrPut, MpoolIsrFree, Lasts
      <4> QED  BY <3>1, <4>1
    <3> QED
      BY <3>1, <3>2, <3>3, MboxLasts, MqueueLasts, MutexLasts, EventLasts, KernelLasts
         DEF Next
  <2>2. CASE MpoolIsr
    BY <2>2, PoolIsrActs
  <2>3. ASSUME NEW t \in Task, Mpool(t), Shift(t, {Pool})
        PROVE  PoolMoves(t)
    BY <2>3, PoolActs
  <2> QED  BY <2>1, <2>2, <2>3, MpoolNext
<1>3. PICK t : PoolMoves(t)
  BY <1>2
<1>4. /\ PoolCounts(mp') /\ mp'.suspended = Len(k'.pend[Pool])
      /\ Serves(t, Pool, "allocBack", mp.free, mp'.free)
      /\ \A u \in Task : pc'[u] = "allocBack" => arg'[u] = Forever
      /\ Waiters(Pool)' \cap ToSet(k'.timers) = {}
  BY <1>3 DEF PoolMoves
<1>5. mp.free \in Int /\ mp'.free \in Int
  BY <1>4, PoolFacts DEF PoolCounts
<1>6. Waiters(Pool)' # {} => mp'.free <= Cardinality(Woken("allocBack", Pool)')
  BY <1>4, <1>5, PoolFacts, EnoughKept
<1> QED  BY <1>4, <1>6 DEF PoolInv, PoolCounts, SuspendCountExact, Woken

(* suspend_task_count is the length of the list, and no free block is left *)
(* to a task that sleeps, when no wait for a block has a timeout.  With    *)
(* one the count is wrong from the first timeout on: see OsMpoolTimeout.  *)
THEOREM SuspendCountsExactly ==
    ASSUME IsFiniteSet(Task), PoolTimeout \subseteq {NoWait, Forever}
    PROVE  Spec => []SuspendCountExact
<1>1. Init => PoolInv
  <2>1. SUFFICES ASSUME Init PROVE PoolInv
    OBVIOUS
  <2>2. k.pend[Pool] = <<>>
    BY <2>1, WaitFirst, MpoolAssumption
  <2>3. Waiters(Pool) = {}
    BY <2>2, EmptyList DEF Waiters
  <2>4. Cardinality(Block) \in Nat
    BY MpoolAssumption, FS_CardinalityType
  <2>5. PoolCounts(mp) /\ mp.suspended = 0
    BY <2>1, <2>4 DEF Init, MpoolInit, PoolCounts
  <2>6. \A t \in Task : pc[t] # "allocBack"
    BY <2>1 DEF Init, WaitInit
  <2>7. Len(k.pend[Pool]) = 0
    BY <2>2
  <2> QED  BY <2>3, <2>5, <2>6, <2>7 DEF PoolInv, PoolCounts, SuspendCountExact
<1>2. WaitInv /\ PoolInv /\ [Next]_vars => PoolInv'
  <2>1. UNCHANGED vars /\ PoolInv => PoolInv'
    BY DEF vars, PoolInv, SuspendCountExact, Waiters
  <2> QED  BY <2>1, PoolStepOK
<1>3. PoolInv => SuspendCountExact
  BY DEF PoolInv
<1> QED  BY <1>1, <1>2, <1>3, WaitInductive, PTL DEF Spec

-----------------------------------------------------------------------------
(* The bits of the event are consumed once                                 *)

(* A step that gives no bits to those who wait.                            *)
LEMMA NobodyReceives ==
    ASSUME \A t \in Waiters(Event) : ~Receives(t)
    PROVE  BitsConsumedOnce
<1>1. \A i \in DOMAIN k.pend[Event] : k.pend[Event][i] \in Waiters(Event)
  BY DEF Waiters, ToSet
<1> QED  BY <1>1 DEF BitsConsumedOnce

(* Those who still wait have received nothing.                             *)
LEMMA StillWaiting ==
    WaitInv' => \A t \in Waiters(Event)' : k'.stat[t] # "READY"
<1> SUFFICES ASSUME WaitInv', NEW t \in Waiters(Event)'
             PROVE  k'.stat[t] # "READY"
  OBVIOUS
<1>1. Event \in Obj /\ KernelOK(k', {})
  BY EventAssumption DEF WaitInv, Works
<1> QED  BY <1>1 DEF KernelOK, PendingLists, Waiters

(* os_event_put, in a task or in a handler.                                *)
LEMMA ServedOnce ==
    ASSUME WaitInv, k.isr = 0, NEW s, NEW e, e = Served(s),
           k' \in {e.k, Sched(e.k)}, val' = e.val, evset' = e.set
    PROVE  BitsConsumedOnce
<1> DEFINE q == k.pend[Event]
<1>1. PICK S : Serving(e, Len(q), s, S)
  BY ServedOK
<1>2. /\ IsList(q, Task) /\ Event \in Obj /\ DOMAIN q = 1..Len(q)
      /\ \A i \in DOMAIN q : q[i] \in Waiters(Event) /\ q[i] \in Task
      /\ \A t \in Waiters(Event) : k.stat[t] = "SUSPEND"
  BY WaitFacts, EventAssumption DEF Waiters, ToSet, IsList
<1>3. \A t \in Task \ S : k'.stat[t] = k.stat[t]
  <2>1. CASE k' = e.k
    BY <1>1, <2>1 DEF Serving, Ends
  <2>2. CASE k' = Sched(e.k)
    <3>1. PICK x : x = e.k
      OBVIOUS
    <3>2. Ends(k, x, S) /\ k' = Sched(x)
      BY <1>1, <2>2, <3>1 DEF Serving
    <3>3. Works(x)
      BY <3>2 DEF Ends
    <3>4. Ends(x, k', {})
      BY <3>2, <3>3, SchedEnds
    <3> QED  BY <3>2, <3>4 DEF Ends
  <2> QED  BY <2>1, <2>2
<1>4. \A i \in DOMAIN q : Receives(q[i]) => q[i] \in S
  BY <1>2, <1>3 DEF Receives
<1>5. Dealt(e, Len(q), S)
  BY <1>1 DEF Serving
<1> QED  BY <1>2, <1>4, <1>5 DEF Dealt, BitsConsumedOnce

(* A step of another object wakes those who wait for the event with an     *)
(* error.                                                                  *)
LEMMA AsideOnce ==
    ASSUME WaitInv, WaitInv', Aside(EventStep, {Event})
    PROVE  BitsConsumedOnce
<1>1. ASSUME NEW t \in Waiters(Event)
      PROVE  ~Receives(t)
  <2>1. CASE t \in Waiters(Event)'
    BY <2>1, StillWaiting DEF Receives
  <2>2. CASE t \notin Waiters(Event)'
    BY <1>1, <2>2 DEF Aside, Receives
  <2> QED  BY <2>1, <2>2
<1> QED  BY <1>1, NobodyReceives

(* So does a step of the event that removes nobody from its list.          *)
LEMMA SameListOnce ==
    ASSUME WaitInv, WaitInv', Waiters(Event) \subseteq Waiters(Event)'
    PROVE  BitsConsumedOnce
<1>1. \A t \in Waiters(Event) : ~Receives(t)
  BY StillWaiting DEF Receives
<1> QED  BY <1>1, NobodyReceives

(* No step gives a bit twice.                                              *)
LEMMA OnceStep ==
    ASSUME WaitInv, WaitInv', Next
    PROVE  BitsConsumedOnce
<1>1. CASE Aside(EventStep, {Event}) /\ UNCHANGED evset
  BY <1>1, AsideOnce
<1>2. ASSUME NEW t \in Task, (Events(t) \/ EventIsr) /\ Shift(t, {Event})
      PROVE  BitsConsumedOnce
  <2>2. CASE EventIsr
    <3>1. PICK s : EventIsrPut(s)
      BY <2>2 DEF EventIsr
    <3>2. PICK e : e = Served(s)
      OBVIOUS
    <3>3. /\ k.isr = 0
          /\ k' \in {e.k, Sched(e.k)} /\ val' = e.val /\ evset' = e.set
      BY <3>1, <3>2 DEF EventIsrPut
    <3> QED  BY <3>2, <3>3, ServedOnce
  <2>3. ASSUME NEW s, EventPut(t, s)
        PROVE  BitsConsumedOnce
    <3>1. PICK e : e = Served(s)
      OBVIOUS
    <3>2. /\ k.isr = 0
          /\ k' \in {e.k, Sched(e.k)} /\ val' = e.val /\ evset' = e.set
      BY <2>3, <3>1 DEF EventPut, Calls, At
    <3> QED  BY <3>1, <3>2, ServedOnce
  <2>4. CASE EventPoll(t) \/ EventReturn(t) \/ EventDelete(t) \/ \E s, i : EventGet(t, s, i)
    <3>1. k'.pend = k.pend
      BY <2>4, WaitFacts
         DEF EventPoll, EventReturn, EventDelete, EventGet, ResumeLists, Kernel
    <3>2. Waiters(Event)' = Waiters(Event)
      BY <3>1 DEF Waiters
    <3> QED  BY <3>2, SameListOnce
  <2>5. ASSUME NEW s, NEW i, NEW d \in 0..Forever, EventWait(t, s, i, d)
        PROVE  BitsConsumedOnce
    <3>1. /\ k.cur = t /\ k.isr = 0 /\ t \notin resched /\ t # Idle /\ Works(k)
          /\ k' = WaitIn(k, Event, t, d) /\ Event \in Obj /\ d # NoWait
      BY <2>5, WaitFacts DEF EventWait, Calls, At, BeginWait
    <3>2. d \in Nat /\ k.stat[t] = "READY"
      BY <3>1, WaitAssumption, ActorFree
    <3>3. Begins(k, k', {Event}, t)
      BY <3>1, <3>2, WaitInBegins
    <3>4. Waiters(Event)' = Waiters(Event) \cup {t}
      BY <3>1, <3>3 DEF Begins, Waiters
    <3> QED  BY <3>4, SameListOnce
  <2>6. ASSUME NEW s, EventReset(t, s)
        PROVE  BitsConsumedOnce
    <3>1. k' = ListResumeAll(k, Event) /\ k.isr = 0 /\ Works(k) /\ Event \in Obj
      BY <2>6, WaitFacts DEF EventReset, Calls, At
    <3>2. \A u \in Task \cap ToSet(k.pend[Event]) : k'.error[u] = "OS_ERROR"
      BY <3>1, ResumeAllEnds
    <3>3. Waiters(Event) \subseteq Task
      BY <3>1, WaitFacts
    <3>4. \A u \in Waiters(Event) : ~Receives(u)
      BY <3>2, <3>3 DEF Receives, Waiters
    <3> QED  BY <3>4, NobodyReceives
  <2>7. EventTimeout \subseteq 0..Forever
    BY ObjectsAssumption
  <2> QED
    BY <1>2, <2>2, <2>3, <2>4, <2>5, <2>6, <2>7 DEF Events, EventCall, EventContinue
<1> QED  BY <1>1, <1>2, EventNext

(* Bits that one task clears go to nobody else, and a task is given what   *)
(* it asked for, however many wait for the same bits.                      *)
THEOREM EventBitsOnce ==
    ASSUME IsFiniteSet(Task)
    PROVE  Spec => ConsumedOnce
<1>1. WaitInv /\ WaitInv' /\ [Next]_vars => [BitsConsumedOnce]_vars
  BY OnceStep
<1> QED  BY <1>1, WaitInductive, PTL DEF Spec, ConsumedOnce



-----------------------------------------------------------------------------
(* The blocks of the memory pool                                           *)

MemPoolRecord == [list : Block \cup {Nil}, next : [Block -> Block \cup {Nil, Pool}],
                  free : Nat, suspended : Int]

(* The blocks of s are free, the others belong to one task each. *)
Shared(m, o, s) ==
    /\ m \in MemPoolRecord /\ o \in [Task -> SUBSET Block]
    /\ Leads(m.next, m.list, Nil, s) /\ Len(s) = m.free
    /\ ToSet(s) = {b \in Block : \A t \in Task : b \notin o[t]}
    /\ \A t, u \in Task : t # u => o[t] \cap o[u] = {}
    /\ \A t \in Task : \A b \in o[t] : m.next[b] = Pool

(* The free list is what the pool leads to.                                *)
LEMMA SharedChain ==
    ASSUME NEW m, NEW o, NEW s, Shared(m, o, s)
    PROVE  /\ Chain(m.next, m.list, Nil) = s
           /\ IsList(s, Block) /\ DOMAIN m.next = Block
           /\ Cardinality(ToSet(s)) = m.free
<1>1. DOMAIN m.next = Block /\ IsFiniteSet(Block) /\ Nil \notin Block
  BY MpoolAssumption DEF Shared, MemPoolRecord
<1>2. Leads(m.next, m.list, Nil, s) /\ Len(s) = m.free
  BY DEF Shared
<1>3. Chain(m.next, m.list, Nil) = s
  <2>1. PICK next : next = m.next
    OBVIOUS
  <2>2. IsFiniteSet(DOMAIN next) /\ Nil \notin DOMAIN next /\ Leads(next, m.list, Nil, s)
    BY <1>1, <1>2, <2>1
  <2>3. Chain(next, m.list, Nil) = s
    BY <2>2, ChainIs
  <2> QED  BY <2>1, <2>3
<1>4. IsList(s, Block)
  BY <1>1, <1>2 DEF Leads, IsList
<1>5. Cardinality(ToSet(s)) = Len(s)
  BY <1>4, ListSize
<1> QED  BY <1>1, <1>2, <1>3, <1>4, <1>5

(* The invariant says that there is such a list.                           *)
LEMMA BlockFacts ==
    ASSUME BlockInv
    PROVE  Shared(mp, own, FreeList)
BY DEF BlockInv, BlocksExact, Shared, MemPoolRecord

(* and how it is put together again,                                       *)
LEMMA BlockMade ==
    ASSUME NEW s, Shared(mp, own, s)
    PROVE  BlockInv
<1>1. FreeList = s /\ Cardinality(ToSet(s)) = mp.free
  BY SharedChain DEF FreeList
<1> QED  BY <1>1 DEF BlockInv, BlocksExact, Shared, MemPoolRecord

(* A block is taken from the list.                                         *)
LEMMA TakesBlock ==
    ASSUME NEW m, NEW o, NEW s, Shared(m, o, s), NEW t \in Task, m.free > 0,
           NEW n, n = [m EXCEPT !.free = @ - 1, !.list = m.next[m.list],
                                !.next[m.list] = Pool],
           NEW p, p = [o EXCEPT ![t] = @ \cup {m.list}]
    PROVE  Shared(n, p, Tail(s))
<1> DEFINE b == m.list
           next == m.next
           f == [next EXCEPT ![b] = Pool]
<1>1. /\ IsList(s, Block) /\ s # <<>> /\ m.free \in Nat /\ Len(s) = m.free
      /\ next \in [Block -> Block \cup {Nil, Pool}] /\ m \in MemPoolRecord
      /\ Leads(next, b, Nil, s) /\ o \in [Task -> SUBSET Block]
  BY SharedChain DEF Shared, MemPoolRecord
<1>2. /\ b = s[1] /\ b \in Block /\ Leads(next, next[b], Nil, Tail(s))
  <2> HIDE DEF next, b
  <2> QED  BY <1>1, LeadsTail
<1>3. next[b] \in Block \cup {Nil}
  <2>1. next[b] = IF Tail(s) = <<>> THEN Nil ELSE Tail(s)[1]
    BY <1>2 DEF Leads
  <2>2. IsList(Tail(s), Block)
    BY <1>1, TailList
  <2>3. PICK r : r = Tail(s)
    OBVIOUS
  <2>5. IsList(r, Block)
    BY <2>2, <2>3
  <2>4. r # <<>> => r[1] \in Block
    <3>1. ToSet(r) \subseteq Block /\ (r # <<>> => r[1] \in ToSet(r))
      BY <2>5, MemberOfList
    <3> QED  BY <3>1
  <2> QED  BY <2>1, <2>3, <2>4
<1>4. /\ n = [list |-> next[b], next |-> f, free |-> m.free - 1,
              suspended |-> m.suspended]
      /\ n.next = f /\ n.list = next[b] /\ n.free = m.free - 1
  BY <1>1 DEF MemPoolRecord
<1>5. f \in [Block -> Block \cup {Nil, Pool}] /\ f[b] = Pool
      /\ \A x \in Block : x # b => f[x] = next[x]
  BY <1>1, <1>2
<1>6. n \in MemPoolRecord
  <2>1. m.free - 1 \in Nat /\ m.suspended \in Int
    BY <1>1 DEF MemPoolRecord
  <2> HIDE DEF f, next, b
  <2> QED  BY <1>3, <1>4, <1>5, <2>1 DEF MemPoolRecord
<1>7. ToSet(Tail(s)) = ToSet(s) \ {b} /\ Len(Tail(s)) = m.free - 1
  BY <1>1, <1>2, TailList, TailLength
<1>8. Leads(f, next[b], Nil, Tail(s))
  <2>1. DOMAIN f = DOMAIN next /\ \A x \in DOMAIN next : x \in ToSet(Tail(s)) => f[x] = next[x]
    BY <1>1, <1>5, <1>7
  <2>2. PICK y : y = next[b]
    OBVIOUS
  <2> HIDE DEF f, next, b
  <2> QED  BY <1>2, <2>1, <2>2, LeadsSame
<1>9. /\ p \in [Task -> SUBSET Block]
      /\ \A u \in Task : p[u] = IF u = t THEN o[u] \cup {b} ELSE o[u]
  BY <1>1, <1>2
<1>10. b \in ToSet(s) /\ \A u \in Task : b \notin o[u]
  BY <1>1, <1>2, MemberOfList DEF Shared
<1>11. ToSet(Tail(s)) = {x \in Block : \A u \in Task : x \notin p[u]}
  <2>1. ToSet(s) = {x \in Block : \A u \in Task : x \notin o[u]}
    BY DEF Shared
  <2> QED  BY <1>7, <1>9, <2>1
<1>12. \A u, v \in Task : u # v => p[u] \cap p[v] = {}
  BY <1>9, <1>10 DEF Shared
<1>13. ASSUME NEW u \in Task, NEW x \in p[u]
       PROVE  f[x] = Pool
  BY <1>5, <1>9, <1>13 DEF Shared
<1> HIDE DEF f, b
<1> QED  BY <1>4, <1>6, <1>7, <1>8, <1>9, <1>11, <1>12, <1>13 DEF Shared

(* A block is put back.                                                    *)
LEMMA GivesBlock ==
    ASSUME NEW m, NEW o, NEW s, Shared(m, o, s), NEW t \in Task, NEW b \in o[t],
           NEW c \in Int,
           NEW n, n = [m EXCEPT !.free = @ + 1, !.next[b] = m.list, !.list = b,
                                !.suspended = c],
           NEW p, p = [o EXCEPT ![t] = @ \ {b}]
    PROVE  Shared(n, p, <<b>> \o s)
<1> DEFINE next == m.next
           a == m.list
           f == [next EXCEPT ![b] = a]
           r == <<b>> \o s
<1>1. /\ IsList(s, Block) /\ m.free \in Nat /\ Len(s) = m.free
      /\ next \in [Block -> Block \cup {Nil, Pool}] /\ m \in MemPoolRecord
      /\ Leads(next, a, Nil, s) /\ o \in [Task -> SUBSET Block]
      /\ a \in Block \cup {Nil} /\ b \in Block /\ b \notin ToSet(s)
  BY SharedChain DEF Shared, MemPoolRecord
<1>2. /\ n = [list |-> b, next |-> f, free |-> m.free + 1, suspended |-> c]
      /\ n.next = f /\ n.list = b /\ n.free = m.free + 1
  BY <1>1 DEF MemPoolRecord
<1>3. /\ f \in [Block -> Block \cup {Nil, Pool}] /\ f[b] = a
      /\ \A x \in Block : x # b => f[x] = next[x]
  BY <1>1
<1>4. n \in MemPoolRecord
  BY <1>1, <1>2, <1>3 DEF MemPoolRecord
<1>5. Leads(f, b, Nil, r)
  <2>1. DOMAIN f = DOMAIN next /\ \A x \in DOMAIN next : x \in ToSet(s) => f[x] = next[x]
    BY <1>1, <1>3
  <2>2. b \in DOMAIN f /\ b \notin ToSet(s) /\ f[b] = a
    BY <1>1, <1>3
  <2> HIDE DEF f, next, a
  <2>3. Leads(f, a, Nil, s)
    BY <1>1, <2>1, LeadsSame
  <2> QED  BY <2>2, <2>3, LeadsCons
<1>6. ToSet(r) = ToSet(s) \cup {b} /\ Len(r) = m.free + 1
  <2>1. s \in Seq(Block)
    BY <1>1 DEF IsList
  <2>2. Len(r) = Len(s) + 1
    BY <2>1
  <2> QED  BY <1>1, <2>2, ConsList
<1>7. /\ p \in [Task -> SUBSET Block]
      /\ \A u \in Task : p[u] = IF u = t THEN o[u] \ {b} ELSE o[u]
  BY <1>1
<1>8. ToSet(r) = {x \in Block : \A u \in Task : x \notin p[u]}
  <2>1. ToSet(s) = {x \in Block : \A u \in Task : x \notin o[u]}
    BY DEF Shared
  <2>2. \A u \in Task : b \notin p[u]
    BY <1>7 DEF Shared
  <2> QED  BY <1>1, <1>6, <1>7, <2>1, <2>2
<1>9. \A u, v \in Task : u # v => p[u] \cap p[v] = {}
  BY <1>7 DEF Shared
<1>10. ASSUME NEW u \in Task, NEW x \in p[u]
       PROVE  f[x] = Pool
  <2>1. x \in o[u] /\ x # b /\ x \in Block
    BY <1>1, <1>7, <1>10 DEF Shared
  <2> QED  BY <1>3, <2>1 DEF Shared
<1> HIDE DEF f, r
<1>11. Shared(n, p, r)
  BY <1>2, <1>4, <1>5, <1>6, <1>7, <1>8, <1>9, <1>10 DEF Shared
<1> QED  BY <1>11 DEF r

(* Only the number of those who wait changes.                              *)
LEMMA KeepsBlocks ==
    ASSUME NEW m, NEW o, NEW s, Shared(m, o, s), NEW c \in Int
    PROVE  Shared([m EXCEPT !.suspended = c], o, s)
<1>1. m \in MemPoolRecord
  BY DEF Shared
<1> DEFINE n == [m EXCEPT !.suspended = c]
<1>2. /\ n.list = m.list /\ n.next = m.next /\ n.free = m.free
      /\ n \in MemPoolRecord
  BY <1>1 DEF MemPoolRecord
<1> HIDE DEF n
<1>3. Shared(n, o, s)
  BY <1>2 DEF Shared
<1> QED  BY <1>3 DEF n

(* What a function of the pool does to the blocks.                         *)
BlocksMove(t) ==
    \/ mp' = mp /\ own' = own
    \/ \E c \in Int : mp' = [mp EXCEPT !.suspended = c] /\ own' = own
    \/ /\ mp.free > 0
       /\ mp' = [mp EXCEPT !.free = @ - 1, !.list = mp.next[mp.list],
                           !.next[mp.list] = Pool]
       /\ own' = [own EXCEPT ![t] = @ \cup {mp.list}]
    \/ \E u \in Task : \E b \in own[u], c \in Int :
          /\ mp' = [mp EXCEPT !.free = @ + 1, !.next[b] = mp.list, !.list = b,
                              !.suspended = c]
          /\ own' = [own EXCEPT ![u] = @ \ {b}]

(* Such a function keeps the blocks together.                              *)
LEMMA BlocksKept ==
    ASSUME BlockInv, NEW t \in Task, BlocksMove(t)
    PROVE  \E s : Shared(mp, own, s)'
<1>1. PICK s : Shared(mp, own, s)
  BY BlockFacts
<1>2. PICK m, o, n, p : m = mp /\ o = own /\ n = mp' /\ p = own'
  OBVIOUS
<1>3. Shared(m, o, s)
  BY <1>1, <1>2
<1>4. CASE n = m /\ p = o
  BY <1>2, <1>3, <1>4
<1>5. ASSUME NEW c \in Int, n = [m EXCEPT !.suspended = c] /\ p = o
      PROVE  \E r : Shared(n, p, r)
  BY <1>3, <1>5, KeepsBlocks
<1>6. CASE /\ m.free > 0
           /\ n = [m EXCEPT !.free = @ - 1, !.list = m.next[m.list],
                            !.next[m.list] = Pool]
           /\ p = [o EXCEPT ![t] = @ \cup {m.list}]
  <2>1. Shared(n, p, Tail(s))
    BY <1>3, <1>6, TakesBlock
  <2> QED  BY <1>2, <2>1
<1>7. ASSUME NEW u \in Task, NEW b \in o[u], NEW c \in Int,
             n = [m EXCEPT !.free = @ + 1, !.next[b] = m.list, !.list = b,
                           !.suspended = c],
             p = [o EXCEPT ![u] = @ \ {b}]
      PROVE  \E r : Shared(n, p, r)
  <2>1. Shared(n, p, <<b>> \o s)
    BY <1>3, <1>7, GivesBlock
  <2> QED  BY <2>1
<1> QED  BY <1>2, <1>4, <1>5, <1>6, <1>7 DEF BlocksMove

(* after a step.                                                           *)
LEMMA BlockMadeNext ==
    ASSUME NEW s, Shared(mp, own, s)'
    PROVE  BlockInv'
<1>1. PICK m, o : m = mp' /\ o = own'
  OBVIOUS
<1>2. Shared(m, o, s)
  BY <1>1
<1>3. Chain(m.next, m.list, Nil) = s /\ Cardinality(ToSet(s)) = m.free
  BY <1>2, SharedChain
<1>4. FreeList' = s
  BY <1>1, <1>3 DEF FreeList
<1> QED  BY <1>1, <1>2, <1>3, <1>4 DEF BlockInv, BlocksExact, Shared, MemPoolRecord

(* Every function of os_mpool.c, when its blocks are followed.             *)
LEMMA BlockActs ==
    ASSUME BlockInv, NEW t \in Task, Mpool(t) \/ MpoolIsr
    PROVE  BlocksMove(t)
<1>1. mp.suspended \in Int /\ mp.suspended + 1 \in Int /\ mp.suspended - 1 \in Int
  BY DEF BlockInv
<1>2. ASSUME NEW b \in Block, NEW u \in Task, b \in own[u],
             own' = [own EXCEPT ![u] = @ \ {b}], mp' = Freed(b)
      PROVE  BlocksMove(t)
  <2>1. PICK c : c = IF mp.suspended > 0 THEN mp.suspended - 1 ELSE mp.suspended
    OBVIOUS
  <2>2. c \in Int
    BY <1>1, <2>1
  <2>3. mp' = [mp EXCEPT !.free = @ + 1, !.next[b] = mp.list, !.list = b,
                         !.suspended = c]
    BY <1>2, <2>1 DEF Freed
  <2> QED  BY <1>2, <2>2, <2>3 DEF BlocksMove
<1>3. CASE MpoolIsr
  <2>1. PICK b \in Block : MpoolIsrFree(b)
    BY <1>3 DEF MpoolIsr
  <2>2. PICK u \in Task : b \in own[u] /\ own' = [own EXCEPT ![u] = @ \ {b}]
    BY <2>1 DEF MpoolIsrFree
  <2>3. mp' = Freed(b)
    BY <2>1 DEF MpoolIsrFree
  <2> QED  BY <1>2, <2>2, <2>3
<1>4. ASSUME NEW b \in Block, MpoolFree(t, b)
      PROVE  BlocksMove(t)
  <2>1. b \in own[t] /\ own' = [own EXCEPT ![t] = @ \ {b}] /\ mp' = Freed(b)
    BY <1>4 DEF MpoolFree
  <2> QED  BY <1>2, <2>1
<1>5. ASSUME Allocate(t)
      PROVE  BlocksMove(t)
  BY <1>5 DEF Allocate, BlocksMove
<1>6. ASSUME NEW d, PoolWait(t, d)
      PROVE  BlocksMove(t)
  <2>1. mp' = [mp EXCEPT !.suspended = mp.suspended + 1] /\ own' = own
    BY <1>6 DEF PoolWait
  <2> QED  BY <1>1, <2>1 DEF BlocksMove
<1>7. CASE PoolNext(t)
  <2>1. mp' = [mp EXCEPT !.suspended = mp.suspended - 1] /\ own' = own
    BY <1>7 DEF PoolNext
  <2> QED  BY <1>1, <2>1 DEF BlocksMove
<1>8. ASSUME mp' = mp /\ own' = own
      PROVE  BlocksMove(t)
  BY <1>8 DEF BlocksMove
<1> QED
  BY <1>3, <1>4, <1>5, <1>6, <1>7, <1>8
     DEF Mpool, MpoolCall, MpoolContinue, MpoolAlloc, MpoolPoll, MpoolDelete,
         MpoolAllocWait, AllocBack, AllocAgain, AllocTimesOut, AllocFails,
         PoolCheck, NoBlock

(* Every block is in the free list, which has no cycle, or belongs to one  *)
(* task, whoever allocates, waits, frees or deletes between two critical   *)
(* sections; with timeouts too.                                            *)
THEOREM BlocksAccountedFor ==
    ASSUME IsFiniteSet(Task)
    PROVE  Spec => []BlocksExact
<1>1. Init => BlockInv
  <2>1. SUFFICES ASSUME Init PROVE BlockInv
    OBVIOUS
  <2>2. PICK s : s = SetToSeq(Block)
    OBVIOUS
  <2>3. IsFiniteSet(Block) /\ Block # {} /\ Nil \notin Block
    BY MpoolAssumption
  <2>4. /\ IsList(s, Block) /\ ToSet(s) = Block /\ Len(s) = Cardinality(Block)
        /\ Threaded(s, Nil) \in [Block -> Block \cup {Nil}]
        /\ Leads(Threaded(s, Nil), s[1], Nil, s) /\ s[1] \in Block
    BY <2>2, <2>3, ThreadedLeads
  <2>5. /\ mp = [list |-> s[1], next |-> Threaded(s, Nil),
                 free |-> Cardinality(Block), suspended |-> 0]
        /\ own = [t \in Task |-> {}]
    BY <2>1, <2>2 DEF Init, MpoolInit
  <2>6. Cardinality(Block) \in Nat
    BY <2>3, FS_CardinalityType
  <2>7. Shared(mp, own, s)
    BY <2>4, <2>5, <2>6 DEF Shared, MemPoolRecord
  <2> QED  BY <2>7, BlockMade
<1>2. WaitInv /\ BlockInv /\ [Next]_vars => BlockInv'
  <2>1. UNCHANGED vars /\ BlockInv => BlockInv'
    BY DEF vars, BlockInv, BlocksExact, FreeList
  <2>2. ASSUME WaitInv, BlockInv, Next
        PROVE  BlockInv'
    <3>1. PICK t \in Task : BlocksMove(t)
      BY <2>2, MpoolNext, BlockActs, WaitFacts DEF BlocksMove
    <3>2. PICK s : Shared(mp, own, s)'
      BY <2>2, <3>1, BlocksKept
    <3> QED  BY <3>2, BlockMadeNext
  <2> QED  BY <2>1, <2>2
<1>3. BlockInv => BlocksExact
  BY DEF BlockInv
<1> QED  BY <1>1, <1>2, <1>3, WaitInductive, PTL DEF Spec



-----------------------------------------------------------------------------
(* The nodes of the message queue                                          *)

MqRecord == [next : [Node -> Link], head : Link, tail : Link, free : Link,
             entry : Nat, data : [Node -> Msg \cup {NoVal}]]

(* What the proofs below take from the partition.                          *)
LEMMA PartedFacts ==
    ASSUME NEW m, NEW H, NEW q, NEW f, Parted(m, H, q, f)
    PROVE  /\ m \in MqRecord /\ m.next \in [Node -> Link] /\ DOMAIN m.next = Node
           /\ m.data \in [Node -> Msg \cup {NoVal}] /\ m.entry \in Nat
           /\ {m.head, m.tail, m.free} \subseteq Link
           /\ IsList(q, Node) /\ IsList(f, Node) /\ Len(q) = m.entry
           /\ Leads(m.next, m.head, Null, q) /\ Leads(m.next, m.free, Null, f)
           /\ H \subseteq Node /\ Null \notin Node /\ IsFiniteSet(Node)
           /\ (q = <<>> <=> m.entry = 0) /\ (q = <<>> <=> m.head = Null)
           /\ (q = <<>> <=> m.tail = Null) /\ (f = <<>> <=> m.free = Null)
           /\ q # <<>> => /\ m.head = q[1] /\ m.tail = q[Len(q)]
                          /\ q[1] \in ToSet(q) /\ q[Len(q)] \in ToSet(q)
           /\ f # <<>> => m.free = f[1] /\ f[1] \in ToSet(f)
           /\ ToSet(q) \subseteq Node /\ ToSet(f) \subseteq Node
<1>1. /\ m \in MqRecord /\ m.next \in [Node -> Link] /\ DOMAIN m.next = Node
      /\ m.data \in [Node -> Msg \cup {NoVal}] /\ m.entry \in Nat
      /\ {m.head, m.tail, m.free} \subseteq Link
  BY DEF Parted, MqRecord
<1>2. /\ IsList(q, Node) /\ IsList(f, Node) /\ Len(q) = m.entry
      /\ Leads(m.next, m.head, Null, q) /\ Leads(m.next, m.free, Null, f)
      /\ H \subseteq Node /\ Null \notin Node /\ IsFiniteSet(Node)
  BY <1>1, MqueueAssumption DEF Parted, Leads, IsList
<1>3. /\ Len(q) \in Nat /\ (q = <<>> <=> Len(q) = 0)
      /\ \A i \in 1..Len(q) : q[i] \in Node /\ q[i] \in ToSet(q)
      /\ \A i \in 1..Len(f) : f[i] \in Node /\ f[i] \in ToSet(f)
      /\ ToSet(q) \subseteq Node /\ ToSet(f) \subseteq Node
      /\ Len(f) \in Nat /\ (f = <<>> <=> Len(f) = 0)
  BY <1>2 DEF IsList, ToSet
<1>4. q # <<>> => 1 \in 1..Len(q) /\ Len(q) \in 1..Len(q)
  BY <1>3
<1>5. f # <<>> => 1 \in 1..Len(f)
  BY <1>3
<1>6. m.tail = IF q = <<>> THEN Null ELSE q[Len(q)]
  BY DEF Parted
<1>7. m.head = (IF q = <<>> THEN Null ELSE q[1]) /\ m.free = IF f = <<>> THEN Null ELSE f[1]
  BY <1>2 DEF Leads
<1>8. q # <<>> => /\ q[1] \in ToSet(q) /\ q[Len(q)] \in ToSet(q)
                  /\ q[1] \in Node /\ q[Len(q)] \in Node
  BY <1>3, <1>4
<1>9. f # <<>> => f[1] \in ToSet(f) /\ f[1] \in Node
  BY <1>3, <1>5
<1> QED  BY <1>1, <1>2, <1>3, <1>6, <1>7, <1>8, <1>9

(* From m to n the nodes of H keep what they have. *)
Keeps(m, n, H) == \A x \in H : n.next[x] = m.next[x] /\ n.data[x] = m.data[x]

(* A node is taken from the free list. *)
Fills(m, v, c, n) == n = [m EXCEPT !.free = m.next[m.free], !.next[m.free] = c,
                                   !.data[m.free] = v]

(* A node is taken from the free list and filled.                          *)
LEMMA FillParts ==
    ASSUME NEW m, NEW H, NEW q, NEW f, Parted(m, H, q, f), m.free # Null,
           NEW v \in Msg, NEW c \in Link,
           NEW n, Fills(m, v, c, n)
    PROVE  /\ m.free \in Node /\ m.free \notin H
           /\ Parted(n, H \cup {m.free}, q, Tail(f))
           /\ n.next[m.free] = c /\ n.data[m.free] = v
           /\ Keeps(m, n, H \cup ToSet(q))
<1> DEFINE x == m.free
           next == m.next
           g == [next EXCEPT ![x] = c]
           d == [m.data EXCEPT ![x] = v]
<1>1. /\ m \in MqRecord /\ next \in [Node -> Link] /\ DOMAIN next = Node
      /\ m.data \in [Node -> Msg \cup {NoVal}]
      /\ IsList(f, Node) /\ IsList(q, Node) /\ f # <<>> /\ x = f[1]
      /\ x \in ToSet(f) /\ x \in Node
      /\ ToSet(f) \subseteq Node /\ ToSet(q) \subseteq Node /\ H \subseteq Node
  BY PartedFacts
<1>2. x \notin H /\ x \notin ToSet(q)
  BY <1>1 DEF Parted
<1>3. /\ Leads(next, next[x], Null, Tail(f)) /\ Leads(next, m.head, Null, q)
  <2>1. Leads(next, x, Null, f) /\ Leads(next, m.head, Null, q)
    BY DEF Parted
  <2> HIDE DEF next, x
  <2> QED  BY <1>1, <2>1, LeadsTail
<1>4. /\ IsList(Tail(f), Node) /\ ToSet(Tail(f)) = ToSet(f) \ {x}
  BY <1>1, TailList
<1>5. /\ n.next = g /\ n.data = d /\ n.free = next[x] /\ n.head = m.head
      /\ n.tail = m.tail /\ n.entry = m.entry
      /\ n = [next |-> g, head |-> m.head, tail |-> m.tail, free |-> next[x],
              entry |-> m.entry, data |-> d]
  BY <1>1 DEF MqRecord, Fills
<1>6. /\ g \in [Node -> Link] /\ g[x] = c /\ d[x] = v
      /\ d \in [Node -> Msg \cup {NoVal}]
      /\ \A y \in Node : y # x => g[y] = next[y] /\ d[y] = m.data[y]
      /\ next[x] \in Link
  BY <1>1
<1>7. n \in MqRecord
  <2>1. m.head \in Link /\ m.tail \in Link /\ m.entry \in Nat
    BY <1>1 DEF MqRecord
  <2> HIDE DEF g, d, next, x
  <2> QED  BY <1>5, <1>6, <2>1 DEF MqRecord
<1>8. \A y \in Node : y \in ToSet(q) \/ y \in ToSet(Tail(f)) => g[y] = next[y]
  BY <1>2, <1>4, <1>6
<1>9. Leads(g, next[x], Null, Tail(f)) /\ Leads(g, m.head, Null, q)
  <2>1. DOMAIN g = DOMAIN next
    OBVIOUS
  <2>2. PICK z : z = next[x]
    OBVIOUS
  <2> HIDE DEF g, next, x
  <2> QED  BY <1>1, <1>3, <1>8, <2>1, <2>2, LeadsSame
<1>10. Keeps(m, n, H \cup ToSet(q))
  BY <1>1, <1>2, <1>5, <1>6 DEF Keeps
<1> HIDE DEF g, d
<1>11. \A y \in ToSet(q) : n.data[y] \in Msg
  BY <1>10 DEF Keeps, Parted
<1>12. Parted(n, H \cup {x}, q, Tail(f))
  <2>1. /\ ToSet(q) \cap ToSet(Tail(f)) = {}
        /\ (H \cup {x}) \cap (ToSet(q) \cup ToSet(Tail(f))) = {}
        /\ ToSet(q) \cup ToSet(Tail(f)) \cup (H \cup {x}) = Node
    BY <1>1, <1>2, <1>4 DEF Parted
  <2>2. Len(q) = n.entry /\ n.tail = IF q = <<>> THEN Null ELSE q[Len(q)]
    BY <1>5 DEF Parted
  <2>3. Leads(n.next, n.free, Null, Tail(f)) /\ Leads(n.next, n.head, Null, q)
    BY <1>5, <1>9
  <2> QED  BY <1>7, <1>11, <2>1, <2>2, <2>3 DEF Parted, MqRecord
<1> QED  BY <1>1, <1>2, <1>5, <1>6, <1>10, <1>12

(* A node is linked behind the last one of the queue.                      *)
LEMMA TailParts ==
    ASSUME NEW m, NEW H, NEW q, NEW f, Parted(m, H, q, f), NEW x \in H,
           m.data[x] \in Msg, m.next[x] = Null, NEW n, n = LinkTail(m, x)
    PROVE  /\ Parted(n, H \ {x}, Append(q, x), f)
           /\ Keeps(m, n, H) /\ n.data = m.data
<1> DEFINE next == m.next
           g == IF m.tail # Null THEN [next EXCEPT ![m.tail] = x] ELSE next
           h == IF q = <<>> THEN x ELSE m.head
           r == Append(q, x)
<1>1. /\ m \in MqRecord /\ next \in [Node -> Link] /\ DOMAIN next = Node
      /\ IsList(q, Node) /\ IsList(f, Node) /\ x \in Node /\ m.entry \in Nat
      /\ Len(q) = m.entry /\ H \subseteq Node
      /\ (q = <<>> <=> m.tail = Null) /\ (q = <<>> <=> m.head = Null)
      /\ q # <<>> => m.tail = q[Len(q)] /\ q[Len(q)] \in ToSet(q)
      /\ ToSet(q) \subseteq Node /\ ToSet(f) \subseteq Node
      /\ m.head \in Link /\ m.free \in Link
      /\ Leads(next, m.head, Null, q) /\ Leads(next, m.free, Null, f)
  BY PartedFacts
<1>2. x \notin ToSet(q) /\ x \notin ToSet(f)
  BY DEF Parted
<1>3. /\ n.next = g /\ n.data = m.data /\ n.free = m.free /\ n.head = h
      /\ n.tail = x /\ n.entry = m.entry + 1
      /\ n = [next |-> g, head |-> h, tail |-> x, free |-> m.free,
              entry |-> m.entry + 1, data |-> m.data]
  BY <1>1 DEF MqRecord, LinkTail
<1>4. /\ g \in [Node -> Link] /\ DOMAIN g = DOMAIN next
      /\ q # <<>> => g[q[Len(q)]] = x
      /\ \A y \in DOMAIN next : (q = <<>> \/ y # q[Len(q)]) => g[y] = next[y]
      /\ h \in Link /\ m.entry + 1 \in Nat
  BY <1>1 DEF Link
<1> HIDE DEF g, h
<1>5. n \in MqRecord
  <2>1. x \in Link /\ m.data \in [Node -> Msg \cup {NoVal}]
    BY <1>1 DEF Link, MqRecord
  <2> QED  BY <1>1, <1>3, <1>4, <2>1 DEF MqRecord
<1>6. Leads(g, h, Null, r)
  <2> HIDE DEF next
  <2>1. next[x] = Null
    BY DEF next
  <2>2. Leads(g, IF q = <<>> THEN x ELSE m.head, Null, r)
    BY <1>1, <1>2, <1>4, <2>1, LeadsSnoc
  <2> QED  BY <2>2 DEF h
<1>7. Leads(g, m.free, Null, f)
  <2>1. \A y \in DOMAIN next : y \in ToSet(f) => g[y] = next[y]
    BY <1>1, <1>4 DEF Parted
  <2> HIDE DEF next
  <2> QED  BY <1>1, <1>4, <2>1, LeadsSame
<1>8. /\ IsList(r, Node) /\ ToSet(r) = ToSet(q) \cup {x} /\ Len(r) = m.entry + 1
      /\ r # <<>> /\ r[m.entry + 1] = x
  <2>1. q \in Seq(Node)
    BY <1>1 DEF IsList
  <2> QED  BY <1>1, <1>2, <2>1, AppendList, AppendProperties
<1> HIDE DEF r
<1>9. Keeps(m, n, H)
  <2>1. \A y \in H : y \in Node /\ (q = <<>> \/ y # q[Len(q)])
    BY <1>1 DEF Parted
  <2> QED  BY <1>1, <1>3, <1>4, <2>1 DEF Keeps
<1>10. Parted(n, H \ {x}, r, f)
  <2>1. /\ ToSet(r) \cap ToSet(f) = {}
        /\ (H \ {x}) \cap (ToSet(r) \cup ToSet(f)) = {}
        /\ ToSet(r) \cup ToSet(f) \cup (H \ {x}) = Node
    BY <1>1, <1>2, <1>8 DEF Parted
  <2>2. Len(r) = n.entry /\ n.tail = IF r = <<>> THEN Null ELSE r[Len(r)]
    BY <1>3, <1>8
  <2>3. \A y \in ToSet(r) : n.data[y] \in Msg
    BY <1>3, <1>8 DEF Parted
  <2>4. Leads(n.next, n.head, Null, r) /\ Leads(n.next, n.free, Null, f)
    BY <1>3, <1>6, <1>7
  <2> QED  BY <1>5, <2>1, <2>2, <2>3, <2>4 DEF Parted, MqRecord
<1> QED  BY <1>3, <1>9, <1>10 DEF r

(* A node is linked in front of the first one.                             *)
LEMMA HeadParts ==
    ASSUME NEW m, NEW H, NEW q, NEW f, Parted(m, H, q, f), NEW x \in H,
           m.data[x] \in Msg, NEW n, n = LinkHead(m, x)
    PROVE  /\ Parted(n, H \ {x}, <<x>> \o q, f)
           /\ Keeps(m, n, H \ {x}) /\ n.data = m.data
<1> DEFINE next == m.next
           a == m.head
           g == [next EXCEPT ![x] = a]
           h == IF m.tail = Null THEN x ELSE m.tail
           r == <<x>> \o q
<1>1. /\ m \in MqRecord /\ next \in [Node -> Link] /\ DOMAIN next = Node
      /\ IsList(q, Node) /\ IsList(f, Node) /\ x \in Node /\ m.entry \in Nat
      /\ Len(q) = m.entry /\ H \subseteq Node
      /\ (q = <<>> <=> m.tail = Null) /\ (q = <<>> <=> m.entry = 0)
      /\ q # <<>> => m.tail = q[Len(q)] /\ q[Len(q)] \in ToSet(q)
      /\ ToSet(q) \subseteq Node /\ ToSet(f) \subseteq Node
      /\ a \in Link /\ m.free \in Link /\ m.tail \in Link
      /\ Leads(next, a, Null, q) /\ Leads(next, m.free, Null, f)
  BY PartedFacts
<1>2. x \notin ToSet(q) /\ x \notin ToSet(f)
  BY DEF Parted
<1>3. /\ n.next = g /\ n.data = m.data /\ n.free = m.free /\ n.head = x
      /\ n.tail = h /\ n.entry = m.entry + 1
      /\ n = [next |-> g, head |-> x, tail |-> h, free |-> m.free,
              entry |-> m.entry + 1, data |-> m.data]
  BY <1>1 DEF MqRecord, LinkHead
<1>4. /\ g \in [Node -> Link] /\ DOMAIN g = DOMAIN next /\ g[x] = a
      /\ \A y \in DOMAIN next : y # x => g[y] = next[y]
      /\ h \in Link /\ m.entry + 1 \in Nat /\ x \in Link
  BY <1>1 DEF Link
<1> HIDE DEF g
<1>5. n \in MqRecord
  <2>1. m.data \in [Node -> Msg \cup {NoVal}]
    BY <1>1 DEF MqRecord
  <2> HIDE DEF h
  <2> QED  BY <1>1, <1>3, <1>4, <2>1 DEF MqRecord
<1>6. Leads(g, x, Null, r) /\ Leads(g, m.free, Null, f)
  <2>1. /\ \A y \in DOMAIN next : y \in ToSet(f) => g[y] = next[y]
        /\ \A y \in DOMAIN next : y \in ToSet(q) => g[y] = next[y]
        /\ x \in DOMAIN g
    BY <1>1, <1>2, <1>4
  <2> HIDE DEF next, a
  <2>2. Leads(g, a, Null, q) /\ Leads(g, m.free, Null, f)
    BY <1>1, <1>4, <2>1, LeadsSame
  <2>3. Leads(g, x, Null, r)
    BY <1>2, <1>4, <2>1, <2>2, LeadsCons
  <2> QED  BY <2>2, <2>3
<1>7. /\ IsList(r, Node) /\ ToSet(r) = ToSet(q) \cup {x} /\ Len(r) = m.entry + 1
      /\ r # <<>> /\ r[m.entry + 1] = h
  <2>1. q \in Seq(Node) /\ Len(q) \in Nat
    BY <1>1 DEF IsList
  <2>2. /\ Len(r) = Len(q) + 1 /\ r[1] = x /\ r # <<>>
        /\ \A i \in 1..Len(q) : r[i + 1] = q[i]
    BY <2>1
  <2>3. IsList(r, Node) /\ ToSet(r) = ToSet(q) \cup {x}
    BY <1>1, <1>2, ConsList
  <2>4. q # <<>> => Len(q) \in 1..Len(q)
    BY <2>1
  <2> HIDE DEF r
  <2> QED  BY <1>1, <2>1, <2>2, <2>3, <2>4
<1> HIDE DEF r, h
<1>8. Keeps(m, n, H \ {x})
  BY <1>1, <1>3, <1>4 DEF Keeps
<1>9. Parted(n, H \ {x}, r, f)
  <2>1. /\ ToSet(r) \cap ToSet(f) = {}
        /\ (H \ {x}) \cap (ToSet(r) \cup ToSet(f)) = {}
        /\ ToSet(r) \cup ToSet(f) \cup (H \ {x}) = Node
    BY <1>1, <1>2, <1>7 DEF Parted
  <2>2. Len(r) = n.entry /\ n.tail = IF r = <<>> THEN Null ELSE r[Len(r)]
    BY <1>3, <1>7
  <2>3. \A y \in ToSet(r) : n.data[y] \in Msg
    BY <1>3, <1>7 DEF Parted
  <2>4. Leads(n.next, n.head, Null, r) /\ Leads(n.next, n.free, Null, f)
    BY <1>3, <1>6
  <2> QED  BY <1>5, <2>1, <2>2, <2>3, <2>4 DEF Parted, MqRecord
<1> QED  BY <1>3, <1>8, <1>9 DEF r

Unlinks(m, n) == n = [m EXCEPT !.head = m.next[m.head],
                               !.tail = IF @ = m.head THEN Null ELSE @,
                               !.entry = @ - 1]

(* The first node of the queue is taken.                                   *)
LEMMA UnlinkParts ==
    ASSUME NEW m, NEW H, NEW q, NEW f, Parted(m, H, q, f), m.entry > 0,
           NEW n, Unlinks(m, n)
    PROVE  /\ q # <<>> /\ m.head = q[1] /\ m.head \in Node /\ m.head \notin H
           /\ Parted(n, H \cup {m.head}, Tail(q), f)
           /\ m.data[m.head] \in Msg /\ n.next = m.next /\ n.data = m.data
<1> DEFINE x == m.head
           next == m.next
           h == IF m.tail = x THEN Null ELSE m.tail
           r == Tail(q)
<1>1. /\ m \in MqRecord /\ next \in [Node -> Link] /\ DOMAIN next = Node
      /\ IsList(q, Node) /\ IsList(f, Node) /\ m.entry \in Nat
      /\ Len(q) = m.entry /\ H \subseteq Node
      /\ q # <<>> /\ x = q[1] /\ x \in ToSet(q) /\ m.tail = q[Len(q)]
      /\ ToSet(q) \subseteq Node /\ ToSet(f) \subseteq Node
      /\ m.tail \in Link
      /\ Leads(next, x, Null, q) /\ Leads(next, m.free, Null, f)
  BY PartedFacts
<1>2. x \notin H /\ x \notin ToSet(f) /\ x \in Node /\ m.data[x] \in Msg
  BY <1>1 DEF Parted
<1>3. Leads(next, next[x], Null, r)
  <2> HIDE DEF next, x, r
  <2> QED  BY <1>1, LeadsTail DEF r
<1>4. IsList(r, Node) /\ ToSet(r) = ToSet(q) \ {x} /\ Len(r) = m.entry - 1
  BY <1>1, TailList, TailLength
<1>5. /\ n.next = next /\ n.data = m.data /\ n.free = m.free /\ n.head = next[x]
      /\ n.tail = h /\ n.entry = m.entry - 1
      /\ n = [next |-> next, head |-> next[x], tail |-> h, free |-> m.free,
              entry |-> m.entry - 1, data |-> m.data]
  BY <1>1 DEF MqRecord, Unlinks
<1>6. m.entry - 1 \in Nat /\ next[x] \in Link /\ h \in Link
  BY <1>1, <1>2 DEF Link
<1>7. n \in MqRecord
  <2>1. m.data \in [Node -> Msg \cup {NoVal}] /\ m.free \in Link
    BY <1>1 DEF MqRecord
  <2> HIDE DEF h
  <2> QED  BY <1>1, <1>5, <1>6, <2>1 DEF MqRecord
<1>8. h = IF r = <<>> THEN Null ELSE r[Len(r)]
  <2>1. /\ q \in Seq(Node) /\ Len(q) \in Nat /\ Len(q) > 0 /\ r \in Seq(Node)
        /\ \A i, j \in 1..Len(q) : q[i] = q[j] => i = j
        /\ \A i \in 1..Len(r) : r[i] = q[i + 1]
    BY <1>1, <1>4, HeadTailProperties DEF IsList, IsInjective
  <2>2. CASE Len(q) = 1
    <3>1. r = <<>>
      <4> HIDE DEF r
      <4> QED  BY <1>1, <1>4, <2>1, <2>2
    <3> QED  BY <1>1, <2>2, <3>1
  <2>3. CASE Len(q) # 1
    <3>1. 1 \in 1..Len(q) /\ Len(q) \in 1..Len(q) /\ Len(r) \in 1..Len(r)
          /\ Len(r) + 1 = Len(q)
      BY <1>1, <1>4, <2>1, <2>3
    <3>2. q[Len(q)] # q[1] /\ r[Len(r)] = q[Len(q)]
      BY <2>1, <2>3, <3>1
    <3>3. r # <<>>
      <4> HIDE DEF r
      <4> QED  BY <3>1
    <3> QED  BY <1>1, <3>2, <3>3
  <2> QED  BY <2>2, <2>3
<1> HIDE DEF r, h
<1>9. Parted(n, H \cup {x}, r, f)
  <2>1. /\ ToSet(r) \cap ToSet(f) = {}
        /\ (H \cup {x}) \cap (ToSet(r) \cup ToSet(f)) = {}
        /\ ToSet(r) \cup ToSet(f) \cup (H \cup {x}) = Node
    BY <1>1, <1>2, <1>4 DEF Parted
  <2>2. Len(r) = n.entry /\ n.tail = IF r = <<>> THEN Null ELSE r[Len(r)]
    BY <1>4, <1>5, <1>8
  <2>3. \A y \in ToSet(r) : n.data[y] \in Msg
    BY <1>4, <1>5 DEF Parted
  <2>4. Leads(n.next, n.head, Null, r) /\ Leads(n.next, n.free, Null, f)
    BY <1>1, <1>3, <1>5
  <2> QED  BY <1>7, <2>1, <2>2, <2>3, <2>4 DEF Parted, MqRecord
<1> QED  BY <1>1, <1>2, <1>5, <1>9 DEF r

Returns(m, x, n) == n = [m EXCEPT !.next[x] = m.free, !.free = x]

(* A node goes back to the free list.                                      *)
LEMMA CopyParts ==
    ASSUME NEW m, NEW H, NEW q, NEW f, Parted(m, H, q, f), NEW x \in H,
           NEW n, Returns(m, x, n)
    PROVE  /\ Parted(n, H \ {x}, q, <<x>> \o f)
           /\ Keeps(m, n, H \ {x}) /\ n.data = m.data
<1> DEFINE next == m.next
           a == m.free
           g == [next EXCEPT ![x] = a]
           r == <<x>> \o f
<1>1. /\ m \in MqRecord /\ next \in [Node -> Link] /\ DOMAIN next = Node
      /\ IsList(q, Node) /\ IsList(f, Node) /\ x \in Node /\ m.entry \in Nat
      /\ H \subseteq Node
      /\ ToSet(q) \subseteq Node /\ ToSet(f) \subseteq Node
      /\ a \in Link /\ m.head \in Link /\ m.tail \in Link
      /\ Leads(next, m.head, Null, q) /\ Leads(next, a, Null, f)
  BY PartedFacts
<1>2. x \notin ToSet(q) /\ x \notin ToSet(f)
  BY DEF Parted
<1>3. /\ n.next = g /\ n.data = m.data /\ n.free = x /\ n.head = m.head
      /\ n.tail = m.tail /\ n.entry = m.entry
      /\ n = [next |-> g, head |-> m.head, tail |-> m.tail, free |-> x,
              entry |-> m.entry, data |-> m.data]
  BY <1>1 DEF MqRecord, Returns
<1>4. /\ g \in [Node -> Link] /\ DOMAIN g = DOMAIN next /\ g[x] = a
      /\ \A y \in DOMAIN next : y # x => g[y] = next[y]
      /\ x \in Link
  BY <1>1 DEF Link
<1> HIDE DEF g
<1>5. n \in MqRecord
  <2>1. m.data \in [Node -> Msg \cup {NoVal}]
    BY <1>1 DEF MqRecord
  <2> QED  BY <1>1, <1>3, <1>4, <2>1 DEF MqRecord
<1>6. Leads(g, x, Null, r) /\ Leads(g, m.head, Null, q)
  <2>1. /\ \A y \in DOMAIN next : y \in ToSet(f) => g[y] = next[y]
        /\ \A y \in DOMAIN next : y \in ToSet(q) => g[y] = next[y]
        /\ x \in DOMAIN g
    BY <1>1, <1>2, <1>4
  <2> HIDE DEF next, a
  <2>2. Leads(g, a, Null, f) /\ Leads(g, m.head, Null, q)
    BY <1>1, <1>4, <2>1, LeadsSame
  <2>3. Leads(g, x, Null, r)
    BY <1>2, <1>4, <2>1, <2>2, LeadsCons
  <2> QED  BY <2>2, <2>3
<1>7. ToSet(r) = ToSet(f) \cup {x}
  BY <1>1, <1>2, ConsList
<1> HIDE DEF r
<1>8. Keeps(m, n, H \ {x})
  BY <1>1, <1>3, <1>4 DEF Keeps
<1>9. Parted(n, H \ {x}, q, r)
  <2>1. /\ ToSet(q) \cap ToSet(r) = {}
        /\ (H \ {x}) \cap (ToSet(q) \cup ToSet(r)) = {}
        /\ ToSet(q) \cup ToSet(r) \cup (H \ {x}) = Node
    BY <1>1, <1>2, <1>7 DEF Parted
  <2>2. Len(q) = n.entry /\ n.tail = IF q = <<>> THEN Null ELSE q[Len(q)]
    BY <1>3 DEF Parted
  <2>3. \A y \in ToSet(q) : n.data[y] \in Msg
    BY <1>3 DEF Parted
  <2>4. Leads(n.next, n.head, Null, q) /\ Leads(n.next, n.free, Null, r)
    BY <1>3, <1>6
  <2> QED  BY <1>5, <2>1, <2>2, <2>3, <2>4 DEF Parted, MqRecord
<1> QED  BY <1>3, <1>8, <1>9 DEF r

(* What the queue leads to.                                                *)
LEMMA PartedChain ==
    ASSUME NEW m, NEW H, NEW q, NEW f, Parted(m, H, q, f)
    PROVE  Chain(m.next, m.head, Null) = q /\ Chain(m.next, m.free, Null) = f
<1>1. PICK next : next = m.next
  OBVIOUS
<1>2. /\ IsFiniteSet(DOMAIN next) /\ Null \notin DOMAIN next
      /\ Leads(next, m.head, Null, q) /\ Leads(next, m.free, Null, f)
  BY <1>1, PartedFacts
<1>3. Chain(next, m.head, Null) = q /\ Chain(next, m.free, Null) = f
  BY <1>2, ChainIs
<1> QED  BY <1>1, <1>3

(* The queue is emptied.                                                   *)
LEMMA FreedParts ==
    ASSUME NEW H, NEW q, NEW f, Parted(mq, H, q, f), NEW n, n = AllFreed
    PROVE  /\ Parted(n, H, <<>>, Pushed(q, f))
           /\ Keeps(mq, n, H) /\ n.data = mq.data
<1> DEFINE next == mq.next
           a == mq.free
           prev(x) == LET i == CHOOSE j \in DOMAIN q : q[j] = x
                      IN  IF i = 1 THEN a ELSE q[i - 1]
           g == [x \in Node |-> IF x \in ToSet(q) THEN prev(x) ELSE next[x]]
           h == IF q = <<>> THEN a ELSE q[Len(q)]
           r == Pushed(q, f)
<1>1. /\ mq \in MqRecord /\ next \in [Node -> Link] /\ DOMAIN next = Node
      /\ IsList(q, Node) /\ IsList(f, Node) /\ H \subseteq Node
      /\ ToSet(q) \subseteq Node /\ ToSet(f) \subseteq Node
      /\ a \in Link /\ Leads(next, a, Null, f)
      /\ q = <<>> <=> mq.tail = Null
      /\ q # <<>> => mq.tail = q[Len(q)] /\ q[Len(q)] \in ToSet(q)
  BY PartedFacts
<1>2. MsgChain(mq.head) = q
  BY PartedChain DEF MsgChain
<1>3. (IF mq.tail \in ToSet(q) THEN Null ELSE mq.tail) = Null
  BY <1>1
<1>4. /\ n.next = g /\ n.data = mq.data /\ n.free = h /\ n.head = Null
      /\ n.tail = Null /\ n.entry = 0
      /\ n = [next |-> g, head |-> Null, tail |-> Null, free |-> h,
              entry |-> 0, data |-> mq.data]
  <2>1. n = [mq EXCEPT !.next = g, !.free = h, !.head = Null,
                       !.tail = IF @ \in ToSet(q) THEN Null ELSE @,
                       !.entry = 0]
    <3>1. n = LET s == q
                  before(x) == LET i == CHOOSE j \in DOMAIN s : s[j] = x
                               IN  IF i = 1 THEN mq.free ELSE s[i - 1]
              IN  [mq EXCEPT !.next = [x \in Node |->
                                 IF x \in ToSet(s) THEN before(x) ELSE @[x]],
                             !.free = IF s = <<>> THEN @ ELSE s[Len(s)],
                             !.head = Null,
                             !.tail = IF @ \in ToSet(s) THEN Null ELSE @,
                             !.entry = 0]
      BY <1>2 DEF AllFreed
    <3> QED  BY <1>1, <3>1 DEF MqRecord
  <2> HIDE DEF g, h
  <2> QED  BY <1>1, <1>3, <2>1 DEF MqRecord
<1>5. ASSUME NEW i \in 1..Len(q)
      PROVE  g[q[i]] = IF i = 1 THEN a ELSE q[i - 1]
  <2> DEFINE c == CHOOSE j \in DOMAIN q : q[j] = q[i]
  <2>1. /\ DOMAIN q = 1..Len(q) /\ q[i] \in ToSet(q) /\ q[i] \in Node
        /\ \A j, l \in 1..Len(q) : q[j] = q[l] => j = l
    BY <1>1 DEF IsList, IsInjective, ToSet
  <2>2. c \in DOMAIN q /\ q[c] = q[i]
    BY <2>1
  <2>3. c = i
    BY <2>1, <2>2
  <2>4. g[q[i]] = IF c = 1 THEN a ELSE q[c - 1]
    BY <2>1
  <2> HIDE DEF c
  <2> QED  BY <2>3, <2>4
<1>6. /\ DOMAIN g = DOMAIN next
      /\ \A x \in DOMAIN next : x \notin ToSet(q) => g[x] = next[x]
  BY <1>1
<1>7. g \in [Node -> Link]
  <2> SUFFICES ASSUME NEW x \in Node
               PROVE  g[x] \in Link
    OBVIOUS
  <2>1. CASE x \in ToSet(q)
    <3>1. PICK i \in 1..Len(q) : x = q[i]
      BY <1>1, <2>1 DEF ToSet, IsList
    <3>2. i # 1 => q[i - 1] \in Node
      BY <1>1, <3>1 DEF IsList
    <3> HIDE DEF g
    <3> QED  BY <1>1, <1>5, <3>1, <3>2 DEF Link
  <2>2. CASE x \notin ToSet(q)
    BY <1>1, <2>2
  <2> QED  BY <2>1, <2>2
<1>8. ToSet(q) \cap ToSet(f) = {}
  BY DEF Parted
<1>9. Leads(g, h, Null, r)
  <2> HIDE DEF g, next, a, h, r
  <2>1. IsList(q, DOMAIN next)
    BY <1>1
  <2>2. Leads(g, IF q = <<>> THEN a ELSE q[Len(q)], Null, Pushed(q, f))
    BY <1>1, <1>5, <1>6, <1>8, <2>1, LeadsBack
  <2> QED  BY <2>2 DEF h, r
<1>10. ToSet(r) = ToSet(q) \cup ToSet(f)
  <2>1. IsList(q, Node) /\ IsList(f, Node)
    BY <1>1
  <2> HIDE DEF g, r, next, a, h
  <2>2. ToSet(Pushed(q, f)) = ToSet(q) \cup ToSet(f)
    BY <1>8, <2>1, PushedList
  <2> QED  BY <2>2 DEF r
<1> HIDE DEF g, r
<1>11. h \in Link /\ Null \in Link /\ 0 \in Nat
  BY <1>1 DEF Link
<1>12. n \in MqRecord
  <2>1. mq.data \in [Node -> Msg \cup {NoVal}]
    BY <1>1 DEF MqRecord
  <2> HIDE DEF h
  <2> QED  BY <1>4, <1>7, <1>11, <2>1 DEF MqRecord
<1>13. Keeps(mq, n, H)
  <2>1. \A x \in H : x \in Node /\ x \notin ToSet(q)
    BY <1>1 DEF Parted
  <2> QED  BY <1>1, <1>4, <1>6, <2>1 DEF Keeps
<1>14. Parted(n, H, <<>>, r)
  <2>0. ToSet(<<>>) = {}
    BY EmptyList
  <2>1. /\ ToSet(<<>>) \cap ToSet(r) = {}
        /\ H \cap (ToSet(<<>>) \cup ToSet(r)) = {}
        /\ ToSet(<<>>) \cup ToSet(r) \cup H = Node
    BY <1>10, <2>0 DEF Parted
  <2>2. Len(<<>>) = n.entry /\ n.tail = Null
    BY <1>4
  <2>3. \A y \in ToSet(<<>>) : n.data[y] \in Msg
    BY <2>0
  <2>4. Leads(n.next, n.head, Null, <<>>) /\ Leads(n.next, n.free, Null, r)
    BY <1>4, <1>9, LeadsNowhere
  <2> QED  BY <1>12, <2>1, <2>2, <2>3, <2>4 DEF Parted, MqRecord
<1> QED  BY <1>4, <1>13, <1>14 DEF r

-----------------------------------------------------------------------------
LinkStep == {"mqLink", "mqUrgent"}
CopyStep == {"mqCopy"}

(* What the tasks that are at a step of S have in their node. *)
Hands(d, nd, p, S) == [t \in Task |-> IF p[t] \in S THEN d[nd[t]] ELSE NoVal]

(* In o, entry t is x, and becomes y. *)
Turned(o, oo, t, x, y) == o[t] = x /\ oo = [o EXCEPT ![t] = y]

(* Task t gets the node z, or gives back its own, and is at step s then.   *)
Change(m, nd, p, t, z, s, n, ne, r) ==
    /\ p \in [Task -> Step] /\ Handled(m, nd, p) /\ z \in Link /\ s \in Step
    /\ Turned(nd, ne, t, nd[t], z) /\ Turned(p, r, t, p[t], s)
    /\ z # Null <=> s \in HoldStep
    /\ z # Null => z \notin InHands(nd) /\ n.data[z] \in Msg
    /\ s = "mqLink" => n.next[z] = Null
    /\ Keeps(m, n, InHands(nd) \ {nd[t]})

(* The others keep theirs.                                                 *)
LEMMA HandsChange ==
    ASSUME NEW m, NEW nd, NEW p, NEW t \in Task, NEW z, NEW s, NEW n, NEW ne, NEW r,
           Change(m, nd, p, t, z, s, n, ne, r)
    PROVE  /\ Handled(n, ne, r) /\ r \in [Task -> Step]
           /\ InHands(ne) = IF z = Null THEN InHands(nd) \ {nd[t]}
                            ELSE (InHands(nd) \ {nd[t]}) \cup {z}
<1> USE DEF Change, Turned
<1>1. /\ nd \in [Task -> Link] /\ ne \in [Task -> Link] /\ ne[t] = z /\ r[t] = s
      /\ \A u \in Task : u # t => ne[u] = nd[u] /\ r[u] = p[u]
  BY DEF Handled
<1>2. \A u \in Task : nd[u] # Null => nd[u] \in InHands(nd)
  BY DEF InHands
<1>3. \A u \in Task : u # t /\ nd[u] # Null => nd[u] \in InHands(nd) \ {nd[t]}
  BY <1>2 DEF Handled
<1>4. \A u \in Task : u # t /\ nd[u] # Null =>
          n.data[nd[u]] = m.data[nd[u]] /\ n.next[nd[u]] = m.next[nd[u]]
  BY <1>3 DEF Keeps
<1>5. InHands(ne) = IF z = Null THEN InHands(nd) \ {nd[t]}
                    ELSE (InHands(nd) \ {nd[t]}) \cup {z}
  <2>1. ASSUME NEW x, x \in InHands(ne)
        PROVE  (x = z /\ z # Null) \/ x \in InHands(nd) \ {nd[t]}
    <3>1. PICK u \in Task : x = ne[u] /\ x # Null
      BY <2>1 DEF InHands
    <3> QED  BY <1>1, <1>3, <3>1
  <2>2. ASSUME NEW x, x \in InHands(nd) \ {nd[t]}
        PROVE  x \in InHands(ne)
    <3>1. PICK u \in Task : x = nd[u] /\ x # Null
      BY <2>2 DEF InHands
    <3>2. x = ne[u]
      BY <1>1, <2>2, <3>1
    <3> QED  BY <3>1, <3>2 DEF InHands
  <2>3. z # Null => z \in InHands(ne)
    BY <1>1 DEF InHands
  <2> QED  BY <2>1, <2>2, <2>3
<1>6. \A u, w \in Task : u # w /\ ne[u] # Null => ne[u] # ne[w]
  <2> SUFFICES ASSUME NEW u \in Task, NEW w \in Task, u # w, ne[u] # Null
               PROVE  ne[u] # ne[w]
    OBVIOUS
  <2> QED  BY <1>1, <1>2 DEF Handled
<1>7. \A u \in Task : ne[u] # Null <=> r[u] \in HoldStep
  BY <1>1 DEF Handled
<1>8. \A u \in Task : ne[u] # Null => n.data[ne[u]] \in Msg
  BY <1>1, <1>4 DEF Handled
<1>9. \A u \in Task : r[u] = "mqLink" => n.next[ne[u]] = Null
  <2> SUFFICES ASSUME NEW u \in Task, r[u] = "mqLink"
               PROVE  n.next[ne[u]] = Null
    OBVIOUS
  <2>1. CASE u = t
    BY <1>1, <2>1
  <2>2. CASE u # t
    <3>1. p[u] = "mqLink" /\ "mqLink" \in HoldStep
      BY <1>1, <2>2 DEF HoldStep
    <3> QED  BY <1>1, <1>4, <2>2, <3>1 DEF Handled
  <2> QED  BY <2>1, <2>2
<1> QED  BY <1>1, <1>5, <1>6, <1>7, <1>8, <1>9 DEF Handled

(* What its node says changes with it, and nothing else.                   *)
LEMMA HandsOfNodes ==
    ASSUME NEW m, NEW nd, NEW p, NEW t \in Task, NEW z, NEW s, NEW n, NEW ne, NEW r,
           Change(m, nd, p, t, z, s, n, ne, r), NEW S, S \subseteq HoldStep
    PROVE  Turned(Hands(m.data, nd, p, S), Hands(n.data, ne, r, S), t,
                  IF p[t] \in S THEN m.data[nd[t]] ELSE NoVal,
                  IF s \in S THEN n.data[z] ELSE NoVal)
<1> USE DEF Change, Turned
<1>1. /\ nd \in [Task -> Link] /\ ne[t] = z /\ r[t] = s
      /\ \A u \in Task : u # t => ne[u] = nd[u] /\ r[u] = p[u]
  BY DEF Handled
<1>2. \A u \in Task : u # t /\ p[u] \in S => nd[u] \in InHands(nd) \ {nd[t]}
  BY DEF Handled, InHands
<1>3. \A u \in Task : u # t /\ p[u] \in S => n.data[nd[u]] = m.data[nd[u]]
  BY <1>2 DEF Keeps
<1>4. \A u \in Task : (IF r[u] \in S THEN n.data[ne[u]] ELSE NoVal)
          = IF u = t THEN IF s \in S THEN n.data[z] ELSE NoVal
            ELSE IF p[u] \in S THEN m.data[nd[u]] ELSE NoVal
  BY <1>1, <1>3
<1> QED  BY <1>4 DEF Hands

(* The task gets a node that counts at S,                                  *)
LEMMA HandsGet ==
    ASSUME NEW m, NEW nd, NEW p, NEW t \in Task, NEW z, NEW s, NEW n, NEW ne, NEW r,
           Change(m, nd, p, t, z, s, n, ne, r), NEW S, S \subseteq HoldStep,
           s \in S, p[t] \notin S, NEW v, v = n.data[z]
    PROVE  Turned(Hands(m.data, nd, p, S), Hands(n.data, ne, r, S), t, NoVal, v)
BY HandsOfNodes

(* or is done with it,                                                     *)
LEMMA HandsGive ==
    ASSUME NEW m, NEW nd, NEW p, NEW t \in Task, NEW z, NEW s, NEW n, NEW ne, NEW r,
           Change(m, nd, p, t, z, s, n, ne, r), NEW S, S \subseteq HoldStep,
           s \notin S, p[t] \in S, NEW v, v = m.data[nd[t]]
    PROVE  Turned(Hands(m.data, nd, p, S), Hands(n.data, ne, r, S), t, v, NoVal)
BY HandsOfNodes

(* or its node does not count at S.                                        *)
LEMMA HandsNot ==
    ASSUME NEW m, NEW nd, NEW p, NEW t \in Task, NEW z, NEW s, NEW n, NEW ne, NEW r,
           Change(m, nd, p, t, z, s, n, ne, r), NEW S, S \subseteq HoldStep,
           s \notin S, p[t] \notin S
    PROVE  Hands(n.data, ne, r, S) = Hands(m.data, nd, p, S)
<1>1. Turned(Hands(m.data, nd, p, S), Hands(n.data, ne, r, S), t, NoVal, NoVal)
  BY HandsOfNodes
<1> QED  BY <1>1 DEF Hands, Turned

(* Nobody begins or ends to have a node in the hands. *)
SameHold(p, r) ==
    \A u \in Task : p[u] \in HoldStep \/ r[u] \in HoldStep => r[u] = p[u]

(* Nobody takes or gives back a node.                                      *)
LEMMA HandsStay ==
    ASSUME NEW m, NEW n, NEW nd, NEW p, NEW r, Handled(m, nd, p),
           SameHold(p, r), Keeps(m, n, InHands(nd))
    PROVE  /\ Handled(n, nd, r)
           /\ Hands(n.data, nd, r, LinkStep) = Hands(m.data, nd, p, LinkStep)
           /\ Hands(n.data, nd, r, CopyStep) = Hands(m.data, nd, p, CopyStep)
<1> USE DEF SameHold
<1>1. \A u \in Task : nd[u] # Null =>
          n.data[nd[u]] = m.data[nd[u]] /\ n.next[nd[u]] = m.next[nd[u]]
  BY DEF Keeps, InHands
<1>2. "mqLink" \in HoldStep
  BY DEF HoldStep
<1>3. ASSUME NEW u \in Task, r[u] = "mqLink"
      PROVE  n.next[nd[u]] = Null
  <2>1. p[u] = "mqLink"
    BY <1>2, <1>3
  <2> QED  BY <1>1, <1>2, <2>1 DEF Handled
<1>4. Handled(n, nd, r)
  <2>1. \A u \in Task : nd[u] # Null <=> r[u] \in HoldStep
    BY DEF Handled
  <2>2. \A u \in Task : nd[u] # Null => n.data[nd[u]] \in Msg
    BY <1>1 DEF Handled
  <2> QED  BY <1>3, <2>1, <2>2 DEF Handled
<1>5. ASSUME NEW S \in SUBSET HoldStep
      PROVE  Hands(n.data, nd, r, S) = Hands(m.data, nd, p, S)
  <2>1. \A u \in Task : r[u] \in S <=> p[u] \in S
    OBVIOUS
  <2>2. \A u \in Task : p[u] \in S => n.data[nd[u]] = m.data[nd[u]]
    BY <1>1 DEF Handled
  <2> QED  BY <2>1, <2>2 DEF Hands
<1>6. LinkStep \in SUBSET HoldStep /\ CopyStep \in SUBSET HoldStep
  BY DEF LinkStep, CopyStep, HoldStep
<1> QED  BY <1>4, <1>5, <1>6

(* The queue and the hands of the tasks, before a step. *)
Nodes(m, nd, p, q, f) == /\ Parted(m, InHands(nd), q, f) /\ Handled(m, nd, p)
                         /\ p \in [Task -> Step]

(* A step of the channel, from the queue q with the messages o offered and *)
(* g received.                                                             *)
Passes(q, o, g, qq, oo, gg, t) ==
    \/ qq = q /\ oo = o /\ gg = g
    \/ qq = <<>> /\ oo = o /\ gg = g
    \/ /\ Len(q) < Cardinality(Node) /\ oo = o /\ gg = g
       /\ \E v \in Msg : qq = Append(q, v)
    \/ (\E v \in Msg : Turned(o, oo, t, NoVal, v)) /\ qq = q /\ gg = g
    \/ /\ Len(q) < Cardinality(Node) /\ gg = g
       /\ \E v \in Msg : /\ Turned(o, oo, t, v, NoVal)
                         /\ qq \in {Append(q, v), <<v>> \o q}
    \/ q # <<>> /\ Turned(g, gg, t, NoVal, Head(q)) /\ qq = Tail(q) /\ oo = o
    \/ (\E v \in Msg : Turned(g, gg, t, v, NoVal)) /\ qq = q /\ oo = o

Follows(m, nd, p, q, n, ne, r, t) ==
    \E s, e : /\ Nodes(n, ne, r, s, e)
              /\ Passes(Written(m.data, q), Hands(m.data, nd, p, LinkStep),
                        Hands(m.data, nd, p, CopyStep),
                        Written(n.data, s), Hands(n.data, ne, r, LinkStep),
                        Hands(n.data, ne, r, CopyStep), t)

(* What the proofs below take from the invariant.                          *)
LEMMA NodesFacts ==
    ASSUME NEW m, NEW nd, NEW p, NEW q, NEW f, Nodes(m, nd, p, q, f)
    PROVE  /\ q \in Seq(Node) /\ IsList(q, Node) /\ ToSet(q) \subseteq Node
           /\ \A y \in ToSet(q) : m.data[y] \in Msg
           /\ InHands(nd) \cap ToSet(q) = {} /\ InHands(nd) \subseteq Node
           /\ Null \notin Node /\ NoVal \notin Msg
           /\ Len(Written(m.data, q)) = Len(q)
           /\ nd \in [Task -> Link] /\ p \in [Task -> Step]
           /\ \A t \in Task : nd[t] # Null => nd[t] \in InHands(nd)
           /\ {"app", "mqLink", "mqUrgent", "mqCopy", "mqGetBack", "resume"} \subseteq Step
           /\ LinkStep \subseteq HoldStep /\ CopyStep \subseteq HoldStep
           /\ Null \in Link
<1>1. Parted(m, InHands(nd), q, f) /\ Handled(m, nd, p) /\ p \in [Task -> Step]
  BY DEF Nodes
<1>2. /\ q \in Seq(Node) /\ IsList(q, Node) /\ ToSet(q) \subseteq Node
      /\ Null \notin Node
  BY <1>1, PartedFacts DEF IsList
<1>3. /\ \A y \in ToSet(q) : m.data[y] \in Msg
      /\ InHands(nd) \cap ToSet(q) = {} /\ InHands(nd) \subseteq Node
  BY <1>1 DEF Parted
<1>4. \A i \in 1..Len(q) : q[i] \in ToSet(q)
  BY <1>2 DEF ToSet
<1>5. Len(Written(m.data, q)) = Len(q)
  BY <1>2, <1>3, <1>4, WrittenSeq
<1>6. nd \in [Task -> Link] /\ \A t \in Task : nd[t] # Null => nd[t] \in InHands(nd)
  BY <1>1 DEF Handled, InHands
<1>7. /\ {"app", "mqLink", "mqUrgent", "mqCopy", "mqGetBack", "resume"} \subseteq Step
      /\ LinkStep \subseteq HoldStep /\ CopyStep \subseteq HoldStep
      /\ NoVal \notin Msg /\ Null \in Link
  BY WaitAssumption DEF Step, WaitStep, MqueueStep, LinkStep, CopyStep, HoldStep, Link
<1> QED  BY <1>1, <1>2, <1>3, <1>5, <1>6, <1>7

(* A node outside of the queue leaves room in it.                          *)
LEMMA QueueHasRoom ==
    ASSUME NEW q, IsList(q, Node), NEW x \in Node, x \notin ToSet(q)
    PROVE  Len(q) < Cardinality(Node)
<1>1. Len(q) = Cardinality(ToSet(q)) /\ ToSet(q) \subseteq Node /\ IsFiniteSet(Node)
  BY ListSize, MemberOfList, MqueueAssumption
<1>2. Cardinality(ToSet(q)) < Cardinality(Node)
  <2>1. ToSet(q) \subseteq Node \ {x} /\ IsFiniteSet(Node \ {x})
    BY <1>1, FS_RemoveElement
  <2>2. Cardinality(Node \ {x}) = Cardinality(Node) - 1
    BY <1>1, FS_RemoveElement
  <2>3. Cardinality(ToSet(q)) <= Cardinality(Node \ {x}) /\ IsFiniteSet(ToSet(q))
    BY <2>1, FS_Subset
  <2>4. Cardinality(ToSet(q)) \in Nat /\ Cardinality(Node) \in Nat
    BY <1>1, <2>3, FS_CardinalityType
  <2> QED  BY <2>2, <2>3, <2>4
<1> QED  BY <1>1, <1>2

(* os_mqueue_put, up to the copy into the node.                            *)
LEMMA PutFollows ==
    ASSUME NEW m, NEW nd, NEW p, NEW q, NEW f, Nodes(m, nd, p, q, f),
           NEW t \in Task, p[t] = "app", m.free # Null, NEW v \in Msg,
           NEW s \in LinkStep, NEW c \in Link, s = "mqLink" => c = Null,
           NEW n, Fills(m, v, c, n),
           NEW ne, Turned(nd, ne, t, nd[t], m.free), NEW r, Turned(p, r, t, p[t], s)
    PROVE  Follows(m, nd, p, q, n, ne, r, t)
<1>0. PICK x, H : x = m.free /\ H = InHands(nd)
  OBVIOUS
<1>1. Parted(m, H, q, f) /\ Handled(m, nd, p) /\ p \in [Task -> Step]
  BY <1>0 DEF Nodes
<1>2. /\ x \in Node /\ x \notin H /\ Parted(n, H \cup {x}, q, Tail(f))
      /\ n.next[x] = c /\ n.data[x] = v /\ Keeps(m, n, H \cup ToSet(q))
  <2>1. /\ m.free \in Node /\ m.free \notin H
        /\ Parted(n, H \cup {m.free}, q, Tail(f))
        /\ n.next[m.free] = c /\ n.data[m.free] = v /\ Keeps(m, n, H \cup ToSet(q))
    BY <1>1, FillParts
  <2> QED  BY <1>0, <2>1
<1>3. /\ q \in Seq(Node) /\ Null \notin Node /\ s \in Step /\ s \in HoldStep
      /\ LinkStep \subseteq HoldStep /\ CopyStep \subseteq HoldStep /\ NoVal \notin Msg
  BY NodesFacts DEF LinkStep
<1>4. Keeps(m, n, H \ {nd[t]}) /\ \A y \in ToSet(q) : m.data[y] = n.data[y]
  BY <1>2 DEF Keeps
<1>5. p[t] \notin HoldStep /\ nd[t] = Null /\ H \ {nd[t]} = H /\ x \in Link
  BY <1>0, <1>1, <1>2 DEF HoldStep, Handled, InHands, Link
<1>6. Change(m, nd, p, t, x, s, n, ne, r) /\ x # Null
  BY <1>0, <1>1, <1>2, <1>3, <1>4, <1>5 DEF Change
<1>7. Handled(n, ne, r) /\ InHands(ne) = H \cup {x} /\ r \in [Task -> Step]
  <2>1. /\ Handled(n, ne, r) /\ r \in [Task -> Step]
        /\ InHands(ne) = IF x = Null THEN InHands(nd) \ {nd[t]}
                         ELSE (InHands(nd) \ {nd[t]}) \cup {x}
    BY <1>6, HandsChange
  <2> QED  BY <1>0, <1>5, <1>6, <2>1
<1>8. Written(n.data, q) = Written(m.data, q)
  BY <1>3, <1>4, WrittenSame
<1>9. Turned(Hands(m.data, nd, p, LinkStep), Hands(n.data, ne, r, LinkStep), t, NoVal, v)
  <2>1. p[t] \notin LinkStep /\ s \in LinkStep
    BY <1>3, <1>5
  <2> QED  BY <1>2, <1>3, <1>6, <2>1, HandsGet
<1>10. Hands(n.data, ne, r, CopyStep) = Hands(m.data, nd, p, CopyStep)
  <2>1. s \notin CopyStep /\ p[t] \notin CopyStep
    BY DEF LinkStep, CopyStep
  <2>2. Change(m, nd, p, t, x, s, n, ne, r) /\ CopyStep \subseteq HoldStep
    BY <1>3, <1>6
  <2> QED  BY <2>1, <2>2, HandsNot
<1>11. Nodes(n, ne, r, q, Tail(f))
  BY <1>1, <1>2, <1>3, <1>6, <1>7 DEF Nodes
<1> QED  BY <1>8, <1>9, <1>10, <1>11 DEF Follows, Passes

(* The end of os_mqueue_put.                                               *)
LEMMA LinkFollows ==
    ASSUME NEW m, NEW nd, NEW p, NEW q, NEW f, Nodes(m, nd, p, q, f),
           NEW t \in Task, p[t] \in LinkStep,
           NEW n, \/ p[t] = "mqLink" /\ n = LinkTail(m, nd[t])
                  \/ p[t] = "mqUrgent" /\ n = LinkHead(m, nd[t]),
           NEW ne, Turned(nd, ne, t, nd[t], Null), NEW r, Turned(p, r, t, p[t], "app")
    PROVE  Follows(m, nd, p, q, n, ne, r, t)
<1>0. PICK x, H, v : x = nd[t] /\ H = InHands(nd) /\ v = m.data[x]
  OBVIOUS
<1>1. Parted(m, H, q, f) /\ Handled(m, nd, p) /\ p \in [Task -> Step]
  BY <1>0 DEF Nodes
<1>2. /\ q \in Seq(Node) /\ IsList(q, Node) /\ Null \notin Node /\ Null \in Link
      /\ {"app"} \subseteq Step /\ H \cap ToSet(q) = {} /\ H \subseteq Node
      /\ \A y \in ToSet(q) : m.data[y] \in Msg
      /\ LinkStep \subseteq HoldStep /\ CopyStep \subseteq HoldStep /\ NoVal \notin Msg
      /\ Len(Written(m.data, q)) = Len(q)
  BY <1>0, NodesFacts
<1>4. x # Null /\ v \in Msg
  BY <1>0, <1>1, <1>2 DEF Handled
<1>5. x \in H /\ x \in Node /\ x \notin ToSet(q) /\ Len(q) < Cardinality(Node)
  <2>1. x \in H
    BY <1>0, <1>4 DEF InHands
  <2>2. x \in Node /\ x \notin ToSet(q)
    BY <1>2, <2>1
  <2> QED  BY <1>2, <2>1, <2>2, QueueHasRoom
<1>6. PICK s : /\ Parted(n, H \ {x}, s, f) /\ Keeps(m, n, H \ {x}) /\ n.data = m.data
               /\ Written(m.data, s) \in {Append(Written(m.data, q), v),
                                          <<v>> \o Written(m.data, q)}
  <2>1. CASE p[t] = "mqLink" /\ n = LinkTail(m, x)
    <3>1. m.next[x] = Null
      BY <1>0, <1>1, <2>1 DEF Handled
    <3>2. /\ Parted(n, H \ {x}, Append(q, x), f) /\ Keeps(m, n, H) /\ n.data = m.data
      BY <1>0, <1>1, <1>4, <1>5, <2>1, <3>1, TailParts
    <3>3. Written(m.data, Append(q, x)) = Append(Written(m.data, q), v)
      BY <1>0, <1>2, <1>4, <1>5, WrittenAppend
    <3> QED  BY <3>2, <3>3 DEF Keeps
  <2>2. CASE p[t] = "mqUrgent" /\ n = LinkHead(m, x)
    <3>1. /\ Parted(n, H \ {x}, <<x>> \o q, f) /\ Keeps(m, n, H \ {x}) /\ n.data = m.data
      BY <1>0, <1>1, <1>4, <1>5, <2>2, HeadParts
    <3>2. Written(m.data, <<x>> \o q) = <<v>> \o Written(m.data, q)
      BY <1>0, <1>2, <1>4, <1>5, WrittenCons
    <3> QED  BY <3>1, <3>2
  <2> QED  BY <1>0, <2>1, <2>2
<1>7. "app" \notin HoldStep /\ "app" # "mqLink" /\ "app" \in Step
  BY <1>2 DEF HoldStep
<1>8. Change(m, nd, p, t, Null, "app", n, ne, r)
  BY <1>0, <1>1, <1>2, <1>6, <1>7 DEF Change
<1>9. Handled(n, ne, r) /\ InHands(ne) = H \ {x} /\ r \in [Task -> Step]
  <2>0. PICK z : z = Null
    OBVIOUS
  <2>1. Change(m, nd, p, t, z, "app", n, ne, r)
    BY <1>8, <2>0
  <2>2. /\ Handled(n, ne, r) /\ r \in [Task -> Step]
        /\ InHands(ne) = IF z = Null THEN InHands(nd) \ {nd[t]}
                         ELSE (InHands(nd) \ {nd[t]}) \cup {z}
    BY <2>1, HandsChange
  <2> QED  BY <1>0, <2>0, <2>2
<1>10. Turned(Hands(m.data, nd, p, LinkStep), Hands(n.data, ne, r, LinkStep), t, v, NoVal)
  <2>1. "app" \notin LinkStep
    BY DEF LinkStep
  <2> QED  BY <1>0, <1>2, <1>8, <2>1, HandsGive
<1>11. Hands(n.data, ne, r, CopyStep) = Hands(m.data, nd, p, CopyStep)
  <2>1. "app" \notin CopyStep /\ p[t] \notin CopyStep
    BY DEF LinkStep, CopyStep
  <2> QED  BY <1>2, <1>8, <2>1, HandsNot
<1>12. Nodes(n, ne, r, s, f)
  BY <1>1, <1>6, <1>7, <1>8, <1>9 DEF Nodes
<1> QED  BY <1>2, <1>4, <1>5, <1>6, <1>10, <1>11, <1>12 DEF Follows, Passes

(* os_mqueue_put in an interrupt handler.                                  *)
LEMMA IsrPutFollows ==
    ASSUME NEW m, NEW nd, NEW p, NEW q, NEW f, Nodes(m, nd, p, q, f),
           NEW t, m.free # Null, NEW v \in Msg, NEW l, Fills(m, v, Null, l),
           NEW n, n = LinkTail(l, m.free)
    PROVE  Follows(m, nd, p, q, n, nd, p, t)
<1>0. PICK x, H, P : x = m.free /\ H = InHands(nd) /\ P = H \cup {x}
  OBVIOUS
<1>1. Parted(m, H, q, f) /\ Handled(m, nd, p) /\ p \in [Task -> Step]
  BY <1>0 DEF Nodes
<1>2. /\ q \in Seq(Node) /\ IsList(q, Node) /\ Null \in Link
      /\ LinkStep \in SUBSET HoldStep /\ CopyStep \in SUBSET HoldStep
      /\ \A y \in ToSet(q) : m.data[y] \in Msg
      /\ Len(Written(m.data, q)) = Len(q)
      /\ H \cap ToSet(q) = {}
  BY <1>0, NodesFacts
<1>3. /\ m.free \in Node /\ m.free \notin H
      /\ Parted(l, H \cup {m.free}, q, Tail(f))
      /\ l.next[m.free] = Null /\ l.data[m.free] = v /\ Keeps(m, l, H \cup ToSet(q))
  BY <1>1, <1>2, FillParts
<1>4. /\ x \in Node /\ x \notin H /\ Parted(l, P, q, Tail(f)) /\ x \in P
      /\ l.next[x] = Null /\ l.data[x] = v /\ Keeps(m, l, H \cup ToSet(q))
      /\ P \ {x} = H
  BY <1>0, <1>3
<1>5. x \notin ToSet(q)
  BY <1>4 DEF Parted
<1>6. /\ Parted(n, P \ {x}, Append(q, x), Tail(f))
      /\ Keeps(l, n, P) /\ n.data = l.data
  <2>1. l.data[x] \in Msg /\ n = LinkTail(l, x)
    BY <1>0, <1>4
  <2> QED  BY <1>4, <2>1, TailParts
<1>7. Keeps(m, n, H)
  BY <1>0, <1>4, <1>6 DEF Keeps
<1>8. /\ Handled(n, nd, p)
      /\ Hands(n.data, nd, p, LinkStep) = Hands(m.data, nd, p, LinkStep)
      /\ Hands(n.data, nd, p, CopyStep) = Hands(m.data, nd, p, CopyStep)
  <2>1. Keeps(m, n, InHands(nd)) /\ SameHold(p, p)
    BY <1>0, <1>7 DEF SameHold
  <2> QED  BY <1>1, <2>1, HandsStay
<1>9. Written(n.data, Append(q, x)) = Append(Written(m.data, q), v)
  <2>1. \A y \in ToSet(q) : n.data[y] = m.data[y]
    BY <1>4, <1>6 DEF Keeps
  <2>2. Written(n.data, q) = Written(m.data, q)
    BY <1>2, <2>1, WrittenSame
  <2>3. n.data[x] = v /\ \A y \in ToSet(q) : n.data[y] \in Msg
    BY <1>2, <1>4, <1>6, <2>1
  <2>4. Written(n.data, Append(q, x)) = Append(Written(n.data, q), n.data[x])
    BY <1>2, <1>4, <2>3, WrittenAppend
  <2> QED  BY <2>2, <2>3, <2>4
<1>10. Nodes(n, nd, p, Append(q, x), Tail(f))
  BY <1>0, <1>1, <1>4, <1>6, <1>8 DEF Nodes
<1>11. Len(q) < Cardinality(Node)
  BY <1>2, <1>4, <1>5, QueueHasRoom
<1>12. Passes(Written(m.data, q), Hands(m.data, nd, p, LinkStep),
              Hands(m.data, nd, p, CopyStep),
              Written(n.data, Append(q, x)), Hands(n.data, nd, p, LinkStep),
              Hands(n.data, nd, p, CopyStep), t)
  <2>1. /\ Hands(n.data, nd, p, LinkStep) = Hands(m.data, nd, p, LinkStep)
        /\ Hands(n.data, nd, p, CopyStep) = Hands(m.data, nd, p, CopyStep)
    BY <1>2, <1>8
  <2> QED  BY <1>2, <1>9, <1>11, <2>1 DEF Passes
<1> QED  BY <1>10, <1>12 DEF Follows

(* os_mqueue_get, up to the copy from the node.                            *)
LEMMA TakeFollows ==
    ASSUME NEW m, NEW nd, NEW p, NEW q, NEW f, Nodes(m, nd, p, q, f),
           NEW t \in Task, p[t] \notin HoldStep, m.entry > 0, NEW n, Unlinks(m, n),
           NEW ne, Turned(nd, ne, t, nd[t], m.head),
           NEW r, Turned(p, r, t, p[t], "mqCopy")
    PROVE  Follows(m, nd, p, q, n, ne, r, t)
<1>0. PICK x, H, C : x = m.head /\ H = InHands(nd) /\ C = "mqCopy"
  OBVIOUS
<1>1. Parted(m, H, q, f) /\ Handled(m, nd, p) /\ p \in [Task -> Step]
  BY <1>0 DEF Nodes
<1>2. /\ q \in Seq(Node) /\ C \in Step /\ C \in HoldStep /\ C # "mqLink"
      /\ C \in CopyStep /\ C \notin LinkStep /\ Null \notin Node
      /\ LinkStep \subseteq HoldStep /\ CopyStep \subseteq HoldStep
      /\ \A y \in ToSet(q) : m.data[y] \in Msg
  BY <1>0, NodesFacts DEF CopyStep, LinkStep
<1>3. /\ q # <<>> /\ m.head = q[1] /\ m.head \in Node /\ m.head \notin H
      /\ Parted(n, H \cup {m.head}, Tail(q), f)
      /\ m.data[m.head] \in Msg /\ n.next = m.next /\ n.data = m.data
  BY <1>1, UnlinkParts
<1>4. /\ x = q[1] /\ x \in Node /\ x \notin H /\ Parted(n, H \cup {x}, Tail(q), f)
      /\ n.data[x] \in Msg /\ x # Null /\ x \in Link
  BY <1>0, <1>2, <1>3 DEF Link
<1>5. nd[t] = Null /\ H \ {nd[t]} = H
  BY <1>0, <1>1 DEF Handled, InHands
<1>6. Keeps(m, n, InHands(nd) \ {nd[t]})
  BY <1>3 DEF Keeps
<1>7. Change(m, nd, p, t, x, C, n, ne, r)
  BY <1>0, <1>1, <1>2, <1>4, <1>6 DEF Change
<1>8. Handled(n, ne, r) /\ InHands(ne) = H \cup {x} /\ r \in [Task -> Step]
  <2>1. /\ Handled(n, ne, r) /\ r \in [Task -> Step]
        /\ InHands(ne) = IF x = Null THEN InHands(nd) \ {nd[t]}
                         ELSE (InHands(nd) \ {nd[t]}) \cup {x}
    BY <1>7, HandsChange
  <2> QED  BY <1>0, <1>4, <1>5, <2>1
<1>9. Nodes(n, ne, r, Tail(q), f)
  BY <1>4, <1>8 DEF Nodes
<1>10. PICK v : v = n.data[x]
  OBVIOUS
<1>11. /\ Written(m.data, Tail(q)) = Tail(Written(m.data, q))
       /\ Written(m.data, q) # <<>> /\ Head(Written(m.data, q)) = m.data[q[1]]
  BY <1>2, <1>3, WrittenTail
<1>12. /\ Written(n.data, Tail(q)) = Tail(Written(m.data, q))
       /\ Written(m.data, q) # <<>> /\ Head(Written(m.data, q)) = v
  BY <1>3, <1>4, <1>10, <1>11
<1>13. Turned(Hands(m.data, nd, p, CopyStep), Hands(n.data, ne, r, CopyStep), t, NoVal, v)
  <2>1. p[t] \notin CopyStep
    BY <1>2
  <2> QED  BY <1>2, <1>7, <1>10, <2>1, HandsGet
<1>14. Hands(n.data, ne, r, LinkStep) = Hands(m.data, nd, p, LinkStep)
  <2>1. p[t] \notin LinkStep
    BY <1>2
  <2> QED  BY <1>2, <1>7, <2>1, HandsNot
<1> QED  BY <1>9, <1>12, <1>13, <1>14 DEF Follows, Passes

(* The message is copied and the node goes back.                           *)
LEMMA CopyFollows ==
    ASSUME NEW m, NEW nd, NEW p, NEW q, NEW f, Nodes(m, nd, p, q, f),
           NEW t \in Task, p[t] = "mqCopy", NEW n, Returns(m, nd[t], n),
           NEW ne, Turned(nd, ne, t, nd[t], Null),
           NEW r, Turned(p, r, t, p[t], "app")
    PROVE  Follows(m, nd, p, q, n, ne, r, t)
<1>0. PICK x, H, z, A : x = nd[t] /\ H = InHands(nd) /\ z = Null /\ A = "app"
  OBVIOUS
<1>1. Parted(m, H, q, f) /\ Handled(m, nd, p) /\ p \in [Task -> Step]
  BY <1>0 DEF Nodes
<1>2. /\ q \in Seq(Node) /\ A \in Step /\ A \notin HoldStep /\ A # "mqLink"
      /\ p[t] \in CopyStep /\ p[t] \notin LinkStep /\ p[t] \in HoldStep
      /\ LinkStep \subseteq HoldStep /\ CopyStep \subseteq HoldStep
      /\ A \notin LinkStep /\ A \notin CopyStep /\ z \in Link
  BY <1>0, NodesFacts DEF CopyStep, LinkStep, HoldStep
<1>3. x # Null /\ x \in H /\ m.data[x] \in Msg
  BY <1>0, <1>1, <1>2 DEF Handled, InHands
<1>4. /\ Parted(n, H \ {x}, q, <<x>> \o f)
      /\ Keeps(m, n, H \ {x}) /\ n.data = m.data
  <2>1. Returns(m, x, n)
    BY <1>0
  <2> QED  BY <1>1, <1>3, <2>1, CopyParts
<1>5. Change(m, nd, p, t, z, A, n, ne, r)
  BY <1>0, <1>1, <1>2, <1>4 DEF Change
<1>6. Handled(n, ne, r) /\ InHands(ne) = H \ {x} /\ r \in [Task -> Step]
  <2>1. /\ Handled(n, ne, r) /\ r \in [Task -> Step]
        /\ InHands(ne) = IF z = Null THEN InHands(nd) \ {nd[t]}
                         ELSE (InHands(nd) \ {nd[t]}) \cup {z}
    BY <1>5, HandsChange
  <2> QED  BY <1>0, <2>1
<1>7. Nodes(n, ne, r, q, <<x>> \o f)
  BY <1>4, <1>6 DEF Nodes
<1>8. PICK v : v = m.data[nd[t]]
  OBVIOUS
<1>9. Turned(Hands(m.data, nd, p, CopyStep), Hands(n.data, ne, r, CopyStep), t, v, NoVal)
  BY <1>2, <1>5, <1>8, HandsGive
<1>10. Hands(n.data, ne, r, LinkStep) = Hands(m.data, nd, p, LinkStep)
  <2>1. p[t] \notin LinkStep /\ A \notin LinkStep /\ LinkStep \subseteq HoldStep
    BY <1>2
  <2> QED  BY <1>5, <2>1, HandsNot
<1>11. v \in Msg /\ Written(n.data, q) = Written(m.data, q)
  BY <1>0, <1>3, <1>4, <1>8
<1> QED  BY <1>7, <1>9, <1>10, <1>11 DEF Follows, Passes

(* A step that takes no node and gives none back.                          *)
LEMMA StayFollows ==
    ASSUME NEW m, NEW nd, NEW p, NEW q, NEW f, Nodes(m, nd, p, q, f), NEW t,
           NEW r, r \in [Task -> Step], SameHold(p, r)
    PROVE  Follows(m, nd, p, q, m, nd, r, t)
<1>1. Parted(m, InHands(nd), q, f) /\ Handled(m, nd, p)
  BY DEF Nodes
<1>3. PICK w : w = m
  OBVIOUS
<1>4. /\ Handled(m, nd, r)
      /\ Hands(m.data, nd, r, LinkStep) = Hands(m.data, nd, p, LinkStep)
      /\ Hands(m.data, nd, r, CopyStep) = Hands(m.data, nd, p, CopyStep)
  <2>1. Keeps(m, w, InHands(nd))
    BY <1>3 DEF Keeps
  <2>2. /\ Handled(w, nd, r)
        /\ Hands(w.data, nd, r, LinkStep) = Hands(m.data, nd, p, LinkStep)
      /\ Hands(w.data, nd, r, CopyStep) = Hands(m.data, nd, p, CopyStep)
    BY <1>1, <2>1, HandsStay
  <2> QED  BY <1>3, <2>2
<1>5. Nodes(m, nd, r, q, f)
  BY <1>1, <1>4 DEF Nodes
<1> QED  BY <1>4, <1>5 DEF Follows, Passes

(* os_mqueue_reset.                                                        *)
LEMMA ResetFollows ==
    ASSUME NEW q, NEW f, NEW nd, NEW p, Nodes(mq, nd, p, q, f), NEW t,
           NEW n, n = AllFreed
    PROVE  Follows(mq, nd, p, q, n, nd, p, t)
<1>1. /\ Parted(mq, InHands(nd), q, f) /\ Handled(mq, nd, p)
      /\ p \in [Task -> Step]
  BY DEF Nodes
<1>3. /\ Parted(n, InHands(nd), <<>>, Pushed(q, f))
      /\ Keeps(mq, n, InHands(nd)) /\ n.data = mq.data
  BY <1>1, FreedParts
<1>4. /\ Handled(n, nd, p)
      /\ Hands(n.data, nd, p, LinkStep) = Hands(mq.data, nd, p, LinkStep)
      /\ Hands(n.data, nd, p, CopyStep) = Hands(mq.data, nd, p, CopyStep)
  <2>1. SameHold(p, p)
    BY DEF SameHold
  <2> QED  BY <1>1, <1>3, <2>1, HandsStay
<1>5. Nodes(n, nd, p, <<>>, Pushed(q, f))
  BY <1>1, <1>3, <1>4 DEF Nodes
<1>6. Written(n.data, <<>>) = <<>>
  BY DEF Written
<1> QED  BY <1>4, <1>5, <1>6 DEF Follows, Passes

(* A step of t that calls for a node or is done with it.                   *)
LEMMA TurnedBy ==
    ASSUME NEW a, NEW S, a \in [Task -> S], NEW t \in Task, NEW y,
           NEW b, b = [a EXCEPT ![t] = y]
    PROVE  Turned(a, b, t, a[t], y)
BY DEF Turned

(* Every function of os_mqueue.c.                                          *)
LEMMA MqueueFollows ==
    ASSUME WaitInv, NEW t \in Task, Mqueue(t) \/ MqueueIsr,
           NEW q, NEW f, Nodes(mq, node, pc, q, f),
           NEW n, NEW ne, NEW r, n = mq' /\ ne = node' /\ r = pc'
    PROVE  Follows(mq, node, pc, q, n, ne, r, t)
<1>1. /\ pc \in [Task -> Step] /\ node \in [Task -> Link] /\ mq \in MqRecord
      /\ mq.free # Null => mq.free \in Node /\ mq.next[mq.free] \in Link
      /\ Null \in Link /\ {"app", "mqGetBack", "resume"} \subseteq Step
  <2>1. /\ mq \in MqRecord /\ mq.next \in [Node -> Link] /\ mq.free \in Link
    BY PartedFacts DEF Nodes
  <2> QED  BY <2>1, NodesFacts DEF Link
<1>2. {"app", "mqGetBack", "resume"} \cap HoldStep = {}
  BY DEF HoldStep
<1>3. ASSUME NEW s \in Step, pc' = [pc EXCEPT ![t] = s],
             pc[t] \notin HoldStep, s \notin HoldStep, mq' = mq, node' = node
      PROVE  Follows(mq, node, pc, q, n, ne, r, t)
  <2>1. r \in [Task -> Step] /\ SameHold(pc, r)
    BY <1>1, <1>3 DEF SameHold
  <2>2. Follows(mq, node, pc, q, mq, node, r, t)
    BY <2>1, StayFollows
  <2> QED  BY <1>3, <2>2
<1>4. ASSUME NEW v \in Msg, NEW s \in {"mqLink", "mqUrgent"}, MqueuePut(t, v, s)
      PROVE  Follows(mq, node, pc, q, n, ne, r, t)
  <2>1. PICK c : c = IF s = "mqLink" THEN Null ELSE mq.next[mq.free]
    OBVIOUS
  <2>2. /\ pc[t] = "app" /\ mq.free # Null /\ c \in Link
        /\ s = "mqLink" => c = Null
    BY <1>1, <1>4, <2>1 DEF MqueuePut, Calls, At
  <2>3. Fills(mq, v, c, n)
    BY <1>4, <2>1 DEF MqueuePut, Filled, Fills
  <2>4. Turned(node, ne, t, node[t], mq.free) /\ Turned(pc, r, t, pc[t], s)
    BY <1>1, <1>4 DEF MqueuePut, Goto, Turned
  <2>5. s \in LinkStep
    BY DEF LinkStep
  <2> QED  BY <2>2, <2>3, <2>4, <2>5, PutFollows
<1>5. ASSUME NEW s, NEW m, Linked(t, s, m)
      PROVE  /\ pc[t] = s /\ mq' = m /\ Turned(node, ne, t, node[t], Null)
             /\ Turned(pc, r, t, pc[t], "app")
  BY <1>1, <1>5 DEF Linked, At, Finish, Goto, Turned
<1>6. CASE MqueueLink(t)
  <2>1. Linked(t, "mqLink", LinkTail(mq, node[t]))
    BY <1>6 DEF MqueueLink
  <2>2. /\ pc[t] = "mqLink" /\ n = LinkTail(mq, node[t])
        /\ Turned(node, ne, t, node[t], Null) /\ Turned(pc, r, t, pc[t], "app")
    BY <1>5, <2>1
  <2>3. pc[t] \in LinkStep
    BY <2>2 DEF LinkStep
  <2> QED  BY <2>2, <2>3, LinkFollows
<1>7. CASE MqueueLinkUrgent(t)
  <2>1. Linked(t, "mqUrgent", LinkHead(mq, node[t]))
    BY <1>7 DEF MqueueLinkUrgent
  <2>2. /\ pc[t] = "mqUrgent" /\ n = LinkHead(mq, node[t])
        /\ Turned(node, ne, t, node[t], Null) /\ Turned(pc, r, t, pc[t], "app")
    BY <1>5, <2>1
  <2>3. pc[t] \in LinkStep
    BY <2>2 DEF LinkStep
  <2> QED  BY <2>2, <2>3, LinkFollows
<1>8. CASE MqueueIsr
  <2>1. PICK v \in Msg : MqueueIsrPut(v)
    BY <1>8 DEF MqueueIsr
  <2>2. PICK l : l = Filled(v, Null)
    OBVIOUS
  <2>3. /\ Fills(mq, v, Null, l) /\ mq.free # Null /\ n = LinkTail(l, mq.free)
        /\ pc' = pc /\ node' = node
    BY <2>1, <2>2 DEF MqueueIsrPut, Filled, Fills
  <2>4. Follows(mq, node, pc, q, n, node, pc, t)
    BY <2>3, IsrPutFollows
  <2> QED  BY <2>3, <2>4
<1>9. CASE MqueueGet(t) \/ MqueueGetBack(t)
  <2>1. UnlinkHead(t) /\ pc[t] \notin HoldStep
    BY <1>2, <1>9 DEF MqueueGet, MqueueGetBack, Calls, At
  <2>2. /\ mq.entry > 0 /\ Unlinks(mq, n) /\ Turned(node, ne, t, node[t], mq.head)
        /\ Turned(pc, r, t, pc[t], "mqCopy")
    BY <1>1, <2>1 DEF UnlinkHead, Unlinks, Goto, Turned
  <2> QED  BY <2>1, <2>2, TakeFollows
<1>10. CASE MqueueCopy(t)
  <2>1. pc[t] = "mqCopy" /\ Returns(mq, node[t], n)
    BY <1>10 DEF MqueueCopy, At, Returns
  <2>2. Turned(node, ne, t, node[t], Null) /\ Turned(pc, r, t, pc[t], "app")
    BY <1>1, <1>10 DEF MqueueCopy, Finish, Goto, Turned
  <2> QED  BY <2>1, <2>2, CopyFollows
<1>11. ASSUME NEW d \in Timeout, MqueueGetWait(t, d)
       PROVE  Follows(mq, node, pc, q, n, ne, r, t)
  <2>1. /\ pc[t] = "app" /\ pc' = [pc EXCEPT ![t] = "mqGetBack"]
        /\ mq' = mq /\ node' = node
    BY <1>11 DEF MqueueGetWait, Calls, At, BeginWait, Goto
  <2> QED  BY <1>1, <1>2, <1>3, <2>1
<1>12. CASE MqueueGetAgain(t)
  <2>1. /\ pc[t] = "mqGetBack" /\ pc' = [pc EXCEPT ![t] = "mqGetBack"]
        /\ mq' = mq /\ node' = node
    BY <1>12 DEF MqueueGetAgain, At, BeginWait, Goto
  <2> QED  BY <1>1, <1>2, <1>3, <2>1
<1>13. CASE MqueueGetTimesOut(t) \/ MqueueGetFails(t)
  <2>1. /\ pc[t] = "mqGetBack" /\ pc' = [pc EXCEPT ![t] = "app"]
        /\ mq' = mq /\ node' = node
    BY <1>13 DEF MqueueGetTimesOut, MqueueGetFails, At, Finish, Goto
  <2> QED  BY <1>1, <1>2, <1>3, <2>1
<1>14. CASE MqueueReset(t)
  <2>1. n = AllFreed /\ pc' = pc /\ node' = node
    BY <1>14 DEF MqueueReset
  <2>2. Follows(mq, node, pc, q, n, node, pc, t)
    BY <2>1, ResetFollows
  <2> QED  BY <2>1, <2>2
<1>15. CASE MqueueDelete(t)
  <2>1. /\ pc[t] = "app" /\ pc' = [pc EXCEPT ![t] = "resume"]
        /\ mq' = mq /\ node' = node
    BY <1>15 DEF MqueueDelete, mqvars, Calls, At, ResumeLists, Goto
  <2> QED  BY <1>1, <1>2, <1>3, <2>1
<1> QED
  BY <1>4, <1>6, <1>7, <1>8, <1>9, <1>10, <1>11, <1>12, <1>13, <1>14, <1>15
     DEF Mqueue, MqueueCall, MqueueContinue

(* Every step.                                                             *)
LEMMA NextFollows ==
    ASSUME WaitInv, Next \/ UNCHANGED vars,
           NEW q, NEW f, Nodes(mq, node, pc, q, f),
           NEW n, NEW ne, NEW r, n = mq' /\ ne = node' /\ r = pc'
    PROVE  \E t \in Task : Follows(mq, node, pc, q, n, ne, r, t)
<1>1. CASE \E t \in Task : Mqueue(t) \/ MqueueIsr
  BY <1>1, MqueueFollows
<1>2. ASSUME SameHold(pc, pc'), mq' = mq, node' = node, pc' \in [Task -> Step]
      PROVE  \E t \in Task : Follows(mq, node, pc, q, n, ne, r, t)
  <2>1. SameHold(pc, r) /\ r \in [Task -> Step] /\ n = mq /\ ne = node
    BY <1>2
  <2>2. Follows(mq, node, pc, q, mq, node, r, Idle)
    BY <2>1, StayFollows
  <2> QED  BY <2>1, <2>2, KernelAssumption
<1>3. CASE Aside(MqueueStep, {Queue}) /\ UNCHANGED <<mq, node>> /\ Next
  <2>1. SameHold(pc, pc')
    BY <1>3 DEF Aside, SameHold, HoldStep, MqueueStep
  <2>2. WaitInv'
    BY <1>3, WaitStepOK
  <2>3. pc' \in [Task -> Step]
    BY <2>2 DEF WaitInv, WaitTypeOK
  <2> QED  BY <1>2, <1>3, <2>1, <2>3
<1>4. CASE UNCHANGED vars
  <2>1. pc \in [Task -> Step]
    BY DEF Nodes
  <2> QED  BY <1>2, <1>4, <2>1 DEF vars, SameHold
<1> QED  BY <1>1, <1>3, <1>4, MqueueNext

(* The invariant says that the chains are such lists.                      *)
LEMMA NodeInvLists ==
    ASSUME WaitInv, NodeInv
    PROVE  Nodes(mq, node, pc, MsgChain(mq.head), MsgChain(mq.free))
BY WaitFacts DEF NodeInv, Nodes

(* Such lists are the chains after the step.                               *)
LEMMA NodeMadeNext ==
    ASSUME NEW q, NEW f, NEW n, NEW ne, NEW r, n = mq' /\ ne = node' /\ r = pc',
           Nodes(n, ne, r, q, f)
    PROVE  /\ NodeInv' /\ Queued' = Written(n.data, q)
           /\ Linking' = Hands(n.data, ne, r, LinkStep)
           /\ Copying' = Hands(n.data, ne, r, CopyStep)
<1>1. Parted(n, InHands(ne), q, f) /\ Handled(n, ne, r)
  BY DEF Nodes
<1>2. Chain(n.next, n.head, Null) = q /\ Chain(n.next, n.free, Null) = f
  BY <1>1, PartedChain
<1>3. MsgChain(mq.head)' = q /\ MsgChain(mq.free)' = f
  BY <1>2 DEF MsgChain
<1>4. NodeInv'
  BY <1>1, <1>3 DEF NodeInv
<1>5. Queued' = Written(n.data, q)
  BY <1>3 DEF Queued, Written
<1>6. /\ Linking' = Hands(n.data, ne, r, LinkStep)
      /\ Copying' = Hands(n.data, ne, r, CopyStep)
  BY DEF Linking, Copying, Hands, LinkStep, CopyStep
<1> QED  BY <1>4, <1>5, <1>6

(* What the channel sees.                                                  *)
LEMMA ChannelOf ==
    /\ Queued = Written(mq.data, MsgChain(mq.head))
    /\ Linking = Hands(mq.data, node, pc, LinkStep)
    /\ Copying = Hands(mq.data, node, pc, CopyStep)
BY DEF Queued, Linking, Copying, Written, Hands, LinkStep, CopyStep

(* A step of the lists is a step of the channel.                           *)
LEMMA PassesIs ==
    ASSUME NEW t \in Task,
           Passes(Queued, Linking, Copying, Queued', Linking', Copying', t)
    PROVE  [MessageChannel!Next]_(MessageChannel!cvars)
<1>1. NoVal \notin Msg
  BY WaitAssumption
<1>2. CASE Queued' = Queued /\ Linking' = Linking /\ Copying' = Copying
  BY <1>2 DEF MessageChannel!cvars
<1>3. CASE Queued' = <<>> /\ Linking' = Linking /\ Copying' = Copying
  BY <1>3 DEF MessageChannel!Next, MessageChannel!Reset
<1>4. ASSUME NEW v \in Msg, Len(Queued) < Cardinality(Node),
             Queued' = Append(Queued, v), Linking' = Linking, Copying' = Copying
      PROVE  MessageChannel!Put(v)
  BY <1>4 DEF MessageChannel!Put, MessageChannel!Room
<1>5. ASSUME NEW v \in Msg, Turned(Linking, Linking', t, NoVal, v),
             Queued' = Queued, Copying' = Copying
      PROVE  MessageChannel!Offer(t, v)
  BY <1>5 DEF MessageChannel!Offer, Turned
<1>6. ASSUME NEW v \in Msg, Len(Queued) < Cardinality(Node),
             Turned(Linking, Linking', t, v, NoVal), Copying' = Copying,
             Queued' \in {Append(Queued, v), <<v>> \o Queued}
      PROVE  MessageChannel!Accept(t) \/ MessageChannel!AcceptUrgent(t)
  <2>1. Linking[t] = v /\ v # NoVal /\ Linking' = [Linking EXCEPT ![t] = NoVal]
    BY <1>1, <1>6 DEF Turned
  <2> QED
    BY <1>6, <2>1 DEF MessageChannel!Accept, MessageChannel!AcceptUrgent,
                      MessageChannel!Room
<1>7. ASSUME Queued # <<>>, Turned(Copying, Copying', t, NoVal, Head(Queued)),
             Queued' = Tail(Queued), Linking' = Linking
      PROVE  MessageChannel!Receive(t)
  BY <1>7 DEF MessageChannel!Receive, Turned
<1>8. ASSUME NEW v \in Msg, Turned(Copying, Copying', t, v, NoVal),
             Queued' = Queued, Linking' = Linking
      PROVE  MessageChannel!Return(t)
  BY <1>1, <1>8 DEF MessageChannel!Return, Turned
<1> QED
  BY <1>2, <1>3, <1>4, <1>5, <1>6, <1>7, <1>8 DEF Passes, MessageChannel!Next

(* Each step keeps the lists, and is one of the channel or none.           *)
LEMMA NodeStep ==
    ASSUME WaitInv, NodeInv, [Next]_vars
    PROVE  NodeInv' /\ [MessageChannel!Next]_(MessageChannel!cvars)
<1>1. PICK q, f, n, ne, r : /\ q = MsgChain(mq.head) /\ f = MsgChain(mq.free)
                            /\ n = mq' /\ ne = node' /\ r = pc'
  OBVIOUS
<1>2. Nodes(mq, node, pc, q, f)
  BY <1>1, NodeInvLists
<1>3. PICK t \in Task : Follows(mq, node, pc, q, n, ne, r, t)
  BY <1>1, <1>2, NextFollows
<1>4. PICK s, e : /\ Nodes(n, ne, r, s, e)
                  /\ Passes(Written(mq.data, q), Hands(mq.data, node, pc, LinkStep),
                            Hands(mq.data, node, pc, CopyStep),
                            Written(n.data, s), Hands(n.data, ne, r, LinkStep),
                            Hands(n.data, ne, r, CopyStep), t)
  BY <1>3 DEF Follows
<1>5. /\ NodeInv' /\ Queued' = Written(n.data, s)
      /\ Linking' = Hands(n.data, ne, r, LinkStep)
      /\ Copying' = Hands(n.data, ne, r, CopyStep)
  BY <1>1, <1>4, NodeMadeNext
<1>6. /\ Queued = Written(mq.data, q)
      /\ Linking = Hands(mq.data, node, pc, LinkStep)
      /\ Copying = Hands(mq.data, node, pc, CopyStep)
  BY <1>1, ChannelOf
<1>7. Passes(Queued, Linking, Copying, Queued', Linking', Copying', t)
  BY <1>4, <1>5, <1>6
<1> QED  BY <1>5, <1>7, PassesIs

(* os_mqueue_init links every node in the free list.                       *)
LEMMA NodesFirst ==
    ASSUME Init
    PROVE  NodeInv /\ MessageChannel!Init
<1>1. PICK s : s = SetToSeq(Node)
  OBVIOUS
<1>2. IsFiniteSet(Node) /\ Node # {} /\ Null \notin Node
  BY MqueueAssumption
<1>3. /\ IsList(s, Node) /\ ToSet(s) = Node
      /\ Threaded(s, Null) \in [Node -> Node \cup {Null}]
      /\ Leads(Threaded(s, Null), s[1], Null, s) /\ s[1] \in Node
  BY <1>1, <1>2, ThreadedLeads
<1>4. /\ mq = [next |-> Threaded(s, Null), head |-> Null, tail |-> Null,
               free |-> s[1], entry |-> 0, data |-> [x \in Node |-> NoVal]]
      /\ node = [t \in Task |-> Null] /\ pc = [t \in Task |-> "app"]
  BY <1>1 DEF Init, MqueueInit, WaitInit
<1>5. /\ mq.next = Threaded(s, Null) /\ mq.head = Null /\ mq.tail = Null
      /\ mq.free = s[1] /\ mq.entry = 0 /\ mq \in MqRecord
  <2>1. /\ Null \in Link /\ s[1] \in Link /\ 0 \in Nat
        /\ [x \in Node |-> NoVal] \in [Node -> Msg \cup {NoVal}]
        /\ Threaded(s, Null) \in [Node -> Link]
    BY <1>3 DEF Link
  <2> QED  BY <1>4, <2>1 DEF MqRecord
<1>6. InHands(node) = {}
  BY <1>4 DEF InHands
<1>7. Parted(mq, {}, <<>>, s)
  <2>1. ToSet(<<>>) = {} /\ Len(<<>>) = 0
    BY EmptyList
  <2>2. Leads(mq.next, mq.head, Null, <<>>) /\ Leads(mq.next, mq.free, Null, s)
    BY <1>3, <1>5, LeadsNowhere
  <2> QED  BY <1>3, <1>5, <2>1, <2>2 DEF Parted, MqRecord
<1>8. MsgChain(mq.head) = <<>> /\ MsgChain(mq.free) = s
  BY <1>7, PartedChain DEF MsgChain
<1>9. Handled(mq, node, pc)
  BY <1>4 DEF Handled, HoldStep, Link
<1>10. NodeInv
  BY <1>6, <1>7, <1>8, <1>9 DEF NodeInv
<1>11. MessageChannel!Init
  BY <1>4, <1>8 DEF MessageChannel!Init, Queued, Linking, Copying
<1> QED  BY <1>10, <1>11

(* The nodes of os_mqueue.c, linked in one queue and one free list,        *)
(* implement a bounded channel: a message enters it once, at its end or,   *)
(* when urgent, at its head, while the call that sends it is in progress,  *)
(* and is received once, however the calls of the tasks, of a handler and  *)
(* os_mqueue_reset come between their critical sections.                   *)
THEOREM MessagesImplemented ==
    ASSUME IsFiniteSet(Task)
    PROVE  Spec => ImplementsMessages
<1>1. Init => NodeInv /\ MessageChannel!Init
  BY NodesFirst
<1>2. WaitInv /\ NodeInv /\ [Next]_vars
         => NodeInv' /\ [MessageChannel!Next]_(MessageChannel!cvars)
  BY NodeStep
<1> QED
  BY <1>1, <1>2, WaitInductive, PTL
     DEF Spec, ImplementsMessages, MessageChannel!Spec

(* Every node is in the queue, in the free list or in the hands of one     *)
(* task, once.                                                             *)
LEMMA NodesCounted ==
    ASSUME IsFiniteSet(Task), NodeInv
    PROVE  NodesExact
<1>1. PICK q, f, H : /\ q = MsgChain(mq.head) /\ f = MsgChain(mq.free)
                     /\ H = InHands(node)
  OBVIOUS
<1>2. Parted(mq, H, q, f)
  BY <1>1 DEF NodeInv
<1>3. /\ IsList(q, Node) /\ IsList(f, Node) /\ IsFiniteSet(Node) /\ H \subseteq Node
      /\ Len(q) = mq.entry
  BY <1>2, PartedFacts
<1>4. /\ Len(q) = Cardinality(ToSet(q)) /\ IsFiniteSet(ToSet(q))
      /\ Len(f) = Cardinality(ToSet(f)) /\ IsFiniteSet(ToSet(f))
  BY <1>3, ListSize
<1>5. IsFiniteSet(H)
  BY <1>3, FS_Subset
<1>6. PICK Q, F, U : Q = ToSet(q) /\ F = ToSet(f) /\ U = Q \cup F
  OBVIOUS
<1>7. Q \cap F = {} /\ U \cap H = {} /\ U \cup H = Node
  BY <1>2, <1>6 DEF Parted
<1>8. IsFiniteSet(U) /\ Cardinality(U) = Cardinality(Q) + Cardinality(F)
  <2>1. /\ IsFiniteSet(Q \cup F)
        /\ Cardinality(Q \cup F) = Cardinality(Q) + Cardinality(F) - Cardinality(Q \cap F)
    BY <1>4, <1>6, FS_Union
  <2>2. Cardinality(Q \cap F) = 0
    BY <1>7, FS_EmptySet
  <2>3. Cardinality(Q) \in Nat /\ Cardinality(F) \in Nat
    BY <1>4, <1>6, FS_CardinalityType
  <2> QED  BY <1>6, <2>1, <2>2, <2>3
<1>9. Cardinality(Node) = Cardinality(U) + Cardinality(H)
  <2>1. Cardinality(U \cup H) = Cardinality(U) + Cardinality(H) - Cardinality(U \cap H)
    BY <1>5, <1>8, FS_Union
  <2>2. Cardinality(U \cap H) = 0
    BY <1>7, FS_EmptySet
  <2>3. Cardinality(U) \in Nat /\ Cardinality(H) \in Nat
    BY <1>5, <1>8, FS_CardinalityType
  <2>4. Cardinality(U \cup H) = Cardinality(U) + Cardinality(H)
    BY <2>1, <2>2, <2>3
  <2>5. U \cup H = Node
    BY <1>7
  <2> QED  BY <2>4, <2>5
<1>10. Len(q) + Len(f) + Cardinality(H) = Cardinality(Node)
  BY <1>4, <1>6, <1>8, <1>9
<1>11. /\ mq.tail = IF q = <<>> THEN Null ELSE q[Len(q)]
       /\ ToSet(q) \cup ToSet(f) \cup H = Node
  BY <1>2 DEF Parted
<1>12. \A t, u \in Task : t # u /\ node[t] # Null => node[t] # node[u]
  BY DEF NodeInv, Handled
<1> QED  BY <1>1, <1>3, <1>10, <1>11, <1>12 DEF NodesExact, InHands

(* No node is lost or linked twice, whatever comes between the two         *)
(* critical sections of a call.                                            *)
THEOREM NodesAccountedFor ==
    ASSUME IsFiniteSet(Task)
    PROVE  Spec => []NodesExact
<1>1. Init => NodeInv
  BY NodesFirst
<1>2. WaitInv /\ NodeInv /\ [Next]_vars => NodeInv'
  BY NodeStep
<1>3. NodeInv => NodesExact
  BY NodesCounted
<1> QED  BY <1>1, <1>2, <1>3, WaitInductive, PTL DEF Spec
-----------------------------------------------------------------------------
(* The priorities in an application that is OneForever *)

(* The steps in which a task empties the lists of an object it deletes.    *)
ResumeStep == {"resume", "resumeNext"}

(* What a step of a mailbox or of the queue does to the kernel: nothing a  *)
(* scheduler looks at, a task is resumed and os_sched follows, or the task *)
(* that runs begins to wait.                                               *)
KernelMoves(t, Os) ==
    \/ /\ k'.pend = k.pend /\ k'.stat = k.stat /\ k'.prio = k.prio /\ k'.cur = k.cur
       /\ UNCHANGED resched
    \/ /\ k.cur = t /\ k.isr = 0 /\ ThenSched(t)
       /\ \E o \in Os : k' = ResumeHead(k, o)
    \/ /\ k.cur = t /\ k.isr = 0 /\ t \notin resched /\ t # Idle /\ ThenSched(t)
       /\ \E o \in Os, d \in Nat : k' = WaitIn(k, o, t, d)
    \/ /\ k.isr = 0 /\ UNCHANGED resched
       /\ \E o \in Os : k' = IsrResumeHead(k, o)

LEMMA MovesKeep ==
    ASSUME WaitInv, UrgentInv, NEW t \in Task, NEW Os, Os \subseteq Obj \ Mutex,
           KernelMoves(t, Os)
    PROVE  UrgentInv' /\ Alike(k, k', Mutex)
<1>1. Works(k) /\ k.cur \in Task /\ Mutex \subseteq Obj
  BY WaitFacts
<1>2. CASE /\ k'.pend = k.pend /\ k'.stat = k.stat /\ k'.prio = k.prio /\ k'.cur = k.cur
           /\ UNCHANGED resched
  BY <1>2 DEF UrgentInv, Alike
<1>3. CASE /\ k.cur = t /\ k.isr = 0 /\ ThenSched(t)
           /\ \E o \in Os : k' = ResumeHead(k, o)
  <2>1. PICK o \in Os : k' = ResumeHead(k, o)
    BY <1>3
  <2>2. o \in Obj
    BY <2>1
  <2>3. Alike(k, k', Obj) /\ k'.cur = k.cur
    BY <1>1, <1>3, <2>1, <2>2, ResumeHeadEnds
  <2> QED  BY <1>1, <1>3, <2>3 DEF UrgentInv, Alike, ThenSched
<1>4. CASE /\ k.cur = t /\ k.isr = 0 /\ t \notin resched /\ t # Idle /\ ThenSched(t)
           /\ \E o \in Os, d \in Nat : k' = WaitIn(k, o, t, d)
  <2>1. PICK o \in Os, d \in Nat : k' = WaitIn(k, o, t, d)
    BY <1>4
  <2>2. o \in Obj \ Mutex /\ k.stat[t] = "READY"
    BY <1>4, <2>1, ActorFree
  <2>3. Begins(k, k', {o}, t) /\ LinesUp(k, k', o, t, d)
    BY <1>1, <1>4, <2>1, <2>2, WaitInBegins
  <2>4. k'.cur = k.cur /\ \A m \in Mutex : k'.pend[m] = k.pend[m]
    BY <1>1, <2>2, <2>3 DEF Begins, LinesUp
  <2> QED  BY <1>1, <1>4, <2>4 DEF UrgentInv, Alike, ThenSched
<1>5. CASE /\ k.isr = 0 /\ UNCHANGED resched
           /\ \E o \in Os : k' = IsrResumeHead(k, o)
  <2>1. PICK o \in Os : k' = IsrResumeHead(k, o)
    BY <1>5
  <2>2. o \in Obj
    BY <2>1
  <2>3. Alike(k, k', Obj) /\ (k' = k \/ Top(k'))
    BY <1>1, <1>5, <2>1, <2>2, IsrResumeHeadEnds
  <2> QED  BY <1>1, <1>5, <2>3 DEF UrgentInv, Alike, Top
<1> QED  BY <1>2, <1>3, <1>4, <1>5 DEF KernelMoves

(* The conditions of KernelMoves, as the functions write them.             *)
LEMMA MovesForms ==
    ASSUME WaitInv, NEW t \in Task, NEW Os, NEW p \in Step, p \notin ResumeStep,
           Goto(t, p) \/ (Finish(t) /\ p = "app"),
           \/ k' = k /\ UNCHANGED resched
           \/ (\E e : k' = SetError(k, t, e)) /\ UNCHANGED resched
           \/ /\ At(t, pc[t])
              /\ \E o \in Os : /\ k' = ResumeHead(k, o)
                               /\ IF k.pend[o] # <<>> THEN ThenSched(t) ELSE UNCHANGED resched
           \/ /\ At(t, pc[t]) /\ t # Idle
              /\ \E o \in Os, d \in Nat : BeginWait(t, o, d, p)
    PROVE  KernelMoves(t, Os) /\ pc'[t] \notin ResumeStep
<1>1. pc'[t] \notin ResumeStep
  BY WaitFacts DEF Goto, Finish
<1>2. CASE (k' = k \/ \E e : k' = SetError(k, t, e)) /\ UNCHANGED resched
  BY <1>1, <1>2, WaitFacts DEF KernelMoves, SetError, Kernel
<1>3. CASE /\ At(t, pc[t])
           /\ \E o \in Os : /\ k' = ResumeHead(k, o)
                            /\ IF k.pend[o] # <<>> THEN ThenSched(t) ELSE UNCHANGED resched
  BY <1>1, <1>3 DEF KernelMoves, At, ResumeHead
<1>4. CASE /\ At(t, pc[t]) /\ t # Idle
           /\ \E o \in Os, d \in Nat : BeginWait(t, o, d, p)
  BY <1>1, <1>4 DEF KernelMoves, At, BeginWait
<1> QED  BY <1>1, <1>2, <1>3, <1>4

(* The functions of the mailbox,                                           *)
LEMMA MboxMoves ==
    ASSUME WaitInv, NEW t \in Task, Mbox(t), "empty" \notin ops
    PROVE  KernelMoves(t, {Recv, Send}) /\ pc'[t] \notin ResumeStep
<1> DEFINE Moves == KernelMoves(t, {Recv, Send}) /\ pc'[t] \notin ResumeStep
<1>1. \A s : At(t, s) => At(t, pc[t]) /\ (pc[t] # "app" => t # Idle) /\ pc[t] = s
  BY WaitFacts DEF At
<1>2. /\ Timeout \subseteq Nat /\ Remaining(t) \in Nat
      /\ {"app", "got", "putBack", "getBack"} \subseteq Step \ ResumeStep
  BY WaitAssumption, RemainingOK DEF Step, WaitStep, MboxStep, ResumeStep
<1>3. ASSUME NEW v, PutStores(t, v), Calls(t) \/ At(t, "putBack")
      PROVE  Moves
  BY <1>1, <1>2, <1>3, MovesForms DEF PutStores, Calls
<1>4. ASSUME GetTakes(t), Calls(t) \/ At(t, "getBack")
      PROVE  Moves
  BY <1>1, <1>2, <1>4, MovesForms DEF GetTakes, Calls
<1>5. ASSUME NEW d \in Nat,
             \/ BeginWait(t, Recv, d, "getBack") /\ (Calls(t) \/ At(t, "getBack"))
             \/ BeginWait(t, Send, d, "putBack") /\ (Calls(t) \/ At(t, "putBack"))
      PROVE  Moves
  <2>1. At(t, pc[t]) /\ t # Idle
    BY <1>1, <1>5 DEF Calls
  <2>2. PICK p \in {"getBack", "putBack"}, o \in {Recv, Send} : BeginWait(t, o, d, p)
    BY <1>5
  <2>3. Goto(t, p) /\ p \in Step \ ResumeStep
    BY <1>2, <2>2 DEF BeginWait
  <2> QED  BY <2>1, <2>2, <2>3, MovesForms
<1>6. ASSUME PutFails(t) \/ GetTimesOut(t) \/ GetFails(t) \/ Got(t)
      PROVE  Moves
  <2>1. Finish(t) /\ UNCHANGED resched /\ (k' = k \/ \E e : k' = SetError(k, t, e))
    BY <1>6 DEF PutFails, GetTimesOut, GetFails, Got, SetError
  <2> QED  BY <1>2, <2>1, MovesForms
<1> HIDE DEF Moves
<1>7. ASSUME MboxCall(t, Timeout)
      PROVE  Moves
  BY <1>2, <1>3, <1>4, <1>5, <1>7
     DEF MboxCall, MboxGet, MboxPut, MboxPutWait, MboxGetWait
<1>8. ASSUME PutBack(t) \/ PutAgain(t) \/ GetBack(t) \/ GetAgain(t)
      PROVE  Moves
  BY <1>2, <1>3, <1>4, <1>5, <1>8 DEF PutBack, PutAgain, GetBack, GetAgain
<1>9. Moves
  BY <1>6, <1>7, <1>8 DEF Mbox, MboxContinue
<1> QED  BY <1>9 DEF Moves

(* those of the message queue,                                             *)
LEMMA MqueueMoves ==
    ASSUME WaitInv, NEW t \in Task, Mqueue(t), "empty" \notin ops
    PROVE  KernelMoves(t, {Queue}) /\ pc'[t] \notin ResumeStep
<1> DEFINE Moves == KernelMoves(t, {Queue}) /\ pc'[t] \notin ResumeStep
<1>1. \A s : At(t, s) => At(t, pc[t]) /\ (pc[t] # "app" => t # Idle) /\ pc[t] = s
  BY WaitFacts DEF At
<1>2. /\ Timeout \subseteq Nat /\ Remaining(t) \in Nat
      /\ {"app", "mqLink", "mqUrgent", "mqCopy", "mqGetBack"} \subseteq Step \ ResumeStep
  BY WaitAssumption, RemainingOK DEF Step, WaitStep, MqueueStep, ResumeStep
<1>3. ASSUME MqueueLink(t) \/ MqueueLinkUrgent(t)
      PROVE  Moves
  <2>1. /\ At(t, pc[t]) /\ Finish(t) /\ k' = ResumeHead(k, Queue)
        /\ IF k.pend[Queue] # <<>> THEN ThenSched(t) ELSE UNCHANGED resched
    BY <1>1, <1>3 DEF MqueueLink, MqueueLinkUrgent, Linked
  <2> QED  BY <1>2, <2>1, MovesForms
<1>4. ASSUME NEW d \in Nat, BeginWait(t, Queue, d, "mqGetBack"),
             Calls(t) \/ At(t, "mqGetBack")
      PROVE  Moves
  <2>1. At(t, pc[t]) /\ t # Idle /\ Goto(t, "mqGetBack")
    BY <1>1, <1>4 DEF Calls, BeginWait
  <2> QED  BY <1>2, <1>4, <2>1, MovesForms
<1>5. ASSUME UnlinkHead(t) \/ \E v \in Msg, s \in {"mqLink", "mqUrgent"} : MqueuePut(t, v, s)
      PROVE  Moves
  <2>1. /\ k' = k /\ UNCHANGED resched
        /\ \E p \in {"mqLink", "mqUrgent", "mqCopy"} : Goto(t, p)
    BY <1>5 DEF UnlinkHead, MqueuePut
  <2> QED  BY <1>2, <2>1, MovesForms
<1>6. ASSUME MqueueCopy(t) \/ MqueueGetTimesOut(t) \/ MqueueGetFails(t)
      PROVE  Moves
  <2>1. Finish(t) /\ UNCHANGED resched /\ (k' = k \/ \E e : k' = SetError(k, t, e))
    BY <1>6 DEF MqueueCopy, MqueueGetTimesOut, MqueueGetFails, SetError
  <2> QED  BY <1>2, <2>1, MovesForms
<1> HIDE DEF Moves
<1>7. ASSUME MqueueCall(t, Timeout)
      PROVE  Moves
  BY <1>2, <1>4, <1>5, <1>7 DEF MqueueCall, MqueueGet, MqueueGetWait
<1>8. ASSUME MqueueGetBack(t) \/ MqueueGetAgain(t)
      PROVE  Moves
  BY <1>2, <1>4, <1>5, <1>8 DEF MqueueGetBack, MqueueGetAgain
<1>9. Moves
  BY <1>3, <1>6, <1>7, <1>8 DEF Mqueue, MqueueContinue
<1> QED  BY <1>9 DEF Moves

(* Nobody deletes an object.                                               *)
NoResume == \A t \in Task : pc[t] \notin ResumeStep

(* and the interrupt handlers that use them.                               *)
LEMMA IsrMoves ==
    ASSUME WaitInv, MboxIsr \/ MqueueIsr
    PROVE  KernelMoves(Idle, {Recv, Queue}) /\ pc' = pc
<1>1. /\ k.isr = 0 /\ UNCHANGED resched /\ pc' = pc
      /\ k' = IsrResumeHead(k, Recv) \/ k' = IsrResumeHead(k, Queue)
  BY DEF MboxIsr, MboxIsrPut, MqueueIsr, MqueueIsrPut
<1> QED  BY <1>1 DEF KernelMoves

(* The scheduler, the clock and os_task_sleep.                             *)
LEMMA KernelKeeps ==
    ASSUME WaitInv, UrgentInv, KernelWork, NoResume
    PROVE  UrgentInv' /\ Alike(k, k', Mutex) /\ NoResume'
<1> DEFINE Kept == UrgentInv' /\ Alike(k, k', Mutex) /\ NoResume'
<1>1. /\ Works(k) /\ k.cur \in Task /\ Mutex \subseteq Obj /\ pc \in [Task -> Step]
      /\ UserTimer = {}
  BY WaitFacts, WaitAssumption
<1>2. ASSUME NEW t \in Task, Schedule(t)
      PROVE  Kept
  <2>1. k' = Sched(k) /\ pc' = pc
    BY <1>2 DEF Schedule
  <2>2. k'.pend = k.pend /\ Top(k')
    BY <1>1, <2>1, SchedEnds
  <2> QED  BY <2>1, <2>2 DEF UrgentInv, Top, Alike, NoResume
<1>3. ASSUME NEW t \in Task, ResumeCheck(t) \/ ResumeNext(t)
      PROVE  Kept
  BY <1>3 DEF ResumeCheck, ResumeNext, At, NoResume, ResumeStep
<1>4. ASSUME NEW t \in Task, SleepReturn(t)
      PROVE  Kept
  <2>1. /\ k'.pend = k.pend /\ k'.prio = k.prio /\ k'.stat = k.stat /\ k'.cur = k.cur
        /\ resched' = resched /\ pc' = [pc EXCEPT ![t] = "app"]
    BY <1>1, <1>4 DEF SleepReturn, Goto, Works, KernelOK, Kernel
  <2> QED  BY <1>1, <2>1 DEF UrgentInv, Alike, NoResume, ResumeStep
<1>5. ASSUME NEW t \in Task, Sleep(t, 1)
      PROVE  Kept
  <2> DEFINE d == 1
  <2>1. /\ k.cur = t /\ k.isr = 0 /\ t \notin resched /\ t # Idle
        /\ k' = TimerStart(TaskSuspend(k, t), t, d) /\ ThenSched(t)
        /\ pc' = [pc EXCEPT ![t] = "slept"] /\ d \in Nat
    BY <1>5 DEF Sleep, Calls, At, Goto
  <2>2. k.stat[t] = "READY"
    BY <2>1, ActorFree
  <2> HIDE DEF d
  <2>3. Begins(k, k', {}, t) /\ k'.pend = k.pend
    BY <1>1, <2>1, <2>2, SleepBegins
  <2> QED  BY <1>1, <2>1, <2>3
           DEF Begins, UrgentInv, Alike, NoResume, ResumeStep, ThenSched
<1>6. ASSUME Tick
      PROVE  Kept
  <2>1. k' = TickIncrease(k) /\ k.isr = 0 /\ pc' = pc /\ resched' = resched
    BY <1>6 DEF Tick
  <2>2. /\ k'.prio = k.prio /\ k'.pend = k.pend
        /\ k'.stat = k.stat /\ (k'.cur = k.cur \/ Top(k'))
    BY <1>1, <2>1, TickEnds
  <2> QED  BY <2>1, <2>2 DEF UrgentInv, Top, Alike, NoResume
<1>7. ASSUME TaskTimerFire
      PROVE  Kept
  <2>1. /\ k' = TimerAfter(TaskTimeout(TimerTake(k), k.n), k.n) /\ Due(k)
        /\ pc' = pc /\ resched' = resched
    BY <1>7 DEF TaskTimerFire
  <2>2. Top(k') /\ Alike(k, k', Obj)
    BY <1>1, <2>1, FireEnds
  <2> QED  BY <1>1, <2>1, <2>2 DEF UrgentInv, Top, Alike, NoResume
<1>8. ASSUME TickEnd
      PROVE  Kept
  <2>1. k' = IsrLeave(k) /\ pc' = pc /\ resched' = resched
    BY <1>8 DEF TickEnd
  <2>2. /\ k'.prio = k.prio /\ k'.pend = k.pend
        /\ k'.cur = k.cur /\ k'.stat = k.stat
    BY <1>1, <2>1, TickEndEnds
  <2> QED  BY <2>1, <2>2 DEF UrgentInv, Alike, NoResume
<1> HIDE DEF Kept
<1>9. Kept
  BY <1>2, <1>3, <1>4, <1>5, <1>6, <1>7, <1>8 DEF KernelWork, Clock
<1> QED  BY <1>9 DEF Kept

(* A step that changes no mutex, in such an application.                   *)
Spares == /\ Aside(MutexStep, Mutex) /\ UNCHANGED <<mx, stack>> /\ k'.prio = k.prio
          /\ UrgentInv' /\ Alike(k, k', Mutex) /\ NoResume'

LEMMA OthersLeave ==
    ASSUME WaitInv, UrgentInv, NoResume, OneForever, Next
    PROVE  Spares \/ \E t \in Task : Mutexes(t)
<1>1. {"empty", "event", "mpool"} \cap ops = {}
  BY DEF OneForever
<1>2. {Recv, Send, Queue} \subseteq Obj \ Mutex
  BY WaitFacts, ObjectsDiffer
<1>3. ASSUME NEW t \in Task, Mbox(t) \/ Mqueue(t)
      PROVE  UrgentInv' /\ Alike(k, k', Mutex) /\ NoResume'
  <2>1. PICK Os : /\ Os \in {{Recv, Send}, {Queue}}
                  /\ KernelMoves(t, Os) /\ pc'[t] \notin ResumeStep
    BY <1>1, <1>3, MboxMoves, MqueueMoves
  <2>2. UrgentInv' /\ Alike(k, k', Mutex)
    <3>1. Os \subseteq Obj \ Mutex
      BY <1>2, <2>1
    <3> QED  BY <2>1, <3>1, MovesKeep
  <2>3. \A u \in Task \ {t} : pc'[u] = pc[u]
    BY <1>3, MboxDoes, MqueueDoes DEF Does, Shift
  <2> QED  BY <2>1, <2>2, <2>3 DEF NoResume
<1>4. ASSUME MboxIsr \/ MqueueIsr
      PROVE  UrgentInv' /\ Alike(k, k', Mutex) /\ NoResume'
  <2>1. KernelMoves(Idle, {Recv, Queue}) /\ pc' = pc /\ Idle \in Task
    BY <1>4, IsrMoves, WaitFacts
  <2>2. {Recv, Queue} \subseteq Obj \ Mutex
    BY <1>2
  <2>3. UrgentInv' /\ Alike(k, k', Mutex)
    BY <2>1, <2>2, MovesKeep
  <2> QED  BY <2>1, <2>3 DEF NoResume
<1>5. ASSUME KernelWork
      PROVE  UrgentInv' /\ Alike(k, k', Mutex) /\ NoResume'
  BY <1>5, KernelKeeps
<1>6. CASE \E t \in Task : Mutexes(t)
  BY <1>6
<1>7. CASE ~\E t \in Task : Mutexes(t)
  <2>1. Aside(MutexStep, Mutex) /\ UNCHANGED <<mx, stack>> /\ k'.prio = k.prio
    BY <1>7, MutexNext
  <2>2. UrgentInv' /\ Alike(k, k', Mutex) /\ NoResume'
    BY <1>1, <1>3, <1>4, <1>5, <1>7 DEF Next, Events, EventIsr, Mpool, MpoolIsr
  <2> QED  BY <2>1, <2>2 DEF Spares
<1> QED  BY <1>6, <1>7

(* A step of the other functions.                                          *)
LEMMA RaisedAside ==
    ASSUME WaitInv, RaisedInv, NoResume, Spares
    PROVE  RaisedInv'
<1>1. /\ mx' = mx /\ k'.prio = k.prio /\ Aside(MutexStep, Mutex) /\ Alike(k, k', Mutex)
      /\ (\A m \in Mutex : MutexRaised(m)) /\ OneEach /\ PriorityRestored
      /\ Mutex \subseteq Obj
  BY WaitFacts DEF Spares, RaisedInv
<1>2. ASSUME NEW m \in Mutex
      PROVE  /\ Waiters(m)' = Waiters(m) /\ k'.pend[m] = k.pend[m]
             /\ Waiters(m) \cap ToSet(k'.timers) = {}
  <2>1. /\ Waiters(m)' \subseteq Waiters(m)
        /\ \A u \in Waiters(m) \ Waiters(m)' :
              \/ u \in ToSet(k.timers)
              \/ \E v \in Task : pc[v] = "resumeNext" /\ m = Head(todo[v])
        /\ Waiters(m) \cap ToSet(k.timers) = {}
    BY <1>1 DEF Aside, MutexRaised
  <2>2. Waiters(m)' = Waiters(m)
    BY <2>1 DEF NoResume, ResumeStep
  <2>3. k'.pend[m] = k.pend[m]
    BY <1>1, <2>2 DEF Alike, Waiters
  <2>4. ASSUME NEW u \in Waiters(m)
        PROVE  u \notin ToSet(k'.timers)
    <3>1. u \in Task /\ pc[u] = "mxBack"
      BY <1>1, WaitFacts, ObjectsDiffer DEF WaitInv, PlacesOK, Place
    <3> QED  BY <1>1, <2>1, <3>1 DEF Aside, MutexStep
  <2> QED  BY <2>2, <2>3, <2>4
<1>3. \A m \in Mutex : MutexRaised(m)'
  BY <1>1, <1>2 DEF MutexRaised, OwnerRaised
<1>4. OneEach' /\ PriorityRestored'
  BY <1>1, <1>2 DEF OneEach, PriorityRestored
<1> QED  BY <1>3, <1>4 DEF RaisedInv

(* A call that moves no owner and no task.                                 *)
LEMMA RaisedStill ==
    ASSUME RaisedInv, UrgentInv,
           k'.pend = k.pend, k'.prio = k.prio, k'.stat = k.stat, k'.cur = k.cur,
           k'.timers = k.timers, resched' = resched,
           \A m \in Mutex : mx'[m].owner = mx[m].owner /\ mx'[m].orig = mx[m].orig
    PROVE  RaisedInv' /\ UrgentInv'
<1>1. \A m \in Mutex : Waiters(m)' = Waiters(m)
  BY DEF Waiters
<1>2. \A m \in Mutex : MutexRaised(m)'
  BY <1>1 DEF RaisedInv, MutexRaised, OwnerRaised
<1>3. OneEach' /\ PriorityRestored' /\ UrgentInv'
  BY <1>1 DEF RaisedInv, OneEach, PriorityRestored, UrgentInv
<1> QED  BY <1>2, <1>3 DEF RaisedInv

(* A task that may take m and has not got it owns nothing.                 *)
LEMMA OwnsNone ==
    ASSUME WaitInv, MutexInv, NEW t \in Task, pc[t] = "app", NEW m \in Mutex,
           ToSet(stack[t]) \subseteq {m}, mx[m].owner # t
    PROVE  \A n \in Mutex : mx[n].owner # t
<1>1. \A n \in Mutex : ~Handed(t, n)
  BY DEF Handed
<1>2. /\ stack[t] \in Seq(Mutex)
      /\ stack[t] # <<>> => /\ stack[t][1] \in Mutex /\ Len(stack[t]) > 0
                            /\ mx[stack[t][1]].owner = t
      /\ (stack[t] = <<>> /\ \A n \in Mutex : ~Handed(t, n))
            => \A n \in Mutex : mx[n].owner # t
  BY StackOwned
<1>3. ASSUME stack[t] # <<>>
      PROVE  FALSE
  <2>1. 1 \in DOMAIN stack[t]
    BY <1>2, <1>3
  <2>2. stack[t][1] \in ToSet(stack[t])
    BY <2>1 DEF ToSet
  <2> QED  BY <1>2, <1>3, <2>2
<1> QED  BY <1>1, <1>2, <1>3

(* The task that takes a mutex has its own priority.                       *)
LEMMA RaisedTake ==
    ASSUME WaitInv, MutexInv, RaisedInv, UrgentInv, NEW t \in Task, NEW m \in Mutex,
           ToSet(stack[t]) \subseteq {m}, MutexTakeFree(t, m)
    PROVE  RaisedInv' /\ UrgentInv'
<1>1. /\ k.cur = t /\ t \notin resched /\ pc[t] = "app" /\ mx[m].owner = NoTask
      /\ t # NoTask /\ Waiters(m) = {} /\ resched' = resched
  BY FreeMutex DEF MutexTakeFree, Calls, At
<1>2. /\ k'.pend = k.pend /\ k'.prio = k.prio /\ k'.stat = k.stat /\ k'.cur = k.cur
      /\ k'.timers = k.timers
  BY WaitFacts DEF MutexTakeFree, NoError, Kernel
<1>3. /\ \A n \in Mutex \ {m} : mx'[n] = mx[n]
      /\ mx'[m].owner = t /\ mx'[m].orig = k.prio[t]
  <2>1. mx \in [Mutex -> Fields]
    BY DEF WaitInv, OwnersOK, Fields
  <2> QED  BY <2>1 DEF MutexTakeFree, Fields
<1>4. /\ \A n \in Mutex : mx[n].owner # t
      /\ \A n \in Mutex : t \notin Waiters(n)
  <2>1. \A n \in Mutex : mx[n].owner # t
    BY <1>1, OwnsNone
  <2> QED  BY <1>1, <2>1, ActorFree, MutexAssumption
<1>5. /\ (\A n \in Mutex : MutexRaised(n)) /\ OneEach /\ PriorityRestored
      /\ \A n \in Mutex : Waiters(n)' = Waiters(n)
  BY <1>2 DEF RaisedInv, Waiters
<1>6. k.prio[t] = BasePrio[t]
  BY <1>4, <1>5 DEF PriorityRestored
<1>7. ASSUME NEW n \in Mutex
      PROVE  MutexRaised(n)'
  <2>1. CASE n = m
    <3>1. OwnerRaised(m, t)'
      BY <1>1, <1>2, <1>3, <1>5, <1>6 DEF OwnerRaised
    <3> QED  BY <1>2, <1>3, <1>5, <2>1, <3>1 DEF MutexRaised
  <2>2. CASE n # m
    BY <1>2, <1>3, <1>5, <2>2 DEF MutexRaised, OwnerRaised
  <2> QED  BY <2>1, <2>2
<1>8. OneEach'
  BY <1>1, <1>3, <1>4, <1>5 DEF OneEach
<1>9. ASSUME NEW u \in Task, \A n \in Mutex : mx'[n].owner # u
      PROVE  k'.prio[u] = BasePrio[u]
  <2>1. \A n \in Mutex : mx[n].owner # u
    BY <1>1, <1>3, <1>9, FreeMutex
  <2> QED  BY <1>2, <1>5, <2>1 DEF PriorityRestored
<1>10. PriorityRestored'
  BY <1>9 DEF PriorityRestored
<1>11. UrgentInv'
  BY <1>1, <1>2 DEF UrgentInv
<1> QED  BY <1>7, <1>8, <1>10, <1>11 DEF RaisedInv

(* A task begins to wait, and raises the owner to its own priority.        *)
LEMMA RaisedWait ==
    ASSUME WaitInv, MutexInv, RaisedInv, OneForever, NEW t \in Task, NEW m \in Mutex,
           ToSet(stack[t]) \subseteq {m}, MutexWait(t, m, Forever)
    PROVE  RaisedInv' /\ UrgentInv'
<1>0. PICK o : o = mx[m].owner
  OBVIOUS
<1>1. /\ k.cur = t /\ k.isr = 0 /\ t \notin resched /\ pc[t] = "app" /\ t # Idle
      /\ mx[m].value = 0 /\ o # t /\ ThenSched(t) /\ mx' = mx
      /\ Flag = "OS_IPC_PRIO" /\ Forever \in Nat
  BY <1>0, WaitAssumption DEF MutexWait, Calls, At, OneForever
<1>2. /\ o \in Task /\ o # NoTask /\ Works(k) /\ KernelOK(k, {}) /\ k.stat[t] = "READY"
      /\ m \in Obj /\ Mutex \subseteq Obj /\ k.prio \in [Task -> Prio] /\ Prio \subseteq Nat
      /\ \A n \in Mutex : t \notin Waiters(n)
      /\ \A n \in Mutex : IsList(k.pend[n], Task) /\ Waiters(n) \subseteq Task
  BY <1>0, <1>1, OwnersFacts, WaitFacts, ActorFree
<1>3. t \notin ToSet(k.timers)
  BY <1>2 DEF KernelOK, TimerList
<1>4. \A n \in Mutex : mx[n].owner # t
  BY <1>0, <1>1, OwnsNone
<1>5. PICK q : q = Inherit(k, t, m)
  OBVIOUS
<1>6. /\ Ends(k, q, {}) /\ q.stat = k.stat /\ q.error = k.error
      /\ q.pend = k.pend /\ q.isr = k.isr /\ q.cur = k.cur
      /\ q.prio = [k.prio EXCEPT ![o] = IF k.prio[t] < @ THEN k.prio[t] ELSE @]
  BY <1>0, <1>1, <1>5, InheritEnds
<1>7. Begins(q, k', {m}, t) /\ k'.prio = q.prio /\ LinesUp(q, k', m, t, Forever)
  <2>1. Works(q) /\ q.isr = 0 /\ q.stat[t] = "READY" /\ k' = WaitIn(q, m, t, Forever)
    BY <1>1, <1>2, <1>5, <1>6 DEF Ends, MutexWait
  <2> QED  BY <1>1, <1>2, <2>1, WaitInBegins
<1>8. /\ \A n \in Mutex \ {m} : k'.pend[n] = k.pend[n] /\ Waiters(n)' = Waiters(n)
      /\ Waiters(m)' = Waiters(m) \cup {t}
      /\ ToSet(k'.timers) \subseteq ToSet(k.timers)
      /\ \A u \in Task \ {o} : k'.prio[u] = k.prio[u]
      /\ k'.prio[o] <= k.prio[o] /\ k'.prio[o] <= k.prio[t]
  <2>1. \A n \in Mutex \ {m} : k'.pend[n] = k.pend[n]
    BY <1>2, <1>6, <1>7 DEF LinesUp
  <2>2. Waiters(m)' = Waiters(m) \cup {t}
    BY <1>2, <1>6, <1>7 DEF Begins, Waiters
  <2>3. ToSet(k'.timers) \subseteq ToSet(k.timers)
    BY <1>6, <1>7 DEF LinesUp, Ends
  <2>4. /\ \A u \in Task \ {o} : k'.prio[u] = k.prio[u]
        /\ k'.prio[o] <= k.prio[o] /\ k'.prio[o] <= k.prio[t]
    <3>1. k.prio[o] \in Nat /\ k.prio[t] \in Nat
      BY <1>2
    <3>2. k'.prio = [k.prio EXCEPT ![o] = IF k.prio[t] < k.prio[o] THEN k.prio[t] ELSE k.prio[o]]
      BY <1>6, <1>7
    <3> QED  BY <1>2, <3>1, <3>2
  <2> QED  BY <2>1, <2>2, <2>3, <2>4 DEF Waiters
<1>9. /\ (\A n \in Mutex : MutexRaised(n)) /\ OneEach /\ PriorityRestored
      /\ \A n \in Mutex : \A u \in Waiters(n) : u # o /\ k'.prio[u] = k.prio[u]
  BY <1>0, <1>2, <1>8 DEF RaisedInv, OneEach
<1>10. MutexRaised(m)'
  <2>1. OwnerRaised(m, o)'
    <3>1. mx'[m].orig = BasePrio[o]
      BY <1>0, <1>1, <1>2, <1>9 DEF MutexRaised, OwnerRaised
    <3>2. ASSUME NEW u \in Waiters(m)'
          PROVE  k'.prio[o] <= k'.prio[u]
      <4>1. CASE u = t
        BY <1>1, <1>8, <4>1
      <4>2. CASE u \in Waiters(m)
        <5>1. k.prio[o] <= k.prio[u] /\ k'.prio[u] = k.prio[u] /\ u \in Task
          BY <1>0, <1>2, <1>9, <4>2 DEF MutexRaised, OwnerRaised
        <5>2. k.prio[o] \in Nat /\ k.prio[u] \in Nat /\ k'.prio[o] \in Nat
          BY <1>2, <1>6, <1>7, <5>1
        <5> QED  BY <1>8, <5>1, <5>2
      <4> QED  BY <1>8, <4>1, <4>2
    <3> QED  BY <1>8, <3>1, <3>2 DEF OwnerRaised
  <2>2. Ordered(k'.pend[m], k'.prio)
    <3> DEFINE s == k.pend[m]
    <3>1. PICK i : Queues(q, k', m, t, i)
      BY <1>1, <1>7 DEF LinesUp
    <3>2. /\ k'.pend[m] = InsertAt(s, i, t) /\ i \in 1..Len(s) + 1
          /\ \A j \in 1..i - 1 : ~(k'.prio[t] < k'.prio[s[j]])
          /\ i <= Len(s) => k'.prio[t] < k'.prio[s[i]]
      <4>1. k.pend \in [Obj -> Seq(Task)]
        BY WaitFacts DEF Kernel
      <4> QED  BY <1>2, <1>6, <1>7, <3>1, <4>1 DEF Queues
    <3>3. Ordered(s, k'.prio)
      BY <1>9, OrderedStill DEF MutexRaised, Waiters
    <3>4. IsList(s, Task) /\ t \notin ToSet(s) /\ k'.prio \in [Task -> Nat]
      BY <1>2, <1>6, <1>7 DEF Waiters
    <3> HIDE DEF s
    <3> QED  BY <3>2, <3>3, <3>4, OrderedInsert
  <2>3. Waiters(m)' \cap ToSet(k'.timers) = {}
    BY <1>3, <1>8, <1>9 DEF MutexRaised
  <2>4. mx'[m].owner = o
    BY <1>0, <1>1
  <2> QED  BY <2>1, <2>2, <2>3, <2>4 DEF MutexRaised
<1>11. ASSUME NEW n \in Mutex \ {m}
       PROVE  MutexRaised(n)'
  <2> DEFINE v == mx[n].owner
  <2>1. v # NoTask => v # o /\ v \in Task /\ OwnerRaised(n, v)
    BY <1>0, <1>2, <1>9, OwnersFacts DEF OneEach, MutexRaised
  <2>2. ASSUME v # NoTask
        PROVE  OwnerRaised(n, v)'
    <3>1. k'.prio[v] = k.prio[v]
      BY <1>8, <2>1, <2>2
    <3> QED  BY <1>1, <1>8, <1>9, <2>1, <2>2, <3>1 DEF OwnerRaised
  <2>3. Ordered(k'.pend[n], k'.prio)
    BY <1>8, <1>9, OrderedStill DEF MutexRaised, Waiters
  <2>4. Waiters(n)' \cap ToSet(k'.timers) = {}
    BY <1>8, <1>9 DEF MutexRaised
  <2> QED  BY <1>1, <2>2, <2>3, <2>4 DEF MutexRaised
<1>12. OneEach'
  BY <1>1, <1>4, <1>8, <1>9 DEF OneEach
<1>13. PriorityRestored'
  BY <1>0, <1>1, <1>8, <1>9 DEF PriorityRestored
<1>14. UrgentInv'
  BY <1>1, <1>6, <1>7 DEF UrgentInv, Begins, ThenSched
<1> QED  BY <1>10, <1>11, <1>12, <1>13, <1>14 DEF RaisedInv

(* The owner gives the mutex back, and its priority is its own again.      *)
LEMMA RaisedRelease ==
    ASSUME WaitInv, MutexInv, RaisedInv, UrgentInv, NEW t \in Task, NEW m \in Mutex,
           MutexReleaseLast(t, m)
    PROVE  RaisedInv' /\ UrgentInv'
<1>1. /\ k.cur = t /\ k.isr = 0 /\ t \notin resched /\ mx[m].owner = t /\ t # NoTask
      /\ mx \in [Mutex -> Fields] /\ m \in Obj /\ Mutex \subseteq Obj
      /\ k.prio \in [Task -> Prio] /\ Prio \subseteq Nat
      /\ \A n \in Mutex : /\ t \notin Waiters(n) /\ IsList(k.pend[n], Task)
                          /\ Waiters(n) \subseteq Task
                          /\ mx[n].owner \in Task \cup {NoTask}
  BY FreeMutex, OwnersFacts, WaitFacts, ActorFree
     DEF MutexReleaseLast, Calls, At, OwnersOK, Fields
<1>2. /\ (\A n \in Mutex : MutexRaised(n)) /\ OneEach /\ PriorityRestored
      /\ mx[m].orig = BasePrio[t] /\ OwnerRaised(m, t)
  BY <1>1 DEF RaisedInv, MutexRaised, OwnerRaised
<1>3. /\ (\E w : HandedTo(t, m, w)) \/ GivenUp(m)
      /\ k'.prio = [k.prio EXCEPT ![t] = mx[m].orig]
  BY ReleaseLastOK
<1>4. ASSUME NEW w, HandedTo(t, m, w)
      PROVE  RaisedInv' /\ UrgentInv'
  <2>1. /\ w \in Waiters(m) /\ w \in Task /\ w # t /\ w = k.pend[m][1] /\ w # NoTask
        /\ k'.pend[m] = Tail(k.pend[m]) /\ Alike(k, k', Obj)
        /\ Ends(k, k', {w}) /\ k'.cur = k.cur /\ ThenSched(t)
        /\ mx'[m].owner = w /\ mx'[m].orig = k.prio[w]
        /\ \A n \in Mutex \ {m} : mx'[n] = mx[n]
    BY <1>1, <1>4, FreeMutex DEF HandedTo
  <2>2. /\ k'.prio[t] = BasePrio[t]
        /\ \A u \in Task \ {t} : k'.prio[u] = k.prio[u]
    BY <1>1, <1>2, <1>3
  <2>3. \A n \in Mutex : mx[n].owner # w
    BY <1>2, <2>1 DEF OneEach
  <2>4. k.prio[w] = BasePrio[w]
    BY <1>2, <2>1, <2>3 DEF PriorityRestored
  <2>5. /\ \A n \in Mutex : Waiters(n)' = Waiters(n) \ {w}
        /\ \A n \in Mutex \ {m} : w \notin Waiters(n) /\ Waiters(n)' = Waiters(n)
                                  /\ k'.pend[n] = k.pend[n]
    <3>1. \A n \in Mutex : Waiters(n)' = Waiters(n) \ {w}
      BY <1>1, <2>1 DEF Ends, Waiters
    <3>2. \A n \in Mutex \ {m} : w \notin Waiters(n)
      BY <1>1, <2>1, OnePlace DEF WaitInv, PlacesOK
    <3>3. \A n \in Mutex \ {m} : Waiters(n)' = Waiters(n)
      BY <3>1, <3>2
    <3>4. \A n \in Mutex \ {m} : k'.pend[n] = k.pend[n]
      BY <1>1, <2>1, <3>3 DEF Alike, Waiters
    <3> QED  BY <3>1, <3>2, <3>3, <3>4
  <2>6. ToSet(k'.timers) \subseteq ToSet(k.timers)
    BY <2>1 DEF Ends
  <2>7. \A n \in Mutex : Ordered(k.pend[n], k'.prio)
    <3>1. ASSUME NEW n \in Mutex
          PROVE  Ordered(k.pend[n], k'.prio)
      <4>1. \A u \in ToSet(k.pend[n]) : k'.prio[u] = k.prio[u]
        BY <1>1, <2>2 DEF Waiters
      <4>2. Ordered(k.pend[n], k.prio)
        BY <1>2 DEF MutexRaised
      <4> QED  BY <4>1, <4>2, OrderedStill
    <3> QED  BY <3>1
  <2>8. MutexRaised(m)'
    <3> DEFINE s == k.pend[m]
               p == k'.prio
    <3>1. Ordered(Tail(s), p) /\ \A u \in ToSet(Tail(s)) : p[s[1]] <= p[u]
      <4>1. IsList(s, Task) /\ s # <<>> /\ Ordered(s, p)
        BY <1>1, <2>1, <2>7, EmptyList DEF Waiters
      <4> HIDE DEF s, p
      <4> QED  BY <4>1, OrderedTail
    <3>2. OwnerRaised(m, w)'
      BY <1>1, <2>1, <2>2, <2>4, <3>1 DEF OwnerRaised, Waiters
    <3>3. Waiters(m)' \cap ToSet(k'.timers) = {}
      BY <1>2, <2>5, <2>6 DEF MutexRaised
    <3> QED  BY <2>1, <3>1, <3>2, <3>3 DEF MutexRaised
  <2>9. ASSUME NEW n \in Mutex \ {m}
        PROVE  MutexRaised(n)'
    <3>1. mx[n].owner # t
      BY <1>1, <1>2 DEF OneEach
    <3>2. ASSUME mx[n].owner # NoTask
          PROVE  OwnerRaised(n, mx[n].owner)'
      <4>1. PICK v \in Task \ {t} : v = mx[n].owner
        BY <1>1, <3>1, <3>2
      <4>2. OwnerRaised(n, v)
        BY <1>1, <1>2, <3>2, <4>1 DEF MutexRaised
      <4>3. \A u \in Waiters(n) : k'.prio[u] = k.prio[u]
        BY <1>1, <2>2
      <4>4. OwnerRaised(n, v)'
        BY <2>1, <2>2, <2>5, <4>2, <4>3 DEF OwnerRaised
      <4> QED  BY <2>1, <4>1, <4>4
    <3>3. Waiters(n)' \cap ToSet(k'.timers) = {} /\ Ordered(k'.pend[n], k'.prio)
      BY <1>2, <2>5, <2>6, <2>7 DEF MutexRaised
    <3> QED  BY <2>1, <3>2, <3>3 DEF MutexRaised
  <2>10. OneEach'
    BY <1>2, <2>1, <2>3, <2>5 DEF OneEach
  <2>11. PriorityRestored'
    <3>1. ASSUME NEW u \in Task \ {t}, \A n \in Mutex : mx'[n].owner # u
          PROVE  k.prio[u] = BasePrio[u]
      <4>1. \A n \in Mutex : mx[n].owner # u
        BY <1>1, <2>1, <3>1
      <4> QED  BY <1>2, <4>1 DEF PriorityRestored
    <3> QED  BY <2>2, <3>1 DEF PriorityRestored
  <2>12. UrgentInv'
    BY <1>1, <2>1 DEF UrgentInv, ThenSched
  <2> QED  BY <2>8, <2>9, <2>10, <2>11, <2>12 DEF RaisedInv
<1>5. CASE GivenUp(m)
  <2>1. /\ Waiters(m) = {} /\ UNCHANGED resched
        /\ mx'[m].owner = NoTask /\ \A n \in Mutex \ {m} : mx'[n] = mx[n]
    BY <1>1, <1>5 DEF GivenUp
  <2>2. mx[m].orig = k.prio[t]
    BY <1>2, <2>1 DEF OwnerRaised
  <2>3. k' = k
    <3>1. Restore(t, m) = k
      BY <2>2 DEF Restore
    <3>2. k.pend[m] = <<>>
      <4>1. IsList(k.pend[m], Task) /\ ToSet(k.pend[m]) = {}
        BY <1>1, <2>1 DEF Waiters
      <4> QED  BY <4>1 DEF IsList, ToSet
    <3> QED  BY <3>1, <3>2 DEF MutexReleaseLast
  <2>4. \A n \in Mutex : Waiters(n)' = Waiters(n)
    BY <2>3 DEF Waiters
  <2>5. \A n \in Mutex : MutexRaised(n)'
    BY <1>2, <2>1, <2>3, <2>4 DEF MutexRaised, OwnerRaised
  <2>6. OneEach'
    BY <1>1, <1>2, <2>1, <2>4, KernelAssumption DEF OneEach
  <2>7. PriorityRestored'
    <3>1. ASSUME NEW u \in Task \ {t}, \A n \in Mutex : mx'[n].owner # u
          PROVE  k.prio[u] = BasePrio[u]
      <4>1. \A n \in Mutex : mx[n].owner # u
        BY <1>1, <2>1, <3>1
      <4> QED  BY <1>2, <4>1 DEF PriorityRestored
    <3> QED  BY <1>2, <2>2, <2>3, <3>1 DEF PriorityRestored
  <2>8. UrgentInv'
    BY <2>1, <2>3 DEF UrgentInv
  <2> QED  BY <2>5, <2>6, <2>7, <2>8 DEF RaisedInv
<1> QED  BY <1>3, <1>4, <1>5

(* Every function of os_mutex.c keeps the priorities, in an application    *)
(* that is OneForever.                                                     *)
LEMMA RaisedMutexes ==
    ASSUME WaitInv, MutexInv, RaisedInv, UrgentInv, NoResume, OneForever,
           NEW t \in Task, Mutexes(t)
    PROVE  RaisedInv' /\ UrgentInv' /\ NoResume'
<1>1. /\ {"nest", "again", "timed", "delete"} \cap ops = {} /\ pc \in [Task -> Step]
      /\ mx \in [Mutex -> Fields] /\ k \in Kernel
  BY WaitFacts DEF OneForever, WaitInv, OwnersOK, Fields
<1> DEFINE Kept == RaisedInv' /\ UrgentInv'
<1>2. ASSUME NEW m \in Mutex, ToSet(stack[t]) \subseteq {m}, MutexTakeFree(t, m)
      PROVE  Kept /\ pc' = pc
  BY <1>2, RaisedTake DEF MutexTakeFree
<1>3. ASSUME NEW m \in Mutex, ToSet(stack[t]) \subseteq {m}, MutexWait(t, m, Forever)
      PROVE  Kept /\ pc' = [pc EXCEPT ![t] = "mxBack"]
  BY <1>3, RaisedWait DEF MutexWait, Goto
<1>4. ASSUME NEW m \in Mutex, MutexPoll(t, m) \/ MutexRefused(t, m)
      PROVE  Kept /\ pc' = pc
  <2>1. /\ mx' = mx /\ resched' = resched /\ pc' = pc
        /\ k'.pend = k.pend /\ k'.prio = k.prio /\ k'.stat = k.stat /\ k'.cur = k.cur
        /\ k'.timers = k.timers
    BY <1>1, <1>4 DEF MutexPoll, MutexRefused, Kernel
  <2> QED  BY <2>1, RaisedStill
<1>5. ASSUME NEW m \in Mutex, MutexReleaseInner(t, m)
      PROVE  Kept /\ pc' = pc
  <2>1. k' = k /\ resched' = resched /\ pc' = pc /\ mx' = [mx EXCEPT ![m].hold = @ - 1]
    BY <1>5 DEF MutexReleaseInner
  <2>2. \A n \in Mutex : mx'[n].owner = mx[n].owner /\ mx'[n].orig = mx[n].orig
    BY <1>1, <2>1 DEF Fields
  <2> QED  BY <2>1, <2>2, RaisedStill
<1>6. ASSUME NEW m \in Mutex, MutexReleaseLast(t, m)
      PROVE  Kept /\ pc' = pc
  BY <1>6, RaisedRelease DEF MutexReleaseLast
<1>7. ASSUME MutexTaken(t) \/ MutexFails(t)
      PROVE  Kept /\ pc' = [pc EXCEPT ![t] = "app"]
  <2>1. /\ k' = k /\ mx' = mx /\ resched' = resched /\ pc' = [pc EXCEPT ![t] = "app"]
    BY <1>7 DEF MutexTaken, MutexFails, Finish, Goto
  <2> QED  BY <2>1, RaisedStill
<1> HIDE DEF Kept
<1>8. Kept /\ \E p \in {pc[t], "app", "mxBack"} : pc' = [pc EXCEPT ![t] = p]
  <2>1. pc = [pc EXCEPT ![t] = pc[t]]
    BY <1>1
  <2>2. CASE MutexContinue(t)
    BY <1>7, <2>2 DEF MutexContinue
  <2>3. CASE MutexCall(t, ops)
    BY <1>1, <1>2, <1>3, <1>4, <1>5, <1>6, <2>1, <2>3 DEF MutexCall, MayTake
  <2> QED  BY <2>2, <2>3 DEF Mutexes
<1> QED  BY <1>1, <1>8 DEF Kept, NoResume, ResumeStep

(* Every step does,                                                        *)
LEMMA InversionStep ==
    ASSUME WaitInv, MutexInv, InversionInv, Next
    PROVE  InversionInv'
<1>1. ops' = ops
  BY DEF Next, Mbox, Mqueue, Mutexes, Events, Mpool, MboxIsr, MqueueIsr,
         EventIsr, MpoolIsr, KernelWork, SameObjects
<1>2. ASSUME OneForever
      PROVE  RaisedInv' /\ UrgentInv' /\ NoResume'
  <2>1. RaisedInv /\ UrgentInv /\ NoResume
    BY <1>2 DEF InversionInv, NoResume, ResumeStep
  <2>2. CASE Spares
    <3>1. RaisedInv'
      BY <2>1, <2>2, RaisedAside
    <3> QED  BY <2>2, <3>1 DEF Spares
  <2>3. ASSUME NEW t \in Task, Mutexes(t)
        PROVE  RaisedInv' /\ UrgentInv' /\ NoResume'
    BY <1>2, <2>1, <2>3, RaisedMutexes
  <2> QED  BY <1>2, <2>1, <2>2, <2>3, OthersLeave
<1>3. OneForever' => OneForever
  BY <1>1 DEF OneForever
<1> QED  BY <1>2, <1>3 DEF InversionInv, NoResume, ResumeStep

(* also one that changes nothing,                                          *)
LEMMA InversionSame ==
    ASSUME InversionInv, UNCHANGED vars
    PROVE  InversionInv'
<1>1. UNCHANGED <<k, pc, resched, mx, ops>>
  BY DEF vars
<1>2. OneForever' = OneForever
  BY <1>1 DEF OneForever
<1>3. RaisedInv /\ UrgentInv => RaisedInv' /\ UrgentInv'
  BY <1>1, RaisedStill
<1> QED  BY <1>1, <1>2, <1>3 DEF InversionInv

(* and they are right at first.                                            *)
LEMMA InversionFirst ==
    ASSUME IsFiniteSet(Task), Init
    PROVE  InversionInv
<1>1. /\ k.prio = BasePrio /\ pc = [t \in Task |-> "app"]
      /\ \A o \in Obj : k.pend[o] = <<>> /\ Waiters(o) = {}
      /\ Mutex \subseteq Obj /\ NoTask \notin Task
  <2>1. WaitInv /\ k.prio = BasePrio /\ \A o \in Obj : k.pend[o] = <<>>
    BY WaitFirst
  <2> QED  BY <2>1, WaitFacts, EmptyList, KernelAssumption DEF Init, WaitInit, Waiters
<1>2. \A m \in Mutex : mx[m].owner = NoTask
  BY DEF Init, MutexInit
<1>3. ASSUME NEW m \in Mutex
      PROVE  MutexRaised(m)
  <2>1. k.pend[m] = <<>> /\ Waiters(m) = {}
    BY <1>1
  <2>2. Ordered(k.pend[m], k.prio)
    BY <2>1 DEF Ordered
  <2> QED  BY <1>2, <2>1, <2>2 DEF MutexRaised
<1>4. OneEach /\ PriorityRestored
  BY <1>1, <1>2 DEF OneEach, PriorityRestored
<1>5. UrgentInv
  <2>1. k = Running(BasePrio) /\ BasePrio \in [Task -> Prio]
    BY WaitAssumption DEF Init, WaitInit
  <2>2. \A u \in Task : k.prio[k.cur] <= k.prio[u]
    BY <2>1, RunningOK
  <2> QED  BY <2>2 DEF UrgentInv
<1> QED  BY <1>1, <1>3, <1>4, <1>5 DEF InversionInv, RaisedInv

(* While a task waits for a mutex whose owner could run, no task runs that *)
(* is less urgent than it: in an application that holds one mutex at a     *)
(* time, waits for it with OS_WAIT_FOREVER, has its lists sorted by        *)
(* priority and deletes no object.                                         *)
THEOREM InversionBoundedHolds ==
    ASSUME IsFiniteSet(Task)
    PROVE  Spec => []InversionBounded
<1>1. Init => InversionInv
  BY InversionFirst
<1>2. WaitInv /\ MutexInv /\ InversionInv /\ [Next]_vars => InversionInv'
  BY InversionStep, InversionSame
<1>3. WaitInv /\ MutexInv /\ InversionInv => InversionBounded
  <2>1. ASSUME WaitInv, MutexInv, RaisedInv, UrgentInv, k.cur \notin resched,
               NEW m \in Mutex, NEW t \in Waiters(m), k.stat[mx[m].owner] = "READY"
        PROVE  k.prio[k.cur] <= k.prio[t]
    <3>1. PICK o : o = mx[m].owner
      OBVIOUS
    <3>2. /\ o \in Task /\ o # NoTask /\ t \in Task /\ k.cur \in Task
          /\ k.prio \in [Task -> Prio] /\ Prio \subseteq Nat /\ k.stat[o] = "READY"
      BY <2>1, <3>1, FreeMutex, OwnersFacts, WaitFacts
    <3>3. k.prio[o] <= k.prio[t]
      BY <2>1, <3>1, <3>2 DEF RaisedInv, MutexRaised, OwnerRaised
    <3>4. k.prio[k.cur] <= k.prio[o]
      BY <2>1, <3>2 DEF UrgentInv
    <3>5. k.prio[o] \in Nat /\ k.prio[t] \in Nat /\ k.prio[k.cur] \in Nat
      BY <3>2
    <3> QED  BY <3>3, <3>4, <3>5
  <2> QED  BY <2>1 DEF InversionBounded, InversionInv, NoPriorityInversion
<1> QED  BY <1>1, <1>2, <1>3, MutexInductive, PTL DEF Spec

=============================================================================
