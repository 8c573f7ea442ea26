---------------------------- MODULE OsTaskProofs ----------------------------
(***************************************************************************)
(* IndInv of OsTaskInv is an invariant of OsTask for every set of tasks,   *)
(* levels, timers and slices, for applications with Risky = {}; the safety *)
(* properties of OsTask follow from it.                                    *)
(***************************************************************************)
EXTENDS OsTaskInv, OsKernelProofs

-----------------------------------------------------------------------------
(* Two kinds of steps *)

(* The tasks for which a step does something a call that works on them     *)
(* could notice.                                                           *)
Touched(u) ==
    \/ k'.stat[u] # k.stat[u]
    \/ u \in ToSet(k'.timers) /\ u \notin ToSet(k.timers)
    \/ u \in ToSet(k'.defunct) /\ u \notin ToSet(k.defunct)

(* A step that begins, continues and ends no call on a task.               *)
LEMMA OutsideStep ==
    ASSUME IndInv, KernelOK(k', Detached), pc' \in [Task -> Step], arg' = arg,
           \A a \in Task : pc'[a] = pc[a] \/ (pc[a] \notin Busy /\ pc'[a] \notin Busy),
           \A u \in Task : Touched(u) =>
               /\ \A a \in Task : arg[a] = u =>
                     pc[a] = "suspend1" /\ k'.stat[u] \in {"READY", "SUSPEND"}
               /\ k'.stat[u] = "CLOSE" => arg[u] = NoTask,
           BootOK', CurOK', CursorOK'
    PROVE  IndInv'
<1>1. Detached' = Detached /\ Dying' = Dying
  BY DEF Detached, Dying, Busy, Resuming, Deleting
<1>2. TypeOK'
  BY DEF IndInv, TypeOK, KernelOK
<1>3. KernelOK(k, Detached)'
  BY <1>1
<1>4. CallsOK'
  BY DEF IndInv, CallsOK
<1>5. TargetsOK'
  <2> SUFFICES ASSUME NEW t \in Task PROVE TargetOK(t)'
    BY DEF TargetsOK
  <2>1. CASE pc'[t] \notin Busy
    BY <2>1 DEF TargetOK, Busy
  <2>2. CASE pc'[t] \in Busy
    <3>1. pc'[t] = pc[t] /\ arg[t] # NoTask /\ arg[t] \in Task /\ TargetOK(t)
      BY <2>2 DEF IndInv, CallsOK, TypeOK, TargetsOK
    <3>2. CASE pc[t] = "suspend1"
      BY <3>1, <3>2 DEF TargetOK, Touched, Resuming, Deleting
    <3>3. CASE pc[t] # "suspend1"
      <4>1. ~Touched(arg[t])  BY <3>1, <3>3
      <4> QED  BY <3>1, <4>1 DEF TargetOK, Touched
    <3> QED  BY <3>2, <3>3
  <2> QED  BY <2>1, <2>2
<1>6. EndedOK'
  <2> SUFFICES ASSUME NEW u \in Task, k'.stat[u] = "CLOSE" \/ u \in Dying'
               PROVE  arg[u] = NoTask
    BY DEF EndedOK
  <2> QED  BY <1>1 DEF IndInv, EndedOK, Touched
<1> QED  BY <1>2, <1>3, <1>4, <1>5, <1>6 DEF IndInv

(* A step of the current task t inside a call: v is the task the call      *)
(* works on after it.                                                      *)
LEMMA CallStep ==
    ASSUME IndInv, NEW t \in Task, k.cur = t,
           pc[t] \notin {"sched", "exitSched", "sleepSched"},
           NEW s \in Step, NEW v \in Task \cup {NoTask},
           pc' = [pc EXCEPT ![t] = s], arg' = [arg EXCEPT ![t] = v],
           v = NoTask <=> s \notin Busy, v # Idle,
           v # NoTask /\ v # arg[t] => \A a \in Task : arg[a] # v,
           KernelOK(k', Detached'), t \notin Detached',
           \A u \in Task : Touched(u) => u = v \/ u = arg[t],
           \A u \in Task : k'.stat[u] = "CLOSE" /\ k.stat[u] # "CLOSE"
                              => arg[u] = NoTask /\ u # t,
           s \in Deleting => arg[v] = NoTask,
           TargetOK(t)',
           k'.cur = k.cur, k'.lock = k.lock, k'.isr = 0,
           k'.stat[t] # "READY" =>
               k.lock = 0 /\ s \in {"sched", "exitSched", "sleepSched"},
           s = "suspend1" /\ v = t => k.lock = 0
    PROVE  IndInv'
<1>1. /\ TypeOK /\ pc'[t] = s /\ arg'[t] = v
      /\ \A a \in Task \ {t} : pc'[a] = pc[a] /\ arg'[a] = arg[a]
      /\ k.cur # NoTask
  BY KernelAssumption DEF IndInv, TypeOK
<1>2. k.stat[t] = "READY" /\ k.stat[Idle] = "READY"
  BY <1>1 DEF IndInv, CurOK
<1>3. TypeOK'
  BY <1>1 DEF TypeOK, KernelOK
<1>4. CallsOK'
  BY <1>1, KernelAssumption DEF IndInv, CallsOK
<1>5. TargetsOK'
  <2> SUFFICES ASSUME NEW a \in Task, a # t PROVE TargetOK(a)'
    BY DEF TargetsOK
  <2>1. CASE pc[a] \notin Busy
    BY <1>1, <2>1 DEF TargetOK, Busy
  <2>2. CASE pc[a] \in Busy
    <3>1. arg[a] \in Task /\ arg[a] # arg[t] /\ arg[a] # v
      BY <1>1, <2>2 DEF IndInv, CallsOK, TypeOK
    <3>2. ~Touched(arg[a]) /\ TargetOK(a)
      BY <3>1 DEF IndInv, TargetsOK
    <3> QED  BY <1>1, <3>2 DEF TargetOK, Touched
  <2> QED  BY <2>1, <2>2
<1>6. EndedOK'
  <2> SUFFICES ASSUME NEW u \in Task, k'.stat[u] = "CLOSE" \/ u \in Dying'
               PROVE  arg'[u] = NoTask
    BY DEF EndedOK
  <2>1. u # t
    BY <1>2 DEF Dying, Detached, Deleting
  <2>2. CASE k'.stat[u] = "CLOSE"
    BY <1>1, <2>1, <2>2 DEF IndInv, EndedOK
  <2>3. CASE u \in Dying'
    <3>1. PICK a \in Task : pc'[a] \in Deleting /\ arg'[a] = u
      BY <2>3 DEF Dying, Deleting
    <3>2. CASE a = t  BY <1>1, <2>1, <3>1, <3>2
    <3>3. CASE a # t
      <4>1. u \in Dying  BY <1>1, <3>1, <3>3 DEF Dying, Deleting
      <4> QED  BY <1>1, <2>1, <4>1 DEF IndInv, EndedOK
    <3> QED  BY <3>2, <3>3
  <2> QED  BY <2>2, <2>3
<1>7. BootOK' /\ CursorOK'
  BY <1>1 DEF BootOK, CursorOK
<1>8. CurOK'
  <2>1. arg[t] # Idle /\ Idle \in Task  BY KernelAssumption DEF IndInv, CallsOK
  <2>2. k'.stat[Idle] = "READY"  BY <1>2, <2>1 DEF Touched
  <2> QED  BY <1>1, <2>2 DEF CurOK
<1> QED  BY <1>3, <1>4, <1>5, <1>6, <1>7, <1>8 DEF IndInv

-----------------------------------------------------------------------------
(* What a task finds when it executes *)

LEMMA IdleFacts ==
    ASSUME IndInv
    PROVE  /\ Idle \in Task /\ Idle \notin Detached
           /\ NoTask \notin Task /\ KernelOK(k, Detached)
           /\ k.cur # NoTask => k.stat[Idle] = "READY" /\ k.cur \in Task
BY KernelAssumption
   DEF IndInv, CallsOK, CurOK, Detached, TypeOK, Kernel

LEMMA RunsFacts ==
    ASSUME IndInv, NEW t \in Task, Runs(t)
    PROVE  /\ k.cur = t /\ k.cur # NoTask /\ k.isr = 0 /\ t \notin Detached
           /\ k.stat[Idle] = "READY"
           /\ pc[t] \notin {"sched", "exitSched", "sleepSched"}
                  => k.stat[t] = "READY"
BY KernelAssumption DEF IndInv, CurOK, Runs

(* A task about to call an API function. *)
LEMMA CallsFacts ==
    ASSUME IndInv, NEW t \in Task, NEW op, Calls(t, op)
    PROVE  /\ k.cur = t /\ k.cur # NoTask /\ k.isr = 0 /\ t \notin Detached
           /\ k.stat[Idle] = "READY" /\ k.stat[t] = "READY"
           /\ pc[t] = "app" /\ arg[t] = NoTask
BY RunsFacts DEF Calls, IndInv, CallsOK, Busy, Resuming, Deleting

(* A task inside a call on another one. *)
LEMMA BusyFacts ==
    ASSUME IndInv, NEW t \in Task, Runs(t), pc[t] \in Busy
    PROVE  /\ k.cur = t /\ k.cur # NoTask /\ k.isr = 0 /\ t \notin Detached
           /\ k.stat[t] = "READY" /\ TargetOK(t)
           /\ arg[t] \in Task /\ arg[t] # Idle /\ arg[t] # NoTask
           /\ pc[t] \in {"startup1", "resume1", "suspend1", "delete4"}
                  => arg[t] \notin Detached
           /\ pc[t] \notin {"startup1", "resume1", "suspend1", "delete4"}
                  => arg[t] \in Detached
           /\ pc[t] \in Deleting => arg[arg[t]] = NoTask /\ arg[t] # t
<1>1. pc[t] \notin {"sched", "exitSched", "sleepSched"}
  BY DEF Busy, Resuming, Deleting
<1>2. arg[t] \in Task /\ arg[t] # Idle /\ arg[t] # NoTask /\ TargetOK(t)
  BY DEF IndInv, CallsOK, TypeOK, TargetsOK
<1>3. pc[t] \in {"startup1", "resume1", "suspend1", "delete4"}
          => arg[t] \notin Detached
  BY <1>2 DEF IndInv, CallsOK, Detached, Deleting
<1>4. pc[t] \notin {"startup1", "resume1", "suspend1", "delete4"}
          => arg[t] \in Detached
  BY DEF Detached, Busy, Resuming, Deleting
<1>5. pc[t] \in Deleting => arg[arg[t]] = NoTask /\ arg[t] # t
  BY <1>2 DEF IndInv, EndedOK, Dying, Deleting
<1> QED  BY <1>1, <1>2, <1>3, <1>4, <1>5, RunsFacts

Holds == {"startup2", "resume2"} \cup Deleting

(* How a step of one task changes the set of the tasks that are held. *)
LEMMA DetachedStep ==
    ASSUME IndInv, NEW t \in Task, NEW s \in Step, NEW v,
           pc' = [pc EXCEPT ![t] = s], arg' = [arg EXCEPT ![t] = v]
    PROVE  /\ pc[t] \notin Holds /\ s \notin Holds => Detached' = Detached
           /\ pc[t] \notin Holds /\ s \in Holds => Detached' = Detached \cup {v}
           /\ pc[t] \in Holds /\ s \in Holds /\ v = arg[t] => Detached' = Detached
           /\ pc[t] \in Holds /\ s \notin Holds => Detached' = Detached \ {arg[t]}
<1>1. /\ pc'[t] = s /\ arg'[t] = v
      /\ \A a \in Task \ {t} : pc'[a] = pc[a] /\ arg'[a] = arg[a]
  BY DEF IndInv, TypeOK
<1>2. Detached = {arg[a] : a \in {b \in Task : pc[b] \in Holds}}
  BY DEF Detached, Holds
<1>3. Detached' = {arg'[a] : a \in {b \in Task : pc'[b] \in Holds}}
  BY DEF Detached, Holds
<1>4. \A a \in Task : pc[a] \in Holds /\ a # t => arg[a] # arg[t]
  BY DEF IndInv, CallsOK, Holds, Busy, Resuming, Deleting
<1>5. CASE pc[t] \notin Holds /\ s \notin Holds
  BY <1>1, <1>2, <1>3, <1>5
<1>6. CASE pc[t] \notin Holds /\ s \in Holds
  BY <1>1, <1>2, <1>3, <1>6
<1>7. CASE pc[t] \in Holds /\ s \in Holds
  BY <1>1, <1>2, <1>3, <1>7
<1>8. CASE pc[t] \in Holds /\ s \notin Holds
  BY <1>1, <1>2, <1>3, <1>4, <1>8
<1> QED  BY <1>5, <1>6, <1>7, <1>8

-----------------------------------------------------------------------------
(* The steps of os_task_startup, resume, suspend and delete *)

LEMMA StartupStep ==
    ASSUME IndInv, Risky = {}, NEW t \in Task, NEW u \in Task, Startup(t, u)
    PROVE  IndInv'
<1> DEFINE s == "startup1"
<1>1. /\ k.cur = t /\ k.isr = 0 /\ t \notin Detached
      /\ k.stat[Idle] = "READY" /\ k.stat[t] = "READY"
      /\ pc[t] = "app" /\ arg[t] = NoTask
  BY CallsFacts DEF Startup
<1>2. /\ k.stat[u] = "INIT" /\ \A a \in Task : arg[a] # u
      /\ k' = TaskStarting(k, u)
      /\ pc' = [pc EXCEPT ![t] = s] /\ arg' = [arg EXCEPT ![t] = u]
  BY DEF Startup, Managed, GotoOn
<1>3. /\ s \in Step /\ s \in Busy /\ u # Idle /\ u # t /\ u # NoTask
      /\ u \notin ToSet(k.timers)
  BY <1>1, <1>2, IdleFacts
     DEF Step, Busy, Resuming, IndInv, KernelOK, TimerList
<1>4. Detached' = Detached
  BY <1>1, <1>2, <1>3, DetachedStep DEF Holds, Deleting
<1>5. /\ KernelOK(k', Detached)
      /\ k'.stat = [k.stat EXCEPT ![u] = "SUSPEND"]
      /\ k'.prio = k.prio /\ k'.defunct = k.defunct
      /\ SameTimers(k, k') /\ SameControl(k, k')
  BY <1>2, IdleFacts, TaskStartingOK
<1>6. /\ k'.stat[u] = "SUSPEND" /\ \A w \in Task \ {u} : k'.stat[w] = k.stat[w]
      /\ k'.timers = k.timers /\ k'.cur = t /\ k'.lock = k.lock /\ k'.isr = 0
  BY <1>1, <1>5, IdleFacts DEF KernelOK, Kernel, SameTimers, SameControl
<1>7. TargetOK(t)'
  BY <1>2, <1>3, <1>6 DEF TargetOK, Resuming, Deleting, IndInv, TypeOK
<1>8. \A w \in Task : Touched(w) => w = u
  BY <1>5, <1>6 DEF Touched
<1>9. /\ k'.stat[t] = "READY"
      /\ \A w \in Task : k'.stat[w] = "CLOSE" => k.stat[w] = "CLOSE"
  BY <1>1, <1>3, <1>6
<1>10. s \notin Deleting /\ s # "suspend1"
  BY DEF Deleting
<1>11. KernelOK(k', Detached') /\ t \notin Detached'
  BY <1>1, <1>4, <1>5
<1>12. /\ pc[t] \notin {"sched", "exitSched", "sleepSched"}
       /\ u = NoTask <=> s \notin Busy
       /\ u # NoTask /\ u # arg[t] => \A a \in Task : arg[a] # u
       /\ \A w \in Task : Touched(w) => w = u \/ w = arg[t]
       /\ k'.cur = k.cur
  BY <1>1, <1>2, <1>3, <1>6, <1>8
<1> HIDE DEF s
<1> QED
  BY <1>1, <1>2, <1>3, <1>6, <1>7, <1>9, <1>10, <1>11, <1>12, CallStep

LEMMA ResumeStep ==
    ASSUME IndInv, Risky = {}, NEW t \in Task, NEW u \in Task, Resume(t, u)
    PROVE  IndInv'
<1> DEFINE s == "resume1"
<1>1. /\ k.cur = t /\ k.isr = 0 /\ t \notin Detached
      /\ k.stat[Idle] = "READY" /\ k.stat[t] = "READY"
      /\ pc[t] = "app" /\ arg[t] = NoTask
  BY CallsFacts DEF Resume
<1>2. /\ k.stat[u] = "SUSPEND" /\ \A a \in Task : arg[a] # u
      /\ u \notin k.act /\ k' = k
      /\ pc' = [pc EXCEPT ![t] = s] /\ arg' = [arg EXCEPT ![t] = u]
  BY DEF Resume, Managed, GotoOn
<1>3. /\ s \in Step /\ s \in Busy /\ u # Idle /\ u # t /\ u # NoTask
      /\ u \notin ToSet(k.timers)
  BY <1>1, <1>2, IdleFacts
     DEF Step, Busy, Resuming, IndInv, KernelOK, TimerList
<1>4. Detached' = Detached
  BY <1>1, <1>2, <1>3, DetachedStep DEF Holds, Deleting
<1>5. KernelOK(k', Detached)
  BY <1>2, IdleFacts
<1>6. TargetOK(t)'
  BY <1>2, <1>3 DEF TargetOK, Resuming, Deleting, IndInv, TypeOK
<1>7. \A w \in Task : ~Touched(w)
  BY <1>2 DEF Touched
<1> QED
  BY <1>1, <1>2, <1>3, <1>4, <1>5, <1>6, <1>7, CallStep DEF Deleting

LEMMA SuspendStep ==
    ASSUME IndInv, Risky = {}, NEW t \in Task, NEW u \in Task, Suspend(t, u)
    PROVE  IndInv'
<1> DEFINE s == "suspend1"
<1>1. /\ k.cur = t /\ k.isr = 0 /\ t \notin Detached
      /\ k.stat[Idle] = "READY" /\ k.stat[t] = "READY"
      /\ pc[t] = "app" /\ arg[t] = NoTask
  BY CallsFacts DEF Suspend
<1>2. /\ k.stat[u] = "READY" /\ \A a \in Task : arg[a] # u
      /\ u # Idle /\ (u = t => k.lock = 0) /\ k' = k
      /\ pc' = [pc EXCEPT ![t] = s] /\ arg' = [arg EXCEPT ![t] = u]
  BY DEF Suspend, Managed, CanBlock, GotoOn
<1>3. s \in Step /\ s \in Busy /\ u # NoTask
  BY IdleFacts DEF Step, Busy
<1>4. Detached' = Detached
  BY <1>1, <1>2, <1>3, DetachedStep DEF Holds, Deleting
<1>5. KernelOK(k', Detached)
  BY <1>2, IdleFacts
<1>6. TargetOK(t)'
  BY <1>2, <1>3 DEF TargetOK, Resuming, Deleting, IndInv, TypeOK
<1>7. \A w \in Task : ~Touched(w)
  BY <1>2 DEF Touched
<1> QED
  BY <1>1, <1>2, <1>3, <1>4, <1>5, <1>6, <1>7, CallStep DEF Deleting

LEMMA DeleteStep ==
    ASSUME IndInv, Risky = {}, NEW t \in Task, NEW u \in Task, Delete(t, u)
    PROVE  IndInv'
<1> DEFINE s == "delete2"
<1>1. /\ k.cur = t /\ k.isr = 0 /\ t \notin Detached
      /\ k.stat[Idle] = "READY" /\ k.stat[t] = "READY"
      /\ pc[t] = "app" /\ arg[t] = NoTask
  BY CallsFacts DEF Delete
<1>2. /\ \A a \in Task : arg[a] # u
      /\ u # Idle /\ u # t /\ arg[u] = NoTask /\ u \notin k.act
      /\ k.mask[u] \subseteq {k.prio[u]}
      /\ k' = SchedRemove(k, u)
      /\ pc' = [pc EXCEPT ![t] = s] /\ arg' = [arg EXCEPT ![t] = u]
  BY DEF Delete, Managed, GotoOn
<1>3. /\ s \in Step /\ s \in Busy /\ u # NoTask /\ u \notin ToSet(k.timers)
  BY <1>2, IdleFacts DEF Step, Busy, Deleting, IndInv, KernelOK, TimerList
<1>4. Detached' = Detached \cup {u}
  BY <1>1, <1>2, <1>3, DetachedStep DEF Holds, Deleting
<1>5. /\ KernelOK(k', Detached \cup {u})
      /\ ToSet(k'.defunct) = ToSet(k.defunct) \ {u}
      /\ SameTasks(k, k') /\ SameTimers(k, k') /\ SameControl(k, k')
  <2>1. KernelOK(k, Detached) /\ k.mask[u] \subseteq {k.prio[u]}
    BY <1>2, IdleFacts
  <2>2. k' = SchedRemove(k, u)
    BY <1>2
  <2> QED  BY <2>1, <2>2, Detach
<1>6. /\ k'.stat = k.stat
      /\ k'.timers = k.timers /\ k'.cur = t /\ k'.lock = k.lock /\ k'.isr = 0
  BY <1>1, <1>5 DEF SameTasks, SameTimers, SameControl
<1>7. TargetOK(t)'
  BY <1>2, <1>3, <1>6 DEF TargetOK, Resuming, Deleting, IndInv, TypeOK
<1>8. \A w \in Task : ~Touched(w)
  BY <1>5, <1>6 DEF Touched
<1> QED
  BY <1>1, <1>2, <1>3, <1>4, <1>5, <1>6, <1>7, <1>8, CallStep DEF Deleting

LEMMA ResumeFirstStep ==
    ASSUME IndInv, NEW t \in Task, ResumeFirst(t)
    PROVE  IndInv'
<1> DEFINE u == arg[t]
           s == IF pc[t] = "startup1" THEN "startup2" ELSE "resume2"
<1>1. /\ Runs(t) /\ pc[t] \in {"startup1", "resume1"}
      /\ k' = ResumeUnlink(k, u)
      /\ pc' = [pc EXCEPT ![t] = s] /\ arg' = arg
  BY DEF ResumeFirst, Goto
<1>2. /\ k.cur = t /\ k.isr = 0 /\ t \notin Detached
      /\ k.stat[t] = "READY" /\ TargetOK(t)
      /\ u \in Task /\ u # Idle /\ u # NoTask /\ u \notin Detached
  BY <1>1, BusyFacts DEF Busy, Resuming
<1>3. /\ s \in Step /\ s \in Busy /\ s \in Resuming /\ s \in Holds
      /\ s \notin Deleting /\ s # "suspend1" /\ pc[t] \notin Holds
  BY <1>1 DEF Step, Busy, Resuming, Deleting, Holds
<1>4. arg' = [arg EXCEPT ![t] = u]
  BY <1>1 DEF IndInv, TypeOK
<1>5. k.stat[u] = "SUSPEND" /\ u \notin ToSet(k.timers) /\ u # t
  BY <1>1, <1>2 DEF TargetOK, Resuming
<1> HIDE DEF u, s
<1>6. Detached' = Detached \cup {u}
  BY <1>1, <1>3, <1>4, DetachedStep
<1>7. /\ KernelOK(k', Detached \cup {u})
      /\ SameTasks(k, k') /\ k'.defunct = k.defunct
      /\ ToSet(k'.timers) = ToSet(k.timers) \ {u}
      /\ SameControl(k, k')
  BY <1>1, <1>2, <1>5, IdleFacts, ResumeUnlinkOK
<1>8. /\ k'.stat = k.stat /\ k'.cur = k.cur /\ k'.lock = k.lock /\ k'.isr = 0
  BY <1>2, <1>7 DEF SameTasks, SameControl
<1>9. pc'[t] = s /\ arg'[t] = u
  BY <1>1, <1>4 DEF IndInv, TypeOK
<1>10. TargetOK(t)'
  BY <1>3, <1>5, <1>7, <1>8, <1>9 DEF TargetOK, Resuming, Deleting
<1>11. \A w \in Task : ~Touched(w)
  BY <1>7, <1>8 DEF Touched
<1>12. KernelOK(k', Detached') /\ t \notin Detached'
  BY <1>2, <1>5, <1>6, <1>7
<1>13. u = arg[t] /\ pc[t] \notin {"sched", "exitSched", "sleepSched"}
  BY <1>1 DEF u
<1> QED
  BY <1>1, <1>2, <1>3, <1>4, <1>8, <1>10, <1>11, <1>12, <1>13, CallStep

LEMMA ResumeSecondStep ==
    ASSUME IndInv, NEW t \in Task, ResumeSecond(t)
    PROVE  IndInv'
<1> DEFINE u == arg[t]
           s == IF pc[t] = "startup2" THEN "sched" ELSE "app"
<1>1. /\ Runs(t) /\ pc[t] \in {"startup2", "resume2"}
      /\ k' = SchedInsert(k, u)
      /\ pc' = [pc EXCEPT ![t] = s] /\ arg' = [arg EXCEPT ![t] = NoTask]
  BY DEF ResumeSecond, GotoOn
<1>2. /\ k.cur = t /\ k.isr = 0 /\ t \notin Detached
      /\ k.stat[t] = "READY" /\ TargetOK(t)
      /\ u \in Task /\ u # Idle /\ u # NoTask /\ u \in Detached
  BY <1>1, BusyFacts DEF Busy, Resuming
<1>3. /\ s \in Step /\ s \notin Busy /\ s \notin Holds
      /\ s \notin Deleting /\ s # "suspend1" /\ pc[t] \in Holds
  BY <1>1 DEF Step, Busy, Resuming, Deleting, Holds
<1>4. k.stat[u] = "SUSPEND" /\ u \notin ToSet(k.timers) /\ u # t
  BY <1>1, <1>2 DEF TargetOK, Resuming
<1>5. KernelOK(k, Detached) /\ k.mask[u] = {k.prio[u]}
  BY <1>2, <1>4, IdleFacts DEF KernelOK, Masks
<1>6. Detached' = Detached \ {u}
  BY <1>1, <1>3, DetachedStep
<1>7. u = arg[t] /\ pc[t] \notin {"sched", "exitSched", "sleepSched"}
  BY <1>1
<1> HIDE DEF u, s
<1>8. /\ KernelOK(k', Detached \ {u})
      /\ k'.stat = [k.stat EXCEPT ![u] = "READY"]
      /\ k'.defunct = k.defunct
      /\ SameTimers(k, k') /\ SameControl(k, k')
  BY <1>1, <1>2, <1>4, <1>5, Attach
<1>9. /\ k'.timers = k.timers
      /\ k'.cur = k.cur /\ k'.lock = k.lock /\ k'.isr = 0
      /\ k'.stat[u] = "READY" /\ \A w \in Task \ {u} : k'.stat[w] = k.stat[w]
  BY <1>2, <1>5, <1>8 DEF KernelOK, Kernel, SameTimers, SameControl
<1>10. pc'[t] = s
  BY <1>1 DEF IndInv, TypeOK
<1>11. TargetOK(t)'
  BY <1>3, <1>10 DEF TargetOK, Busy
<1>12. \A w \in Task : Touched(w) => w = u
  BY <1>8, <1>9 DEF Touched
<1>13. KernelOK(k', Detached') /\ t \notin Detached'
  BY <1>2, <1>6, <1>8
<1>14. /\ k'.stat[t] = "READY"
       /\ \A w \in Task : k'.stat[w] = "CLOSE" => k.stat[w] = "CLOSE"
       /\ NoTask # Idle /\ NoTask \in Task \cup {NoTask}
  BY <1>2, <1>4, <1>9, IdleFacts
<1> QED
  BY <1>1, <1>2, <1>3, <1>7, <1>9, <1>11, <1>12, <1>13, <1>14, CallStep

LEMMA SuspendRestStep ==
    ASSUME IndInv, NEW t \in Task, SuspendRest(t)
    PROVE  IndInv'
<1> DEFINE u == arg[t]
           s == IF u = t THEN "sched" ELSE "app"
<1>1. /\ Runs(t) /\ pc[t] = "suspend1"
      /\ k' = SuspendReady(k, u)
      /\ pc' = [pc EXCEPT ![t] = s] /\ arg' = [arg EXCEPT ![t] = NoTask]
  BY DEF SuspendRest, At, GotoOn
<1>2. /\ k.cur = t /\ k.isr = 0 /\ t \notin Detached
      /\ k.stat[t] = "READY" /\ TargetOK(t)
      /\ u \in Task /\ u # Idle /\ u # NoTask /\ u \notin Detached
  BY <1>1, BusyFacts DEF Busy, Resuming
<1>3. /\ s \in Step /\ s \notin Busy /\ s \notin Holds
      /\ s \notin Deleting /\ s # "suspend1" /\ pc[t] \notin Holds
  BY <1>1 DEF Step, Busy, Resuming, Deleting, Holds
<1>4. k.stat[u] \in {"READY", "SUSPEND"}
  BY <1>1, <1>2 DEF TargetOK
<1>5. KernelOK(k, Detached)
  BY IdleFacts
<1>6. Detached' = Detached
  BY <1>1, <1>3, DetachedStep
<1>7. u = arg[t] /\ pc[t] \notin {"sched", "exitSched", "sleepSched"}
  BY <1>1
<1>8. u = t => k.lock = 0 /\ s \in {"sched", "exitSched", "sleepSched"}
  BY <1>1, <1>2, IdleFacts DEF IndInv, CurOK
<1> HIDE DEF u, s
<1>9. /\ KernelOK(k', Detached)
      /\ k'.stat = [k.stat EXCEPT ![u] = "SUSPEND"]
      /\ k'.defunct = k.defunct
      /\ ToSet(k'.timers) = ToSet(k.timers) \ {u}
      /\ SameControl(k, k')
  <2>1. k' = SuspendReady(k, u) /\ u \in Task /\ u \notin Detached
    BY <1>1, <1>2
  <2> QED  BY <1>4, <1>5, <2>1, SuspendReadyOK
<1>10. /\ k'.cur = k.cur /\ k'.lock = k.lock /\ k'.isr = 0
       /\ k'.stat[u] = "SUSPEND" /\ \A w \in Task \ {u} : k'.stat[w] = k.stat[w]
  BY <1>2, <1>5, <1>9 DEF KernelOK, Kernel, SameControl
<1>11. pc'[t] = s
  BY <1>1 DEF IndInv, TypeOK
<1>12. TargetOK(t)'
  BY <1>3, <1>11 DEF TargetOK, Busy
<1>13. \A w \in Task : Touched(w) => w = u
  BY <1>9, <1>10 DEF Touched
<1>14. KernelOK(k', Detached') /\ t \notin Detached'
  BY <1>2, <1>6, <1>9
<1>15. /\ k'.stat[t] # "READY" =>
              k.lock = 0 /\ s \in {"sched", "exitSched", "sleepSched"}
       /\ \A w \in Task : k'.stat[w] = "CLOSE" => k.stat[w] = "CLOSE"
       /\ NoTask # Idle /\ NoTask \in Task \cup {NoTask}
  BY <1>2, <1>8, <1>10, IdleFacts
<1> QED
  BY <1>1, <1>2, <1>3, <1>7, <1>10, <1>12, <1>13, <1>14, <1>15, CallStep

LEMMA DeleteTimerStep ==
    ASSUME IndInv, NEW t \in Task, DeleteTimer(t)
    PROVE  IndInv'
<1> DEFINE u == arg[t]
           s == "delete3"
<1>1. /\ Runs(t) /\ pc[t] = "delete2"
      /\ k' = TimerDelete(k, u)
      /\ pc' = [pc EXCEPT ![t] = s] /\ arg' = arg
  BY DEF DeleteTimer, At, Goto
<1>2. /\ k.cur = t /\ k.isr = 0 /\ t \notin Detached
      /\ k.stat[t] = "READY" /\ TargetOK(t) /\ arg[u] = NoTask /\ u # t
      /\ u \in Task /\ u # Idle /\ u # NoTask /\ u \in Detached
  BY <1>1, BusyFacts DEF Busy, Deleting
<1>3. /\ s \in Step /\ s \in Busy /\ s \in Deleting /\ s \notin Resuming
      /\ s \in Holds /\ s # "suspend1" /\ pc[t] \in Holds
  BY <1>1 DEF Step, Busy, Resuming, Deleting, Holds
<1>4. arg' = [arg EXCEPT ![t] = u]
  BY <1>1 DEF IndInv, TypeOK
<1>5. u \notin ToSet(k.timers) /\ KernelOK(k, Detached)
  BY <1>1, <1>2, IdleFacts DEF TargetOK, Deleting
<1>6. Detached' = Detached
  BY <1>1, <1>3, <1>4, DetachedStep
<1>7. u = arg[t] /\ pc[t] \notin {"sched", "exitSched", "sleepSched"}
  BY <1>1
<1> HIDE DEF u
<1>8. /\ KernelOK(k', Detached)
      /\ k'.timers = k.timers
      /\ SameLists(k, k') /\ SameTasks(k, k') /\ SameControl(k, k')
  BY <1>1, <1>2, <1>5, TimerDeleteOK
<1>9. /\ k'.stat = k.stat /\ k'.defunct = k.defunct
      /\ k'.cur = k.cur /\ k'.lock = k.lock /\ k'.isr = 0
  BY <1>2, <1>8 DEF SameLists, SameTasks, SameControl
<1>10. pc'[t] = s /\ arg'[t] = u
  BY <1>1, <1>4 DEF IndInv, TypeOK
<1>11. TargetOK(t)'
  BY <1>3, <1>5, <1>8, <1>10 DEF TargetOK, Resuming, Deleting
<1>12. \A w \in Task : ~Touched(w)
  BY <1>8, <1>9 DEF Touched
<1>13. KernelOK(k', Detached') /\ t \notin Detached'
  BY <1>2, <1>6, <1>8
<1> HIDE DEF s
<1> QED
  BY <1>1, <1>2, <1>3, <1>4, <1>7, <1>9, <1>11, <1>12, <1>13, CallStep

LEMMA DeleteCloseStep ==
    ASSUME IndInv, NEW t \in Task, DeleteClose(t)
    PROVE  IndInv'
<1> DEFINE u == arg[t]
           s == IF u \in Cleanup THEN "delete4" ELSE "app"
           v == IF u \in Cleanup THEN u ELSE NoTask
           c == "CLOSE"
<1>1. /\ Runs(t) /\ pc[t] = "delete3"
      /\ k' = SetStat(k, u, c)
      /\ pc' = [pc EXCEPT ![t] = s]
  BY DEF DeleteClose, At, Goto, GotoOn, SetStat
<1>2. /\ k.cur = t /\ k.isr = 0 /\ t \notin Detached
      /\ k.stat[t] = "READY" /\ TargetOK(t) /\ arg[u] = NoTask /\ u # t
      /\ u \in Task /\ u # Idle /\ u # NoTask /\ u \in Detached
  BY <1>1, BusyFacts DEF Busy, Deleting
<1>3. arg' = [arg EXCEPT ![t] = v]
  BY DEF DeleteClose, Goto, GotoOn, IndInv, TypeOK
<1>4. /\ s \in Step /\ s \notin Deleting /\ s \notin Resuming
      /\ s \notin Holds /\ s # "suspend1" /\ pc[t] \in Holds
      /\ v = NoTask <=> s \notin Busy
      /\ v \in Task \cup {NoTask} /\ v # Idle /\ (v # NoTask => v = u)
  BY <1>1, <1>2, IdleFacts DEF Step, Busy, Resuming, Deleting, Holds
<1>5. /\ u \notin ToSet(k.timers) /\ KernelOK(k, Detached)
      /\ u \notin ToSet(k.defunct)
  BY <1>1, <1>2, IdleFacts DEF TargetOK, Deleting, KernelOK, DefunctList
<1>6. Detached' = Detached \ {u}
  BY <1>1, <1>3, <1>4, DetachedStep
<1>7. u = arg[t] /\ pc[t] \notin {"sched", "exitSched", "sleepSched"}
  BY <1>1
<1>8. c \in Stat /\ c = "CLOSE" /\ c \notin {"READY", "SUSPEND"}
  BY DEF Stat
<1> HIDE DEF u, s, v, c
<1>9. /\ KernelOK(k', Detached)
      /\ k'.stat = [k.stat EXCEPT ![u] = c]
      /\ SameLists(k, k') /\ SameTimers(k, k') /\ SameControl(k, k')
  <2>1. k' = SetStat(k, u, c) /\ u \in Task /\ u \in Detached
    BY <1>1, <1>2
  <2> QED  BY <1>5, <1>8, <2>1, StatOfDetached
<1>10. /\ k'.timers = k.timers /\ k'.defunct = k.defunct
       /\ k'.cur = k.cur /\ k'.lock = k.lock /\ k'.isr = 0
       /\ k'.stat[u] = "CLOSE" /\ \A w \in Task \ {u} : k'.stat[w] = k.stat[w]
  BY <1>2, <1>5, <1>8, <1>9
     DEF KernelOK, Kernel, SameLists, SameTimers, SameControl
<1>11. pc'[t] = s /\ arg'[t] = v
  BY <1>1, <1>3 DEF IndInv, TypeOK
<1>12. TargetOK(t)'
  BY <1>4, <1>5, <1>10, <1>11 DEF TargetOK, Busy
<1>13. \A w \in Task : Touched(w) => w = u
  BY <1>10 DEF Touched
<1>14. KernelOK(k', Detached') /\ t \notin Detached'
  <2>1. \A w \in Task : w \in Detached /\ w \notin Detached' => k'.stat[w] # "READY"
    BY <1>6, <1>10
  <2>2. Detached' \subseteq Detached
    BY <1>6
  <2>3. KernelOK(k', Detached)
    BY <1>9
  <2>4. KernelOK(k', Detached')
    BY <2>1, <2>2, <2>3, Release
  <2> QED  BY <1>2, <2>2, <2>4
<1>15. /\ k'.stat[t] = "READY"
       /\ \A w \in Task : k'.stat[w] = "CLOSE" /\ k.stat[w] # "CLOSE"
              => arg[w] = NoTask /\ w # t
  BY <1>2, <1>10
<1> QED
  BY <1>1, <1>2, <1>3, <1>4, <1>7, <1>10, <1>12, <1>13, <1>14, <1>15, CallStep

LEMMA DeleteDefunctStep ==
    ASSUME IndInv, NEW t \in Task, DeleteDefunct(t)
    PROVE  IndInv'
<1> DEFINE u == arg[t]
           s == "app"
<1>1. /\ Runs(t) /\ pc[t] = "delete4"
      /\ k' = Defunct(k, u)
      /\ pc' = [pc EXCEPT ![t] = s] /\ arg' = [arg EXCEPT ![t] = NoTask]
  BY DEF DeleteDefunct, At, GotoOn
<1>2. /\ k.cur = t /\ k.isr = 0 /\ t \notin Detached
      /\ k.stat[t] = "READY" /\ TargetOK(t)
      /\ u \in Task /\ u # Idle /\ u # NoTask /\ u \notin Detached
  BY <1>1, BusyFacts DEF Busy
<1>3. /\ s \in Step /\ s \notin Busy /\ s \notin Holds
      /\ s \notin Deleting /\ s # "suspend1" /\ pc[t] \notin Holds
  BY <1>1 DEF Step, Busy, Resuming, Deleting, Holds
<1>4. k.stat[u] = "CLOSE" /\ u \notin ToSet(k.defunct)
  BY <1>1, <1>2 DEF TargetOK
<1>5. KernelOK(k, Detached)
  BY IdleFacts
<1>6. Detached' = Detached
  BY <1>1, <1>3, DetachedStep
<1>7. u = arg[t] /\ pc[t] \notin {"sched", "exitSched", "sleepSched"}
  BY <1>1
<1> HIDE DEF u, s
<1>8. /\ KernelOK(k', Detached)
      /\ ToSet(k'.defunct) = ToSet(k.defunct) \cup {u}
      /\ SameTasks(k, k') /\ SameTimers(k, k') /\ SameControl(k, k')
  <2>1. k' = Defunct(k, u) /\ u \in Task /\ u \notin Detached
    BY <1>1, <1>2
  <2> QED  BY <1>4, <1>5, <2>1, DefunctOK
<1>9. /\ k'.stat = k.stat /\ k'.timers = k.timers
      /\ k'.cur = k.cur /\ k'.lock = k.lock /\ k'.isr = 0
  BY <1>2, <1>8 DEF SameTasks, SameTimers, SameControl
<1>10. pc'[t] = s
  BY <1>1 DEF IndInv, TypeOK
<1>11. TargetOK(t)'
  BY <1>3, <1>10 DEF TargetOK, Busy
<1>12. \A w \in Task : Touched(w) => w = u
  BY <1>8, <1>9 DEF Touched
<1>13. KernelOK(k', Detached') /\ t \notin Detached'
  BY <1>2, <1>6, <1>8
<1>14. NoTask # Idle /\ NoTask \in Task \cup {NoTask}
  BY IdleFacts
<1> QED
  BY <1>1, <1>2, <1>3, <1>7, <1>9, <1>11, <1>12, <1>13, <1>14, CallStep

-----------------------------------------------------------------------------
(* The other functions of the API *)

(* A READY task that nobody holds can only be in the hands of a task that  *)
(* is about to suspend it.                                                 *)
LEMMA ReadyTarget ==
    ASSUME IndInv, NEW u \in Task, k.stat[u] = "READY", u \notin Detached,
           NEW a \in Task, arg[a] = u
    PROVE  pc[a] = "suspend1"
<1>1. pc[a] \in Busy /\ TargetOK(a)
  BY KernelAssumption DEF IndInv, CallsOK, TargetsOK
<1>2. pc[a] \notin Deleting
  BY DEF Detached
<1> QED  BY <1>1, <1>2 DEF TargetOK, Busy

(* A step of the current task t outside of calls on other tasks.           *)
LEMMA AppStep ==
    ASSUME IndInv, NEW t \in Task, k.cur = t, pc[t] \notin Busy,
           NEW s \in Step, s \notin Busy,
           pc' = [pc EXCEPT ![t] = s], arg' = arg,
           KernelOK(k', Detached), k'.isr = 0, k'.stat[Idle] = "READY",
           \A u \in Task : Touched(u) =>
               /\ \A a \in Task : arg[a] = u =>
                     pc[a] = "suspend1" /\ k'.stat[u] \in {"READY", "SUSPEND"}
               /\ k'.stat[u] = "CLOSE" => arg[u] = NoTask,
           \/ k'.cur = t /\ k'.stat[t] = "READY"
           \/ /\ k'.cur = t /\ k'.lock = 0
              /\ s \in {"sched", "exitSched", "sleepSched"}
           \/ /\ k'.cur \in Task /\ k'.cur \notin Detached
              /\ k'.stat[k'.cur] = "READY" /\ k'.lock = 0,
           t \notin Detached
    PROVE  IndInv'
<1>1. /\ pc \in [Task -> Step] /\ pc' \in [Task -> Step] /\ pc'[t] = s
      /\ \A a \in Task \ {t} : pc'[a] = pc[a]
      /\ NoTask \notin Task
  BY KernelAssumption DEF IndInv, TypeOK
<1>2. Detached' = Detached
  BY <1>1 DEF Detached, Busy, Resuming, Deleting
<1>3. BootOK' /\ CursorOK'
  BY <1>1 DEF BootOK, CursorOK
<1>4. CurOK'
  <2>1. pc'[k'.cur] = "suspend1" /\ arg[k'.cur] = k'.cur => k'.lock = 0
    BY <1>1 DEF Busy
  <2> QED  BY <1>1, <1>2, <2>1 DEF CurOK
<1> QED  BY <1>1, <1>3, <1>4, OutsideStep

LEMMA LockStep ==
    ASSUME IndInv, NEW t \in Task, Lock(t) \/ Unlock(t)
    PROVE  IndInv'
<1>1. PICK op \in {"lock", "unlock"} : Calls(t, op)
  BY DEF Lock, Unlock
<1>2. /\ k.cur = t /\ k.cur # NoTask /\ k.isr = 0 /\ t \notin Detached
      /\ k.stat[Idle] = "READY" /\ k.stat[t] = "READY"
      /\ pc[t] = "app" /\ arg[t] = NoTask
  BY <1>1, CallsFacts
<1>3. KernelOK(k, Detached) /\ k.lock \in Nat /\ k \in Kernel
  BY IdleFacts DEF KernelOK, Kernel
<1>4. PICK m \in Nat : k' = SetLock(k, m)
  <2>1. CASE Lock(t)
    <3> DEFINE m == k.lock + 1
    <3>1. m \in Nat
      BY <1>3
    <3>2. k' = SetLock(k, m)
      BY <1>3, <2>1 DEF Lock, SetLock, Kernel
    <3> HIDE DEF m
    <3> QED  BY <3>1, <3>2
  <2>2. CASE Unlock(t)
    <3> DEFINE m == IF k.lock > 0 THEN k.lock - 1 ELSE 0
    <3>1. m \in Nat
      BY <1>3
    <3>2. k' = SetLock(k, m)
      BY <1>3, <2>2 DEF Unlock, SetLock, Kernel
    <3> HIDE DEF m
    <3> QED  BY <3>1, <3>2
  <2> QED  BY <2>1, <2>2
<1>5. PICK s \in {"app", "sched"} : pc' = [pc EXCEPT ![t] = s] /\ arg' = arg
  <2>1. CASE Lock(t)
    BY <1>2, <2>1 DEF Lock, IndInv, TypeOK
  <2>2. CASE Unlock(t)
    BY <2>2 DEF Unlock, Goto
  <2> QED  BY <2>1, <2>2
<1>6. /\ KernelOK(k', Detached)
      /\ SameLists(k, k') /\ SameTasks(k, k') /\ SameTimers(k, k')
      /\ k'.cur = k.cur /\ k'.isr = k.isr
  BY <1>3, <1>4, SetLockOK
<1>7. \A u \in Task : ~Touched(u)
  BY <1>6 DEF Touched, SameLists, SameTasks, SameTimers
<1>8. k'.stat = k.stat
  BY <1>6 DEF SameTasks
<1>9. s \in Step /\ s \notin Busy /\ pc[t] \notin Busy
  BY <1>2 DEF Step, Busy, Resuming, Deleting
<1> QED  BY <1>2, <1>5, <1>6, <1>7, <1>8, <1>9, AppStep

LEMMA YieldStep ==
    ASSUME IndInv, NEW t \in Task, YieldCall(t)
    PROVE  IndInv'
<1> DEFINE s == "sched"
<1>1. /\ k.cur = t /\ k.cur # NoTask /\ k.isr = 0 /\ t \notin Detached
      /\ k.stat[Idle] = "READY" /\ k.stat[t] = "READY"
      /\ pc[t] = "app" /\ arg[t] = NoTask
  BY CallsFacts DEF YieldCall
<1>2. KernelOK(k, Detached) /\ k' = Rotate(k)
  BY IdleFacts DEF YieldCall
<1>3. pc' = [pc EXCEPT ![t] = s] /\ arg' = arg
  BY DEF YieldCall, Goto
<1>4. /\ KernelOK(k', Detached)
      /\ k'.defunct = k.defunct /\ k'.pend = k.pend
      /\ SameTasks(k, k') /\ SameTimers(k, k') /\ SameControl(k, k')
  BY <1>1, <1>2, RotateOK
<1>5. /\ \A u \in Task : ~Touched(u)
      /\ k'.stat = k.stat /\ k'.cur = t /\ k'.isr = 0
  BY <1>1, <1>4 DEF Touched, SameTasks, SameTimers, SameControl
<1>6. s \in Step /\ s \notin Busy /\ pc[t] \notin Busy
  BY <1>1 DEF Step, Busy, Resuming, Deleting
<1> HIDE DEF s
<1> QED  BY <1>1, <1>3, <1>4, <1>5, <1>6, AppStep

LEMMA ScheduleStep ==
    ASSUME IndInv, NEW t \in Task, Schedule(t)
    PROVE  IndInv'
<1> DEFINE s == CASE pc[t] = "sched" -> "app"
                  [] pc[t] = "sleepSched" -> "sleepBack"
                  [] pc[t] = "exitSched" -> "exitSched"
<1>1. /\ pc[t] \in {"sched", "exitSched", "sleepSched"} /\ Runs(t)
      /\ k' = Sched(k) /\ pc' = [pc EXCEPT ![t] = s] /\ arg' = arg
  BY DEF Schedule, Goto
<1>2. /\ k.cur = t /\ k.cur # NoTask /\ k.isr = 0 /\ t \notin Detached
      /\ k.stat[Idle] = "READY" /\ (k.lock # 0 => k.stat[t] = "READY")
  BY <1>1, RunsFacts DEF IndInv, CurOK
<1>3. s \in Step /\ s \notin Busy /\ pc[t] \notin Busy
  BY <1>1 DEF Step, Busy, Resuming, Deleting
<1> HIDE DEF s
<1>4. /\ KernelOK(k', Detached)
      /\ SameLists(k, k') /\ SameTasks(k, k') /\ SameTimers(k, k')
      /\ k'.lock = k.lock /\ k'.isr = k.isr /\ k'.n = k.n
      /\ k.lock # 0 => k'.cur = k.cur
      /\ k.lock = 0 =>
            k'.cur \in Task /\ k'.cur \notin Detached /\ k.stat[k'.cur] = "READY"
  BY <1>1, <1>2, IdleFacts, SchedOK
<1>5. k'.stat = k.stat /\ \A u \in Task : ~Touched(u)
  BY <1>4 DEF Touched, SameLists, SameTasks, SameTimers
<1> QED  BY <1>1, <1>2, <1>3, <1>4, <1>5, AppStep

LEMMA SleepReturnStep ==
    ASSUME IndInv, NEW t \in Task, SleepReturn(t)
    PROVE  IndInv'
<1> DEFINE s == "app"
           e == IF k.error[t] = "OS_TIMEOUT" THEN "OS_OK" ELSE k.error[t]
<1>1. /\ Runs(t) /\ pc[t] = "sleepBack"
      /\ pc' = [pc EXCEPT ![t] = s] /\ arg' = arg
  BY DEF SleepReturn, At, Goto
<1>2. KernelOK(k, Detached) /\ k \in Kernel
  BY IdleFacts DEF KernelOK
<1>3. k' = SetError(k, t, e) /\ e \in Errno
  BY <1>2 DEF SleepReturn, SetError, Kernel, Errno
<1>4. /\ k.cur = t /\ k.isr = 0 /\ t \notin Detached
      /\ k.stat[Idle] = "READY" /\ k.stat[t] = "READY"
  BY <1>1, RunsFacts
<1>5. s \in Step /\ s \notin Busy /\ pc[t] \notin Busy
  BY <1>1 DEF Step, Busy, Resuming, Deleting
<1> HIDE DEF s, e
<1>6. /\ KernelOK(k', Detached)
      /\ SameLists(k, k') /\ SameTasks(k, k') /\ SameTimers(k, k')
      /\ SameControl(k, k')
  BY <1>2, <1>3, SetErrorOK
<1>7. /\ \A u \in Task : ~Touched(u)
      /\ k'.stat = k.stat /\ k'.cur = t /\ k'.isr = 0
  BY <1>4, <1>6 DEF Touched, SameLists, SameTasks, SameTimers, SameControl
<1> QED  BY <1>1, <1>4, <1>5, <1>6, <1>7, AppStep

LEMMA SleepStep ==
    ASSUME IndInv, Risky = {}, NEW t \in Task, NEW d \in Delay, Sleep(t, d)
    PROVE  IndInv'
<1> DEFINE s == "sleepSched"
           q == SuspendReady(k, t)
<1>1. /\ k.cur = t /\ k.cur # NoTask /\ k.isr = 0 /\ t \notin Detached
      /\ k.stat[Idle] = "READY" /\ k.stat[t] = "READY"
      /\ pc[t] = "app" /\ arg[t] = NoTask
  BY CallsFacts DEF Sleep
<1>2. KernelOK(k, Detached) /\ k \in Kernel /\ k.stat[t] \in {"READY", "SUSPEND"}
  BY <1>1, IdleFacts DEF KernelOK
<1>3. /\ k' = TimerStart(q, t, d) /\ k.lock = 0 /\ t # Idle
      /\ pc' = [pc EXCEPT ![t] = s] /\ arg' = arg
  BY <1>1 DEF Sleep, TaskSuspend, CanBlock, Goto
<1>4. d \in Nat /\ t \in Timer
  BY TaskAssumption DEF Timer
<1>5. s \in Step /\ s \notin Busy /\ pc[t] \notin Busy
      /\ s \in {"sched", "exitSched", "sleepSched"}
  BY <1>1 DEF Step, Busy, Resuming, Deleting
<1> HIDE DEF s
<1>6. /\ KernelOK(q, Detached)
      /\ q.stat = [k.stat EXCEPT ![t] = "SUSPEND"]
      /\ q.defunct = k.defunct
      /\ ToSet(q.timers) = ToSet(k.timers) \ {t}
      /\ SameControl(k, q)
  <2>1. t \notin Detached /\ q = SuspendReady(k, t)
    BY <1>1
  <2> HIDE DEF q
  <2> QED  BY <1>2, <2>1, SuspendReadyOK
<1> HIDE DEF q
<1>7. q.stat[t] = "SUSPEND" /\ \A u \in Task \ {t} : q.stat[u] = k.stat[u]
  BY <1>2, <1>6 DEF Kernel
<1>8. /\ KernelOK(k', Detached)
      /\ ToSet(k'.timers) = ToSet(q.timers) \cup {t}
      /\ SameLists(q, k') /\ SameTasks(q, k') /\ SameControl(q, k')
  <2>1. KernelOK(q, Detached) /\ k' = TimerStart(q, t, d)
    BY <1>3, <1>6
  <2> QED  BY <1>4, <1>7, <2>1, TimerStartOK
<1>9. /\ k'.stat[t] = "SUSPEND" /\ \A u \in Task \ {t} : k'.stat[u] = k.stat[u]
      /\ k'.defunct = k.defunct
      /\ k'.cur = t /\ k'.lock = 0 /\ k'.isr = 0
  BY <1>1, <1>3, <1>6, <1>7, <1>8 DEF SameLists, SameTasks, SameControl
<1>10. \A u \in Task : Touched(u) => u = t
  BY <1>6, <1>8, <1>9 DEF Touched
<1>11. /\ k'.stat[Idle] = "READY" /\ k'.stat[t] \in {"READY", "SUSPEND"}
       /\ k'.stat[t] # "CLOSE"
  BY <1>1, <1>3, <1>9, IdleFacts
<1>12. \A a \in Task : arg[a] = t => pc[a] = "suspend1"
  BY <1>1, ReadyTarget
<1>13. \A u \in Task : Touched(u) =>
               /\ \A a \in Task : arg[a] = u =>
                     pc[a] = "suspend1" /\ k'.stat[u] \in {"READY", "SUSPEND"}
               /\ k'.stat[u] = "CLOSE" => arg[u] = NoTask
  BY <1>10, <1>11, <1>12
<1> QED
  BY <1>1, <1>3, <1>5, <1>8, <1>9, <1>11, <1>13, AppStep

LEMMA ExitStep ==
    ASSUME IndInv, Risky = {}, NEW t \in Task, Exit(t)
    PROVE  IndInv'
<1> DEFINE s == "exitSched"
<1>1. /\ k.cur = t /\ k.cur # NoTask /\ k.isr = 0 /\ t \notin Detached
      /\ k.stat[Idle] = "READY" /\ k.stat[t] = "READY"
      /\ pc[t] = "app" /\ arg[t] = NoTask
  BY CallsFacts DEF Exit
<1>2. KernelOK(k, Detached) /\ k \in Kernel
  BY <1>1, IdleFacts DEF KernelOK
<1>3. /\ k' = TaskExit(k, t) /\ k.lock = 0 /\ t # Idle
      /\ \A a \in Task : arg[a] # t
      /\ pc' = [pc EXCEPT ![t] = s] /\ arg' = arg
  BY DEF Exit, CanBlock, Managed, Goto
<1>4. s \in Step /\ s \notin Busy /\ pc[t] \notin Busy
      /\ s \in {"sched", "exitSched", "sleepSched"}
  BY <1>1 DEF Step, Busy, Resuming, Deleting
<1> HIDE DEF s
<1>5. /\ KernelOK(k', Detached)
      /\ k'.stat = [k.stat EXCEPT ![t] = "CLOSE"]
      /\ ToSet(k'.defunct) \subseteq ToSet(k.defunct) \cup {t}
      /\ SameTimers(k, k') /\ SameControl(k, k')
  BY <1>1, <1>2, <1>3, TaskExitOK
<1>6. /\ \A u \in Task \ {t} : k'.stat[u] = k.stat[u]
      /\ k'.timers = k.timers /\ k'.cur = t /\ k'.lock = 0 /\ k'.isr = 0
  BY <1>1, <1>2, <1>3, <1>5 DEF Kernel, SameTimers, SameControl
<1>7. \A u \in Task : Touched(u) => u = t
  BY <1>5, <1>6 DEF Touched
<1>8. \A u \in Task : Touched(u) =>
               /\ \A a \in Task : arg[a] = u =>
                     pc[a] = "suspend1" /\ k'.stat[u] \in {"READY", "SUSPEND"}
               /\ k'.stat[u] = "CLOSE" => arg[u] = NoTask
  BY <1>1, <1>3, <1>7
<1>9. k'.stat[Idle] = "READY"
  BY <1>1, <1>3, <1>6, IdleFacts
<1> QED  BY <1>1, <1>3, <1>4, <1>5, <1>6, <1>8, <1>9, AppStep

LEMMA PrioritySetStep ==
    ASSUME IndInv, Risky = {}, NEW t \in Task, NEW u \in Task, NEW p \in Levels,
           PrioritySetCall(t, u, p)
    PROVE  IndInv'
<1> DEFINE s == "app"
<1>1. /\ k.cur = t /\ k.cur # NoTask /\ k.isr = 0 /\ t \notin Detached
      /\ k.stat[Idle] = "READY" /\ k.stat[t] = "READY"
      /\ pc[t] = "app" /\ arg[t] = NoTask
  BY CallsFacts DEF PrioritySetCall
<1>2. /\ k' = PrioritySet(k, u, p) /\ \A a \in Task : arg[a] # u
      /\ pc' = [pc EXCEPT ![t] = s] /\ arg' = arg
  BY <1>1 DEF PrioritySetCall, Managed, IndInv, TypeOK
<1>3. KernelOK(k, Detached) /\ u \notin Detached /\ p \in Prio
  BY <1>2, IdleFacts, TaskAssumption DEF Detached
<1>4. s \in Step /\ s \notin Busy /\ pc[t] \notin Busy
  BY <1>1 DEF Step, Busy, Resuming, Deleting
<1> HIDE DEF s
<1>5. /\ KernelOK(k', Detached)
      /\ k'.stat = k.stat /\ k'.defunct = k.defunct
      /\ SameTimers(k, k') /\ SameControl(k, k')
  BY <1>2, <1>3, PrioritySetOK
<1>6. \A w \in Task : ~Touched(w)
  BY <1>5 DEF Touched, SameTimers
<1>7. k'.cur = t /\ k'.isr = 0
  BY <1>1, <1>5 DEF SameControl
<1> QED  BY <1>1, <1>2, <1>4, <1>5, <1>6, <1>7, AppStep

LEMMA StartTimerStep ==
    ASSUME IndInv, NEW t \in Task, NEW x \in UserTimer, StartTimer(t, x)
    PROVE  IndInv'
<1> DEFINE s == "app"
           d == Period[x]
<1>1. /\ k.cur = t /\ k.cur # NoTask /\ k.isr = 0 /\ t \notin Detached
      /\ k.stat[Idle] = "READY" /\ k.stat[t] = "READY"
      /\ pc[t] = "app" /\ arg[t] = NoTask
  BY CallsFacts DEF StartTimer
<1>2. /\ k' = TimerStart(k, x, d)
      /\ pc' = [pc EXCEPT ![t] = s] /\ arg' = arg
  BY <1>1 DEF StartTimer, IndInv, TypeOK
<1>3. /\ KernelOK(k, Detached) /\ d \in Nat /\ x \in Timer /\ x \notin Task
      /\ x \in Task => k.stat[x] = "SUSPEND"
  BY <1>2, IdleFacts, KernelAssumption DEF Timer
<1>4. s \in Step /\ s \notin Busy /\ pc[t] \notin Busy
  BY <1>1 DEF Step, Busy, Resuming, Deleting
<1> HIDE DEF s, d
<1>5. /\ KernelOK(k', Detached)
      /\ ToSet(k'.timers) = ToSet(k.timers) \cup {x}
      /\ SameLists(k, k') /\ SameTasks(k, k') /\ SameControl(k, k')
  BY <1>2, <1>3, TimerStartOK
<1>6. \A w \in Task : ~Touched(w)
  BY <1>3, <1>5 DEF Touched, SameLists, SameTasks
<1>7. k'.cur = t /\ k'.isr = 0 /\ k'.stat = k.stat
  BY <1>1, <1>5 DEF SameControl, SameTasks
<1> QED  BY <1>1, <1>2, <1>4, <1>5, <1>6, <1>7, AppStep

LEMMA IdleTestStep ==
    ASSUME IndInv, IdleTest
    PROVE  IndInv'
<1> DEFINE s == "cleanup"
<1>1. Runs(Idle) /\ pc[Idle] = "app" /\ Idle \in Task
  BY IdleFacts DEF IdleTest
<1>2. /\ k.cur = Idle /\ k.isr = 0 /\ Idle \notin Detached
      /\ k.stat[Idle] = "READY"
  BY <1>1, RunsFacts
<1>3. k' = k /\ pc' = [pc EXCEPT ![Idle] = s] /\ arg' = arg
  BY DEF IdleTest, Goto
<1>4. s \in Step /\ s \notin Busy /\ pc[Idle] \notin Busy
  BY <1>1 DEF Step, Busy, Resuming, Deleting
<1> HIDE DEF s
<1>5. KernelOK(k', Detached) /\ ToSet(k'.defunct) \subseteq ToSet(k.defunct)
  BY <1>3, IdleFacts
<1>6. \A w \in Task : ~Touched(w)
  BY <1>3 DEF Touched
<1> QED  BY <1>1, <1>2, <1>3, <1>4, <1>5, <1>6, AppStep

LEMMA CleanupStep ==
    ASSUME IndInv, IdleCleanup
    PROVE  IndInv'
<1> DEFINE s == "app"
<1>1. Runs(Idle) /\ pc[Idle] = "cleanup" /\ Idle \in Task
  BY IdleFacts DEF IdleCleanup, At
<1>2. /\ k.cur = Idle /\ k.isr = 0 /\ Idle \notin Detached
      /\ k.stat[Idle] = "READY"
  BY <1>1, RunsFacts
<1>3. /\ k' = [k EXCEPT !.defunct = IF @ # <<>> THEN Tail(@) ELSE @]
      /\ pc' = [pc EXCEPT ![Idle] = s] /\ arg' = arg
  BY DEF IdleCleanup, Goto
<1>4. s \in Step /\ s \notin Busy /\ pc[Idle] \notin Busy
  BY <1>1 DEF Step, Busy, Resuming, Deleting
<1> HIDE DEF s
<1>5. /\ KernelOK(k', Detached)
      /\ ToSet(k'.defunct) \subseteq ToSet(k.defunct)
      /\ SameTasks(k, k') /\ SameTimers(k, k') /\ SameControl(k, k')
  <2>1. CASE k.defunct # <<>>
    <3>1. k' = [k EXCEPT !.defunct = Tail(@)]
      BY <1>3, <2>1
    <3> QED  BY <2>1, <3>1, IdleFacts, CleanupOK
  <2>2. CASE k.defunct = <<>>
    <3>1. k' = k
      BY <1>3, <2>2 DEF IndInv, TypeOK, Kernel
    <3> QED  BY <3>1, IdleFacts DEF SameTasks, SameTimers, SameControl
  <2> QED  BY <2>1, <2>2
<1>6. \A w \in Task : ~Touched(w)
  BY <1>5 DEF Touched, SameTasks, SameTimers
<1>7. k'.cur = Idle /\ k'.isr = 0 /\ k'.stat = k.stat
  BY <1>2, <1>5 DEF SameControl, SameTasks
<1> QED  BY <1>1, <1>2, <1>3, <1>4, <1>5, <1>6, <1>7, AppStep

LEMMA ReinitStep ==
    ASSUME IndInv, Risky = {}, NEW t \in Task, NEW u \in Task, NEW p \in Levels,
           Reinit(t, u, p)
    PROVE  IndInv'
<1>1. /\ k.cur = t /\ k.cur # NoTask /\ k.isr = 0 /\ t \notin Detached
      /\ k.stat[Idle] = "READY" /\ k.stat[t] = "READY"
      /\ pc[t] = "app" /\ arg[t] = NoTask
  BY CallsFacts DEF Reinit
<1>2. /\ k' = TaskInit(k, u, p) /\ \A a \in Task : arg[a] # u
      /\ k.stat[u] = "CLOSE" /\ u \notin ToSet(k.defunct) /\ u # t /\ u # Idle
      /\ pc' = [pc EXCEPT ![u] = "app"] /\ arg' = [arg EXCEPT ![u] = NoTask]
  BY DEF Reinit, Managed, GotoOn, App
<1>3. arg[u] = NoTask /\ pc[u] \notin Busy
  BY <1>2 DEF IndInv, EndedOK, CallsOK
<1>4. /\ arg' = arg /\ "app" \in Step /\ "app" \notin Busy
      /\ pc' \in [Task -> Step] /\ pc'[t] = "app"
      /\ \A a \in Task : pc'[a] = pc[a] \/ (pc[a] \notin Busy /\ pc'[a] \notin Busy)
  BY <1>1, <1>2, <1>3 DEF IndInv, TypeOK, Step, Busy, Resuming, Deleting
<1>5. KernelOK(k, Detached) /\ k \in Kernel /\ p \in Prio
  BY IdleFacts, TaskAssumption DEF KernelOK
<1>6. /\ KernelOK(k', Detached)
      /\ k'.stat = [k.stat EXCEPT ![u] = "INIT"]
      /\ k'.timers = k.timers /\ k'.defunct = k.defunct
      /\ SameControl(k, k')
  BY <1>2, <1>5, TaskInitOK
<1>7. /\ k'.stat[u] = "INIT" /\ \A w \in Task \ {u} : k'.stat[w] = k.stat[w]
      /\ k'.cur = t /\ k'.isr = 0 /\ k'.cur # NoTask
  BY <1>1, <1>5, <1>6 DEF Kernel, SameControl
<1>8. \A w \in Task : Touched(w) => w = u
  BY <1>6, <1>7 DEF Touched
<1>9. \A w \in Task : Touched(w) =>
               /\ \A a \in Task : arg[a] = w =>
                     pc[a] = "suspend1" /\ k'.stat[w] \in {"READY", "SUSPEND"}
               /\ k'.stat[w] = "CLOSE" => arg[w] = NoTask
  BY <1>2, <1>7, <1>8
<1>10. Detached' = Detached
  BY <1>4 DEF Detached, Busy, Resuming, Deleting
<1>11. BootOK' /\ CursorOK'
  BY <1>7 DEF BootOK, CursorOK
<1>12. CurOK'
  BY <1>1, <1>2, <1>4, <1>7, <1>10, IdleFacts DEF CurOK, Busy
<1> QED  BY <1>4, <1>6, <1>9, <1>11, <1>12, OutsideStep

-----------------------------------------------------------------------------
(* Interrupts *)

(* The current task is READY, and none more urgent is.                     *)
MostUrgent(q) ==
    /\ q.cur \in Task /\ q.cur \notin Detached /\ q.stat[q.cur] = "READY"
    /\ \A u \in Task : u \notin Detached /\ q.stat[u] = "READY"
                        => q.prio[q.cur] <= q.prio[u]

(* What an interrupt makes of q: it makes SUSPEND tasks READY, but none in *)
(* the hands of os_task_resume or os_task_delete, and may switch.          *)
Woken(q, r) ==
    /\ KernelOK(r, Detached) /\ r.defunct = q.defunct
    /\ \A w \in Task : r.stat[w] # q.stat[w] =>
          /\ q.stat[w] = "SUSPEND" /\ r.stat[w] = "READY"
          /\ \A a \in Task : arg[a] = w => pc[a] = "suspend1"
    /\ r.lock = q.lock
    /\ r.cur = q.cur \/ (q.lock = 0 /\ MostUrgent(r))

LEMMA IsrStep ==
    ASSUME IndInv, k.cur # NoTask, pc' = pc, arg' = arg, Woken(k, k'),
           \A w \in Task : w \in ToSet(k'.timers) => w \in ToSet(k.timers),
           CursorOK'
    PROVE  IndInv'
<1>1. /\ pc' \in [Task -> Step] /\ Detached' = Detached
      /\ NoTask \notin Task /\ k.cur \in Task /\ Idle \in Task
      /\ k.stat[Idle] = "READY"
  BY IdleFacts DEF IndInv, TypeOK, Detached
<1>2. \A w \in Task : Touched(w) =>
               /\ \A a \in Task : arg[a] = w =>
                     pc[a] = "suspend1" /\ k'.stat[w] \in {"READY", "SUSPEND"}
               /\ k'.stat[w] = "CLOSE" => arg[w] = NoTask
  BY DEF Touched, Woken
<1>3. BootOK'
  BY <1>1 DEF BootOK, Woken, MostUrgent
<1>4. CurOK'
  BY <1>1 DEF IndInv, CurOK, Woken, MostUrgent
<1> QED  BY <1>1, <1>2, <1>3, <1>4, OutsideStep DEF Woken

LEMMA TickFacts ==
    ASSUME IndInv, Tick
    PROVE  /\ k.cur # NoTask /\ Woken(k, k') /\ k'.timers = k.timers
           /\ k'.isr = 1 /\ (k'.n = ListHead \/ k'.n \in ToSet(k.timers))
<1>1. k.cur # NoTask /\ k' = TickIncrease(k) /\ pc' = pc /\ arg' = arg
  BY DEF Tick
<1>2. /\ KernelOK(k, Detached) /\ k.stat[Idle] = "READY" /\ Idle \notin Detached
      /\ k.cur \in Task /\ k.cur \notin Detached
  BY <1>1, IdleFacts DEF IndInv, CurOK
<1>3. /\ KernelOK(k', Detached)
      /\ k'.defunct = k.defunct /\ k'.pend = k.pend
      /\ SameTasks(k, k') /\ SameTimers(k, k')
      /\ k'.lock = k.lock /\ k'.isr = 1
      /\ k'.n = ListHead \/ k'.n \in ToSet(k.timers)
      /\ k'.cur = k.cur
         \/ /\ k.lock = 0 /\ k'.cur \in Task /\ k'.cur \notin Detached
            /\ k.stat[k'.cur] = "READY"
            /\ \A u \in Task : u \notin Detached /\ k.stat[u] = "READY"
                                => k.prio[k'.cur] <= k.prio[u]
  BY <1>1, <1>2, TickIncreaseOK
<1> QED  BY <1>1, <1>3 DEF Woken, MostUrgent, SameTasks, SameTimers

LEMMA TickStep ==
    ASSUME IndInv, Tick
    PROVE  IndInv'
<1>1. /\ k.cur # NoTask /\ Woken(k, k') /\ k'.timers = k.timers
      /\ k'.isr = 1 /\ (k'.n = ListHead \/ k'.n \in ToSet(k.timers))
  BY TickFacts
<1>2. k'.cur # NoTask
  BY <1>1, IdleFacts DEF Woken, MostUrgent
<1>3. CursorOK'
  BY <1>1, <1>2 DEF CursorOK
<1> QED  BY <1>1, <1>3, IsrStep DEF Tick

LEMMA TickEndStep ==
    ASSUME IndInv, TickEnd
    PROVE  IndInv'
<1>1. k' = IsrLeave(k) /\ k.isr = 1 /\ pc' = pc /\ arg' = arg
  BY DEF TickEnd
<1>2. KernelOK(k, Detached) /\ k.cur # NoTask
  BY <1>1, IdleFacts DEF IndInv, CursorOK
<1>3. /\ KernelOK(k', Detached)
      /\ SameLists(k, k') /\ SameTasks(k, k') /\ SameTimers(k, k')
      /\ k'.cur = k.cur /\ k'.lock = k.lock /\ k'.isr = 0
  BY <1>1, <1>2, IsrLeaveOK
<1>4. Woken(k, k') /\ k'.timers = k.timers
  BY <1>3 DEF Woken, SameLists, SameTasks, SameTimers
<1>5. CursorOK'
  BY <1>3 DEF CursorOK
<1> QED  BY <1>1, <1>2, <1>4, <1>5, IsrStep

(* os_task_resume and os_sched of an interrupt, for a task that no call    *)
(* works on.                                                               *)
LEMMA ResumeAndSched ==
    ASSUME NEW q, KernelOK(q, Detached), q.stat[Idle] = "READY",
           Idle \notin Detached, NEW u \in Task,
           \A a \in Task : arg[a] # u, NEW r, r = Sched(TaskResume(q, u))
    PROVE  /\ Woken(q, r) /\ r.isr = q.isr /\ r.n = q.n
           /\ ToSet(r.timers) \subseteq ToSet(q.timers)
           /\ u \notin q.act => r.timers = q.timers
<1> DEFINE b == TaskResume(q, u)
<1>1. u \notin Detached
  BY DEF Detached
<1>2. /\ KernelOK(b, Detached)
      /\ q.stat[u] = "SUSPEND" => b.stat = [q.stat EXCEPT ![u] = "READY"]
      /\ q.stat[u] # "SUSPEND" => b = q
      /\ b.prio = q.prio /\ b.mask = q.mask /\ b.defunct = q.defunct
      /\ ToSet(b.timers) = ToSet(q.timers) \ {u}
      /\ u \notin q.act => b.timers = q.timers
      /\ SameControl(q, b)
  BY <1>1, TaskResumeOK
<1>3. r = Sched(b)
  OBVIOUS
<1> HIDE DEF b
<1>4. Idle \in Task /\ \A w \in Task : b.stat[w] # q.stat[w] =>
          w = u /\ q.stat[w] = "SUSPEND" /\ b.stat[w] = "READY"
  BY <1>2, KernelAssumption DEF KernelOK, Kernel
<1>5. b.stat[Idle] = "READY"
  BY <1>4
<1>6. /\ KernelOK(r, Detached)
      /\ SameLists(b, r) /\ SameTasks(b, r) /\ SameTimers(b, r)
      /\ r.lock = b.lock /\ r.isr = b.isr /\ r.n = b.n
      /\ b.lock # 0 => r.cur = b.cur
      /\ b.lock = 0 =>
            /\ r.cur \in Task /\ r.cur \notin Detached /\ b.stat[r.cur] = "READY"
            /\ \A w \in Task : w \notin Detached /\ b.stat[w] = "READY"
                                => b.prio[r.cur] <= b.prio[w]
  BY <1>2, <1>3, <1>5, SchedOK
<1>7. b.lock = 0 => MostUrgent(r)
  BY <1>6 DEF MostUrgent, SameTasks
<1>8. Woken(q, r)
  BY <1>2, <1>4, <1>6, <1>7 DEF Woken, SameLists, SameTasks, SameControl
<1> QED  BY <1>2, <1>6, <1>8 DEF SameTimers, SameControl

LEMMA IsrResumeStep ==
    ASSUME IndInv, Risky = {}, NEW u \in App, IsrResume(u)
    PROVE  IndInv'
<1>1. /\ k.cur # NoTask /\ k.isr = 0 /\ \A a \in Task : arg[a] # u
      /\ k' = Sched(TaskResume(k, u)) /\ pc' = pc /\ arg' = arg
      /\ u \in Task
  BY DEF IsrResume, Managed, App
<1>2. KernelOK(k, Detached) /\ k.stat[Idle] = "READY" /\ Idle \notin Detached
  BY <1>1, IdleFacts
<1>3. /\ Woken(k, k') /\ k'.isr = k.isr
      /\ ToSet(k'.timers) \subseteq ToSet(k.timers)
  BY <1>1, <1>2, ResumeAndSched
<1>4. CursorOK'
  BY <1>1, <1>3 DEF CursorOK
<1> QED  BY <1>1, <1>3, <1>4, IsrStep

(* A due timer of a task belongs to a task that waits, and no call is      *)
(* about to make it READY or to close it.                                  *)
LEMMA DueFacts ==
    ASSUME IndInv, Due(k)
    PROVE  /\ k.isr = 1 /\ k.cur # NoTask /\ k.n \in ToSet(k.timers)
           /\ k.n \in Timer
           /\ k.n \in Task =>
                 /\ k.stat[k.n] = "SUSPEND" /\ k.n \notin Detached
                 /\ \A a \in Task : arg[a] = k.n => pc[a] = "suspend1"
<1>1. /\ k.isr = 1 /\ k.cur # NoTask /\ k.n \in ToSet(k.timers)
      /\ KernelOK(k, Detached)
  BY IdleFacts DEF Due, IndInv, CursorOK
<1>2. k.n \in Timer
  <2>1. ToSet(k.timers) \subseteq Timer  BY <1>1 DEF KernelOK, Kernel, ToSet
  <2> QED  BY <1>1, <2>1
<1>3. ASSUME k.n \in Task
      PROVE  /\ k.stat[k.n] = "SUSPEND"
             /\ \A a \in Task : arg[a] = k.n => pc[a] = "suspend1"
  <2>1. k.stat[k.n] = "SUSPEND"
    BY <1>1, <1>3 DEF KernelOK, TimerList
  <2>2. ASSUME NEW a \in Task, arg[a] = k.n PROVE pc[a] = "suspend1"
    <3>1. pc[a] \in Busy /\ TargetOK(a)
      BY <1>3, <2>2, IdleFacts DEF IndInv, CallsOK, TargetsOK
    <3> QED  BY <1>1, <2>1, <2>2, <3>1 DEF TargetOK, Busy
  <2> QED  BY <2>1, <2>2
<1>4. k.n \in Task => k.n \notin Detached
  BY <1>3 DEF Detached, Deleting
<1> QED  BY <1>1, <1>2, <1>3, <1>4

LEMMA TimerFireFacts ==
    ASSUME IndInv, Risky = {}, TimerFire
    PROVE  /\ k.cur # NoTask /\ Woken(k, k')
           /\ \A w \in Task : w \in ToSet(k'.timers) => w \in ToSet(k.timers)
           /\ k'.n = ListHead \/ k'.n \in ToSet(k'.timers)
<1> DEFINE s == TimerTake(k)
           x == k.n
           r == IF x \in Task THEN TaskTimeout(s, x) ELSE Callback(s, x)
<1>1. Due(k) /\ k' = TimerAfter(r, x)
  BY DEF TimerFire
<1>2. /\ k.isr = 1 /\ k.cur # NoTask /\ x \in ToSet(k.timers) /\ x \in Timer
      /\ x \in Task =>
            /\ k.stat[x] = "SUSPEND" /\ x \notin Detached
            /\ \A a \in Task : arg[a] = x => pc[a] = "suspend1"
  BY <1>1, DueFacts
<1>3. /\ KernelOK(k, Detached) /\ k.stat[Idle] = "READY"
      /\ Idle \in Task /\ Idle \notin Detached
  BY <1>2, IdleFacts
<1>4. /\ KernelOK(s, Detached)
      /\ ToSet(s.timers) = ToSet(k.timers) \ {x}
      /\ s.n = ListHead \/ s.n \in ToSet(s.timers)
      /\ SameLists(k, s) /\ SameTasks(k, s) /\ s.act = k.act
      /\ s.cur = k.cur /\ s.lock = k.lock /\ s.isr = k.isr
  BY <1>2, <1>3, TimerTakeOK
<1>5. s.stat = k.stat /\ s.prio = k.prio /\ s.defunct = k.defunct
  BY <1>4 DEF SameLists, SameTasks
<1>6. r = IF x \in Task THEN TaskTimeout(s, x) ELSE Callback(s, x)
  OBVIOUS
<1> HIDE DEF s, x, r
<1>7. Woken(s, r) /\ r.timers = s.timers /\ r.n = s.n
  <2>1. CASE x \in Task
    <3>1. /\ x \notin Detached /\ s.stat[x] = "SUSPEND"
          /\ x \notin ToSet(s.timers) /\ s.stat[Idle] = "READY"
      BY <1>2, <1>3, <1>4, <1>5, <2>1
    <3>2. r = TaskTimeout(s, x)
      BY <1>6, <2>1
    <3>3. /\ KernelOK(r, Detached)
          /\ r.stat = [s.stat EXCEPT ![x] = "READY"]
          /\ r.prio = s.prio /\ r.mask = s.mask /\ r.defunct = s.defunct
          /\ SameTimers(s, r)
          /\ r.lock = s.lock /\ r.isr = s.isr /\ r.n = s.n
          /\ s.lock # 0 => r.cur = s.cur
          /\ s.lock = 0 =>
                /\ r.cur \in Task /\ r.cur \notin Detached
                /\ r.stat[r.cur] = "READY"
                /\ \A u \in Task : u \notin Detached /\ r.stat[u] = "READY"
                                    => r.prio[r.cur] <= r.prio[u]
      BY <1>3, <1>4, <2>1, <3>1, <3>2, TaskTimeoutOK
    <3>4. \A w \in Task : r.stat[w] # s.stat[w] => w = x /\ r.stat[w] = "READY"
      BY <1>4, <3>3 DEF KernelOK, Kernel
    <3> QED
      BY <1>2, <2>1, <3>1, <3>3, <3>4 DEF Woken, MostUrgent, SameTimers
  <2>2. CASE x \notin Task
    <3> DEFINE u == Wakes[x]
    <3>1. u \in Task
      BY <1>2, <2>2, TaskAssumption DEF Timer
    <3>2. r = Callback(s, x)
      BY <1>6, <2>2
    <3>3. CASE Managed(u) /\ u \notin s.act
      <4>1. r = Sched(TaskResume(s, u)) /\ \A a \in Task : arg[a] # u
        BY <3>2, <3>3 DEF Callback, Managed
      <4>2. s.stat[Idle] = "READY"
        BY <1>3, <1>5
      <4> HIDE DEF u
      <4> QED  BY <1>3, <1>4, <3>1, <3>3, <4>1, <4>2, ResumeAndSched
    <3>4. CASE ~(Managed(u) /\ u \notin s.act)
      <4>1. r = s
        BY <3>2, <3>4 DEF Callback
      <4> QED  BY <1>4, <4>1 DEF Woken
    <3> QED  BY <3>3, <3>4
  <2> QED  BY <2>1, <2>2
<1>8. x \notin ToSet(r.timers) /\ KernelOK(r, Detached)
  BY <1>4, <1>7 DEF Woken
<1>9. /\ KernelOK(k', Detached)
      /\ ToSet(r.timers) \subseteq ToSet(k'.timers)
      /\ \A u \in Task : u \in ToSet(k'.timers) => u \in ToSet(r.timers)
      /\ SameLists(r, k') /\ SameTasks(r, k') /\ SameControl(r, k')
  BY <1>1, <1>2, <1>8, TimerAfterOK
<1>10. /\ k'.stat = r.stat /\ k'.prio = r.prio /\ k'.defunct = r.defunct
       /\ k'.cur = r.cur /\ k'.lock = r.lock /\ k'.n = r.n
  BY <1>9 DEF SameLists, SameTasks, SameControl
<1>11. \A w \in Task : w \in ToSet(k'.timers) => w \in ToSet(k.timers)
  BY <1>4, <1>7, <1>9
<1>12. k'.n = ListHead \/ k'.n \in ToSet(k'.timers)
  BY <1>4, <1>7, <1>9, <1>10
<1>13. Woken(k, k')
  BY <1>4, <1>5, <1>7, <1>9, <1>10 DEF Woken, MostUrgent
<1> QED  BY <1>2, <1>11, <1>12, <1>13

LEMMA TimerFireStep ==
    ASSUME IndInv, Risky = {}, TimerFire
    PROVE  IndInv'
<1>1. /\ k.cur # NoTask /\ Woken(k, k')
      /\ \A w \in Task : w \in ToSet(k'.timers) => w \in ToSet(k.timers)
      /\ k'.n = ListHead \/ k'.n \in ToSet(k'.timers)
  BY TimerFireFacts
<1>2. k'.cur # NoTask
  BY <1>1, IdleFacts DEF Woken, MostUrgent
<1>3. CursorOK'
  BY <1>1, <1>2 DEF CursorOK
<1> QED  BY <1>1, <1>3, IsrStep DEF TimerFire

-----------------------------------------------------------------------------
(* main() *)

LEMMA BootFacts ==
    ASSUME IndInv, k.cur = NoTask
    PROVE  /\ KernelOK(k, Detached) /\ Detached = {}
           /\ k.stat[Idle] = "INIT" /\ k.isr = 0 /\ k.lock = 0 /\ k.timers = <<>>
           /\ \A a \in Task : arg[a] = NoTask /\ pc[a] \notin Busy
<1>1. /\ KernelOK(k, Detached)
      /\ k.stat[Idle] = "INIT" /\ k.isr = 0 /\ k.lock = 0 /\ k.timers = <<>>
      /\ \A a \in Task : arg[a] = NoTask
  BY IdleFacts DEF IndInv, BootOK
<1>2. \A a \in Task : pc[a] \notin Busy
  BY <1>1 DEF IndInv, CallsOK
<1>3. Detached = {}
  BY <1>2 DEF Detached, Busy, Resuming
<1> QED  BY <1>1, <1>2, <1>3

(* os_task_startup in main(). *)
LEMMA StartedOK ==
    ASSUME IndInv, k.cur = NoTask, NEW t \in Task, k.stat[t] = "INIT",
           NEW r, r = TaskResume(TaskStarting(k, t), t)
    PROVE  /\ KernelOK(r, Detached) /\ r.defunct = k.defunct
           /\ r.stat = [k.stat EXCEPT ![t] = "READY"]
           /\ r.timers = <<>>
           /\ SameControl(k, r)
<1> DEFINE q == TaskStarting(k, t)
<1>1. /\ KernelOK(k, Detached) /\ t \notin Detached /\ k.timers = <<>>
  BY BootFacts
<1>2. /\ KernelOK(q, Detached)
      /\ q.stat = [k.stat EXCEPT ![t] = "SUSPEND"]
      /\ q.prio = k.prio /\ q.defunct = k.defunct
      /\ SameTimers(k, q) /\ SameControl(k, q)
  BY <1>1, TaskStartingOK
<1>3. r = TaskResume(q, t)
  OBVIOUS
<1> HIDE DEF q
<1>4. q.stat[t] = "SUSPEND" /\ [q.stat EXCEPT ![t] = "READY"]
                                   = [k.stat EXCEPT ![t] = "READY"]
  BY <1>1, <1>2 DEF KernelOK, Kernel
<1>5. /\ KernelOK(r, Detached)
      /\ q.stat[t] = "SUSPEND" => r.stat = [q.stat EXCEPT ![t] = "READY"]
      /\ r.defunct = q.defunct
      /\ ToSet(r.timers) = ToSet(q.timers) \ {t}
      /\ SameControl(q, r)
  <2>1. KernelOK(q, Detached) /\ t \notin Detached
    BY <1>1, <1>2
  <2> QED  BY <1>3, <2>1, TaskResumeOK
<1>6. r.timers = <<>>
  <2>1. ToSet(r.timers) = {}
    BY <1>1, <1>2, <1>5, EmptyList DEF SameTimers
  <2>2. IsList(r.timers, Timer)
    BY <1>5 DEF KernelOK, Kernel, TimerList, IsList
  <2> QED  BY <2>1, <2>2, MemberOfList
<1> QED  BY <1>2, <1>4, <1>5, <1>6 DEF SameControl

LEMMA BootStep ==
    ASSUME IndInv, NEW t \in App, BootStartup(t)
    PROVE  IndInv'
<1>1. /\ k.cur = NoTask /\ t # Idle /\ k.stat[t] = "INIT" /\ t \in Task
      /\ k' = TaskResume(TaskStarting(k, t), t) /\ pc' = pc /\ arg' = arg
  BY DEF BootStartup, App
<1>2. /\ KernelOK(k, Detached) /\ Detached = {}
      /\ k.stat[Idle] = "INIT" /\ k.isr = 0 /\ k.lock = 0 /\ k.timers = <<>>
      /\ \A a \in Task : arg[a] = NoTask /\ pc[a] \notin Busy
  BY <1>1, BootFacts
<1>3. /\ KernelOK(k', Detached) /\ k'.defunct = k.defunct
      /\ k'.stat = [k.stat EXCEPT ![t] = "READY"]
      /\ k'.timers = <<>>
      /\ SameControl(k, k')
  BY <1>1, StartedOK
<1>4. /\ k'.cur = NoTask /\ k'.isr = 0 /\ k'.lock = 0
      /\ k'.stat[t] = "READY" /\ \A w \in Task \ {t} : k'.stat[w] = k.stat[w]
  BY <1>1, <1>2, <1>3 DEF KernelOK, Kernel, SameControl
<1>5. \A w \in Task : Touched(w) =>
               /\ \A a \in Task : arg[a] = w =>
                     pc[a] = "suspend1" /\ k'.stat[w] \in {"READY", "SUSPEND"}
               /\ k'.stat[w] = "CLOSE" => arg[w] = NoTask
  BY <1>2, IdleFacts
<1>6. BootOK' /\ CurOK' /\ CursorOK'
  BY <1>1, <1>2, <1>3, <1>4, IdleFacts DEF BootOK, CurOK, CursorOK
<1>7. pc' \in [Task -> Step]
  BY <1>1 DEF IndInv, TypeOK
<1> QED  BY <1>1, <1>3, <1>5, <1>6, <1>7, OutsideStep

LEMMA StartStep ==
    ASSUME IndInv, Start
    PROVE  IndInv'
<1> DEFINE q == TaskResume(TaskStarting(k, Idle), Idle)
<1>1. k.cur = NoTask /\ k' = Sched(q) /\ pc' = pc /\ arg' = arg
  BY DEF Start
<1>2. /\ KernelOK(k, Detached) /\ Detached = {} /\ Idle \in Task
      /\ k.stat[Idle] = "INIT" /\ k.isr = 0 /\ k.lock = 0 /\ k.timers = <<>>
      /\ \A a \in Task : arg[a] = NoTask /\ pc[a] \notin Busy
  BY <1>1, BootFacts, IdleFacts
<1>3. /\ KernelOK(q, Detached) /\ q.defunct = k.defunct
      /\ q.stat = [k.stat EXCEPT ![Idle] = "READY"]
      /\ q.timers = <<>>
      /\ SameControl(k, q)
  BY <1>1, <1>2, StartedOK
<1> HIDE DEF q
<1>4. /\ q.isr = 0 /\ q.lock = 0 /\ Idle \notin Detached
      /\ q.stat[Idle] = "READY" /\ \A w \in Task \ {Idle} : q.stat[w] = k.stat[w]
  BY <1>2, <1>3 DEF KernelOK, Kernel, SameControl
<1>5. /\ KernelOK(k', Detached)
      /\ SameLists(q, k') /\ SameTasks(q, k') /\ SameTimers(q, k')
      /\ k'.lock = q.lock /\ k'.isr = q.isr /\ k'.n = q.n
      /\ q.lock = 0 =>
            k'.cur \in Task /\ k'.cur \notin Detached /\ q.stat[k'.cur] = "READY"
  BY <1>1, <1>3, <1>4, SchedOK
<1>6. /\ k'.stat = q.stat /\ k'.timers = <<>> /\ k'.cur \in Task
      /\ k'.isr = 0 /\ k'.lock = 0 /\ k'.stat[k'.cur] = "READY"
  BY <1>3, <1>4, <1>5 DEF SameTasks, SameTimers
<1>7. \A w \in Task : Touched(w) =>
               /\ \A a \in Task : arg[a] = w =>
                     pc[a] = "suspend1" /\ k'.stat[w] \in {"READY", "SUSPEND"}
               /\ k'.stat[w] = "CLOSE" => arg[w] = NoTask
  BY <1>2, IdleFacts
<1>8. Detached' = Detached
  BY <1>1 DEF Detached
<1>9. BootOK' /\ CurOK' /\ CursorOK'
  BY <1>4, <1>5, <1>6, <1>8, IdleFacts DEF BootOK, CurOK, CursorOK
<1>10. pc' \in [Task -> Step]
  BY <1>1 DEF IndInv, TypeOK
<1> QED  BY <1>1, <1>5, <1>7, <1>9, <1>10, OutsideStep

-----------------------------------------------------------------------------
(* The invariant *)

LEMMA InitOK == Init => IndInv
<1> SUFFICES ASSUME Init PROVE IndInv
  OBVIOUS
<1>1. /\ k = Booted(BasePrio)
      /\ pc = [t \in Task |-> "app"] /\ arg = [t \in Task |-> NoTask]
  BY DEF Init
<1>2. "app" \in Step /\ "app" \notin Busy
  BY DEF Step, Busy, Resuming, Deleting
<1>3. Detached = {} /\ Dying = {}
  BY <1>1 DEF Detached, Dying, Deleting
<1>4. k \in Kernel
  <2> DEFINE f1 == [p \in Prio |-> <<>>]
             f2 == [o \in Obj |-> <<>>]
             f3 == [t \in Task |-> "INIT"]
             f4 == [t \in Task |-> {}]
             f5 == [t \in Task |-> "OS_OK"]
             f6 == [x \in Timer |-> 0]
  <2>1. k = [ready |-> f1, pend |-> f2, defunct |-> <<>>, bitmap |-> {},
             stat |-> f3, prio |-> BasePrio, mask |-> f4, error |-> f5,
             rem |-> Slice, cur |-> NoTask, lock |-> 0, timers |-> <<>>,
             act |-> {}, left |-> f6, isr |-> 0, n |-> ListHead]
    BY <1>1 DEF Booted
  <2>2. /\ f1 \in [Prio -> Seq(Task)] /\ f2 \in [Obj -> Seq(Task)]
        /\ f3 \in [Task -> Stat] /\ f4 \in [Task -> SUBSET Prio]
        /\ f5 \in [Task -> Errno]
    BY DEF Stat, Errno
  <2>3. /\ f6 \in [Timer -> Nat \cup {Overdue}]
        /\ BasePrio \in [Task -> Prio] /\ Slice \in [Task -> Nat \ {0}]
        /\ 0 \in 0..1 /\ 0 \in Nat
    BY KernelAssumption, TaskAssumption
  <2>4. <<>> \in Seq(Task) /\ <<>> \in Seq(Timer)
    OBVIOUS
  <2> HIDE DEF f1, f2, f3, f4, f5, f6
  <2> QED  BY <2>1, <2>2, <2>3, <2>4 DEF Kernel
<1>5. /\ \A p \in Prio : k.ready[p] = <<>>
      /\ \A o \in Obj : k.pend[o] = <<>>
      /\ \A t \in Task : k.stat[t] = "INIT"
      /\ k.defunct = <<>> /\ k.bitmap = {} /\ k.timers = <<>>
      /\ k.cur = NoTask /\ k.isr = 0 /\ k.lock = 0
  BY <1>1 DEF Booted
<1>6. IsInjective(<<>>) /\ ToSet(<<>>) = {}
  BY EmptyList DEF IsList
<1>7. KernelOK(k, Detached)
  BY <1>4, <1>5, <1>6
     DEF KernelOK, ReadyLists, PendingLists, DefunctList, Bitmap, Masks, TimerList
<1>8. TypeOK
  BY <1>1, <1>2, <1>4 DEF TypeOK
<1>9. CallsOK /\ TargetsOK /\ EndedOK
  BY <1>1, <1>2, KernelAssumption
     DEF CallsOK, TargetsOK, TargetOK, EndedOK, Busy
<1>10. BootOK /\ CurOK /\ CursorOK
  BY <1>1, <1>5, KernelAssumption DEF BootOK, CurOK, CursorOK
<1> QED  BY <1>7, <1>8, <1>9, <1>10 DEF IndInv

LEMMA NextOK ==
    ASSUME Risky = {}
    PROVE  IndInv /\ [Next]_vars => IndInv'
<1> SUFFICES ASSUME IndInv, [Next]_vars PROVE IndInv'
  OBVIOUS
<1>1. CASE \E t \in App : BootStartup(t)
  BY <1>1, BootStep
<1>2. CASE Start
  BY <1>2, StartStep
<1>3. ASSUME NEW t \in Task, Call(t) PROVE IndInv'
  <2>1. CASE Lock(t) \/ Unlock(t)
    BY <2>1, LockStep
  <2>2. CASE YieldCall(t)
    BY <2>2, YieldStep
  <2>3. CASE Exit(t)
    BY <2>3, ExitStep
  <2>4. CASE \E d \in Delay : Sleep(t, d)
    BY <2>4, SleepStep
  <2>5. CASE \E x \in UserTimer : StartTimer(t, x)
    BY <2>5, StartTimerStep
  <2>6. ASSUME NEW u \in Task,
               Startup(t, u) \/ Resume(t, u) \/ Suspend(t, u) \/ Delete(t, u)
        PROVE  IndInv'
    BY <2>6, StartupStep, ResumeStep, SuspendStep, DeleteStep
  <2>7. ASSUME NEW u \in Task, NEW p \in Levels,
               PrioritySetCall(t, u, p) \/ Reinit(t, u, p)
        PROVE  IndInv'
    BY <2>7, PrioritySetStep, ReinitStep
  <2> QED  BY <1>3, <2>1, <2>2, <2>3, <2>4, <2>5, <2>6, <2>7 DEF Call
<1>4. ASSUME NEW t \in Task, Continue(t) PROVE IndInv'
  BY <1>4, ScheduleStep, SleepReturnStep, ResumeFirstStep, ResumeSecondStep,
     SuspendRestStep, DeleteTimerStep, DeleteCloseStep, DeleteDefunctStep
     DEF Continue
<1>5. CASE IdleTest \/ IdleCleanup
  BY <1>5, IdleTestStep, CleanupStep
<1>6. CASE Isr
  BY <1>6, TickStep, TimerFireStep, TickEndStep, IsrResumeStep DEF Isr
<1>7. CASE UNCHANGED vars
  BY <1>7 DEF vars, IndInv, TypeOK, CallsOK, TargetsOK, TargetOK, EndedOK, BootOK,
              CurOK, CursorOK, Detached, Dying
<1> QED  BY <1>1, <1>2, <1>3, <1>4, <1>5, <1>6, <1>7 DEF Next

(* In every reachable state the lists, the bitmap and the timer list agree *)
(* with the states of the tasks, and a task that was preempted inside an   *)
(* API function finds the task it works on as it has left it.              *)
THEOREM Inductive ==
    ASSUME Risky = {}
    PROVE  Spec => []IndInv
<1>1. Init => IndInv
  BY InitOK
<1>2. IndInv /\ [Next]_vars => IndInv'
  BY NextOK
<1> QED  BY <1>1, <1>2, PTL DEF Spec

(* Every field of the kernel state keeps its type.                         *)
THEOREM TypeCorrect ==
    ASSUME Risky = {}
    PROVE  Spec => []TypeOK
<1>1. IndInv => TypeOK
  BY DEF IndInv
<1> QED  BY <1>1, Inductive, PTL

(* os_ready_task_priority_list holds exactly the READY tasks, each once,   *)
(* at its current_priority.                                                *)
THEOREM ReadyCorrect ==
    ASSUME Risky = {}
    PROVE  Spec => []ReadyExact
<1>1. IndInv => ReadyExact
  <2> SUFFICES ASSUME IndInv PROVE ReadyExact
    OBVIOUS
  <2>1. KernelOK(k, Detached)
    BY IdleFacts
  <2>2. ASSUME NEW u \in Detached, u \notin Dying PROVE k.stat[u] # "READY"
    <3>1. PICK a \in Task : arg[a] = u /\ pc[a] \in {"startup2", "resume2"}
      BY <2>2 DEF Detached, Dying, Deleting
    <3> QED  BY <3>1 DEF IndInv, TargetsOK, TargetOK, Resuming
  <2> QED  BY <2>1, <2>2 DEF ReadyExact, KernelOK, ReadyLists
<1> QED  BY <1>1, Inductive, PTL

(* A bit of the ready bitmap is set exactly when its list has a task.      *)
THEOREM BitmapCorrect ==
    ASSUME Risky = {}
    PROVE  Spec => []BitmapExact
<1>1. IndInv => BitmapExact
  BY DEF IndInv, KernelOK, Bitmap, BitmapExact
<1> QED  BY <1>1, Inductive, PTL

(* A task whose timer is in os_timer_list waits.                           *)
THEOREM ArmedCorrect ==
    ASSUME Risky = {}
    PROVE  Spec => []ArmedTasksWait
<1>1. IndInv => ArmedTasksWait
  BY DEF IndInv, KernelOK, TimerList, ArmedTasksWait
<1> QED  BY <1>1, Inductive, PTL

(* The assertion of os_task_timeout holds whenever the callback runs.      *)
THEOREM TimeoutCorrect ==
    ASSUME Risky = {}
    PROVE  Spec => []TimeoutOnlyWhenSuspended
<1>1. IndInv => TimeoutOnlyWhenSuspended
  BY DueFacts DEF TimeoutOnlyWhenSuspended
<1> QED  BY <1>1, Inductive, PTL

(* While the scheduler runs, the current task is READY or is about to call *)
(* os_sched, and os_sched always finds a task: the idle task is READY.     *)
THEOREM AlwaysSomeoneToRun ==
    ASSUME Risky = {}
    PROVE  Spec => [](k.cur # NoTask => /\ SchedHead(k) \in Task
                                        /\ k.stat[SchedHead(k)] = "READY")
<1>1. IndInv => (k.cur # NoTask => /\ SchedHead(k) \in Task
                                   /\ k.stat[SchedHead(k)] = "READY")
  BY IdleFacts, SchedHeadOK
<1> QED  BY <1>1, Inductive, PTL

-----------------------------------------------------------------------------
(* What a step of OsTask may never do: end the end of a task, or switch to *)
(* a task that is not the most urgent.  Both follow from IndInv and from   *)
(* what each action does to k.stat and k.cur.                              *)

(* A closed task is left alone but for os_task_init.                       *)
StaysClosed ==
    \A u \in Task : k.stat[u] = "CLOSE" => k'.stat[u] \in {"CLOSE", "INIT"}

(* A step that switches is one of os_sched, and no part of a delete.       *)
Switches ==
    /\ k.lock = 0 /\ MostUrgent(k')
    /\ Detached' = Detached /\ Dying' = Dying

StepOK == StaysClosed /\ (k'.cur = k.cur \/ Switches)

(* A step that changes the state of one task, which is not closed, or      *)
(* initializes a task.                                                     *)
LEMMA OneTask ==
    ASSUME IndInv, NEW u \in Task, NEW s \in Stat,
           k.stat[u] # "CLOSE" \/ s = "INIT",
           k'.stat = [k.stat EXCEPT ![u] = s] \/ k'.stat = k.stat,
           k'.cur = k.cur
    PROVE  StepOK
<1>1. k.stat \in [Task -> Stat]
  BY DEF IndInv, TypeOK, Kernel
<1> QED  BY <1>1 DEF StepOK, StaysClosed

LEMMA SameTask ==
    ASSUME k'.stat = k.stat, k'.cur = k.cur
    PROVE  StepOK
BY DEF StepOK, StaysClosed

(* A step of an interrupt. *)
LEMMA WokenOK ==
    ASSUME Woken(k, k'), pc' = pc, arg' = arg
    PROVE  StepOK
<1>1. Detached' = Detached /\ Dying' = Dying
  BY DEF Detached, Dying
<1> QED  BY <1>1 DEF StepOK, StaysClosed, Switches, Woken

-----------------------------------------------------------------------------
(* The steps of calls on other tasks *)

LEMMA CallsOnTasks ==
    ASSUME IndInv, Risky = {}, NEW t \in Task, NEW u \in Task,
           Startup(t, u) \/ Resume(t, u) \/ Suspend(t, u) \/ Delete(t, u)
    PROVE  StepOK
<1>0. KernelOK(k, Detached) /\ k \in Kernel
  BY IdleFacts DEF KernelOK
<1>1. CASE Startup(t, u)
  <2>1. k.stat[u] = "INIT" /\ k' = TaskStarting(k, u)
    BY <1>1 DEF Startup
  <2>2. k'.stat = [k.stat EXCEPT ![u] = "SUSPEND"] /\ SameControl(k, k')
    BY <1>0, <2>1, TaskStartingOK
  <2> QED  BY <2>1, <2>2, OneTask DEF SameControl, Stat
<1>2. CASE Resume(t, u) \/ Suspend(t, u)
  <2>1. k' = k
    BY <1>2 DEF Resume, Suspend
  <2> QED  BY <2>1, SameTask
<1>3. CASE Delete(t, u)
  <2>1. k' = SchedRemove(k, u)
    BY <1>3 DEF Delete
  <2>2. k'.stat = k.stat /\ k'.cur = k.cur
    BY <1>0, <2>1 DEF SchedRemove, TlistRemove, Kernel
  <2> QED  BY <2>2, SameTask
<1> QED  BY <1>1, <1>2, <1>3

LEMMA StepsOnTasks ==
    ASSUME IndInv, NEW t \in Task,
           \/ ResumeFirst(t) \/ ResumeSecond(t) \/ SuspendRest(t)
           \/ DeleteTimer(t) \/ DeleteClose(t) \/ DeleteDefunct(t)
    PROVE  StepOK
<1> DEFINE u == arg[t]
<1>0. KernelOK(k, Detached) /\ k \in Kernel
  BY IdleFacts DEF KernelOK
<1>1. Runs(t) /\ pc[t] \in Busy
  BY DEF ResumeFirst, ResumeSecond, SuspendRest, DeleteTimer, DeleteClose,
         DeleteDefunct, At, Busy, Resuming, Deleting
<1>2. /\ u \in Task /\ TargetOK(t) /\ arg[t] # NoTask
      /\ pc[t] = "suspend1" => u \notin Detached
      /\ pc[t] \in Deleting => arg[u] = NoTask
  BY <1>1, BusyFacts
<1>3. CASE ResumeFirst(t)
  <2>1. k' = ResumeUnlink(k, u)
    BY <1>3 DEF ResumeFirst
  <2>2. k.stat[u] = "SUSPEND"
    BY <1>2, <1>3 DEF TargetOK, Resuming, ResumeFirst
  <2>3. SameTasks(k, k') /\ SameControl(k, k')
    BY <1>0, <1>2, <2>1, <2>2, ResumeUnlinkOK
  <2> QED  BY <2>3, SameTask DEF SameTasks, SameControl
<1>4. CASE ResumeSecond(t)
  <2>1. k' = SchedInsert(k, u)
    BY <1>4 DEF ResumeSecond
  <2>2. k.stat[u] = "SUSPEND"
    BY <1>2, <1>4 DEF TargetOK, Resuming, ResumeSecond
  <2>3. k'.stat = [k.stat EXCEPT ![u] = "READY"] /\ k'.cur = k.cur
    BY <1>0, <2>1 DEF SchedInsert, Kernel
  <2> QED  BY <1>2, <2>2, <2>3, OneTask DEF Stat
<1>5. CASE SuspendRest(t)
  <2>1. k' = SuspendReady(k, u) /\ pc[t] = "suspend1"
    BY <1>5 DEF SuspendRest, At
  <2>2. k.stat[u] \in {"READY", "SUSPEND"} /\ u \notin Detached
    BY <1>2, <2>1 DEF TargetOK
  <2>3. k'.stat = [k.stat EXCEPT ![u] = "SUSPEND"] /\ SameControl(k, k')
    BY <1>0, <1>2, <2>1, <2>2, SuspendReadyOK
  <2> QED  BY <1>2, <2>2, <2>3, OneTask DEF SameControl, Stat
<1>6. CASE DeleteTimer(t)
  <2>1. k'.stat = k.stat /\ k'.cur = k.cur
    BY <1>0, <1>6 DEF DeleteTimer, TimerDelete, Kernel
  <2> QED  BY <2>1, SameTask
<1>7. CASE DeleteClose(t)
  <2>1. k' = [k EXCEPT !.stat[u] = "CLOSE"]
    BY <1>7 DEF DeleteClose
  <2>2. \A w \in Task : k.stat[w] = "CLOSE" => k'.stat[w] = "CLOSE"
    BY <1>0, <1>2, <2>1 DEF Kernel
  <2>3. k'.cur = k.cur
    BY <1>0, <2>1 DEF Kernel
  <2> QED  BY <2>2, <2>3 DEF StepOK, StaysClosed
<1>8. CASE DeleteDefunct(t)
  <2>1. k'.stat = k.stat /\ k'.cur = k.cur
    BY <1>0, <1>8 DEF DeleteDefunct, Defunct, Kernel
  <2> QED  BY <2>1, SameTask
<1> QED  BY <1>3, <1>4, <1>5, <1>6, <1>7, <1>8

-----------------------------------------------------------------------------
(* The steps of the current task on its own *)

LEMMA CallsOnSelf ==
    ASSUME IndInv, Risky = {}, NEW t \in Task,
           \/ Lock(t) \/ Unlock(t) \/ YieldCall(t) \/ Exit(t) \/ SleepReturn(t)
           \/ \E d \in Delay : Sleep(t, d)
           \/ \E x \in UserTimer : StartTimer(t, x)
    PROVE  StepOK
<1>0. KernelOK(k, Detached) /\ k \in Kernel
  BY IdleFacts DEF KernelOK
<1>1. CASE Lock(t) \/ Unlock(t)
  <2>1. k'.stat = k.stat /\ k'.cur = k.cur
    BY <1>0, <1>1 DEF Lock, Unlock, Kernel
  <2> QED  BY <2>1, SameTask
<1>2. CASE YieldCall(t)
  <2>1. k'.stat = k.stat /\ k'.cur = k.cur
    BY <1>0, <1>2 DEF YieldCall, Rotate, Kernel
  <2> QED  BY <2>1, SameTask
<1>3. CASE SleepReturn(t)
  <2>1. k'.stat = k.stat /\ k'.cur = k.cur
    BY <1>0, <1>3 DEF SleepReturn, Kernel
  <2> QED  BY <2>1, SameTask
<1>4. CASE Exit(t)
  <2>1. /\ k.stat[t] = "READY" /\ t \notin Detached /\ k' = TaskExit(k, t)
    BY <1>4, CallsFacts DEF Exit
  <2>2. k'.stat = [k.stat EXCEPT ![t] = "CLOSE"] /\ SameControl(k, k')
    BY <1>0, <2>1, TaskExitOK
  <2> QED  BY <2>1, <2>2, OneTask DEF SameControl, Stat
<1>5. ASSUME NEW d \in Delay, Sleep(t, d) PROVE StepOK
  <2> DEFINE q == SuspendReady(k, t)
  <2>1. /\ k.stat[t] = "READY" /\ t \notin Detached /\ k' = TimerStart(q, t, d)
    BY <1>5, CallsFacts DEF Sleep, TaskSuspend
  <2>2. KernelOK(q, Detached) /\ q \in Kernel
    <3>1. KernelOK(q, Detached)  BY <1>0, <2>1, SuspendReadyOK
    <3> QED  BY <3>1 DEF KernelOK
  <2>3. q.stat = [k.stat EXCEPT ![t] = "SUSPEND"] /\ q.cur = k.cur
    BY <1>0, <2>1, SuspendReadyOK DEF SameControl
  <2> HIDE DEF q
  <2>4. k'.stat = q.stat /\ k'.cur = q.cur
    BY <2>1, <2>2 DEF TimerStart, Kernel
  <2> QED  BY <2>1, <2>3, <2>4, OneTask DEF Stat
<1>6. ASSUME NEW x \in UserTimer, StartTimer(t, x) PROVE StepOK
  <2>1. k'.stat = k.stat /\ k'.cur = k.cur
    BY <1>0, <1>6 DEF StartTimer, TimerStart, Kernel
  <2> QED  BY <2>1, SameTask
<1> QED  BY <1>1, <1>2, <1>3, <1>4, <1>5, <1>6

LEMMA CallsOnAttributes ==
    ASSUME IndInv, Risky = {}, NEW t \in Task, NEW u \in Task, NEW p \in Levels,
           PrioritySetCall(t, u, p) \/ Reinit(t, u, p)
    PROVE  StepOK
<1>0. KernelOK(k, Detached) /\ p \in Prio
  BY IdleFacts, TaskAssumption
<1>1. CASE PrioritySetCall(t, u, p)
  <2>1. k' = PrioritySet(k, u, p) /\ u \notin Detached
    BY <1>1 DEF PrioritySetCall, Managed, Detached
  <2>2. k'.stat = k.stat /\ SameControl(k, k')
    BY <1>0, <2>1, PrioritySetOK
  <2> QED  BY <2>2, SameTask DEF SameControl
<1>2. CASE Reinit(t, u, p)
  <2>1. /\ k' = TaskInit(k, u, p) /\ k.stat[u] = "CLOSE"
        /\ u \notin ToSet(k.defunct)
    BY <1>2 DEF Reinit
  <2>2. k'.stat = [k.stat EXCEPT ![u] = "INIT"] /\ SameControl(k, k')
    BY <1>0, <2>1, TaskInitOK
  <2> QED  BY <2>2, OneTask DEF SameControl, Stat
<1> QED  BY <1>1, <1>2

(* os_sched at the end of a call. *)
LEMMA ScheduleOK ==
    ASSUME IndInv, NEW t \in Task, Schedule(t)
    PROVE  StepOK
<1>1. k' = Sched(k) /\ k.cur # NoTask
  BY RunsFacts DEF Schedule
<1>2. /\ KernelOK(k, Detached) /\ k.stat[Idle] = "READY" /\ Idle \notin Detached
  BY <1>1, IdleFacts
<1>3. /\ SameTasks(k, k')
      /\ k.lock # 0 => k'.cur = k.cur
      /\ k.lock = 0 =>
            /\ k'.cur \in Task /\ k'.cur \notin Detached /\ k.stat[k'.cur] = "READY"
            /\ \A u \in Task : u \notin Detached /\ k.stat[u] = "READY"
                                => k.prio[k'.cur] <= k.prio[u]
  BY <1>1, <1>2, SchedOK
<1>4. Detached' = Detached /\ Dying' = Dying
  <2>1. /\ arg' = arg
        /\ \A a \in Task : pc'[a] = pc[a] \/ (pc[a] \notin Busy /\ pc'[a] \notin Busy)
    BY DEF Schedule, Goto, IndInv, TypeOK, Busy, Resuming, Deleting
  <2> QED  BY <2>1 DEF Detached, Dying, Busy, Resuming, Deleting
<1> QED  BY <1>3, <1>4 DEF StepOK, StaysClosed, Switches, MostUrgent, SameTasks

-----------------------------------------------------------------------------
(* main() *)

LEMMA BootsOK ==
    ASSUME IndInv, Start \/ \E t \in App : BootStartup(t)
    PROVE  StepOK
<1>1. k.cur = NoTask
  BY DEF Start, BootStartup
<1>2. Idle \in Task /\ k.stat[Idle] = "INIT" /\ k.lock = 0
  BY <1>1, BootFacts, IdleFacts
<1>3. CASE Start
  <2> DEFINE q == TaskResume(TaskStarting(k, Idle), Idle)
  <2>1. k' = Sched(q) /\ pc' = pc /\ arg' = arg
    BY <1>3 DEF Start
  <2>2. /\ KernelOK(q, Detached) /\ q.stat = [k.stat EXCEPT ![Idle] = "READY"]
        /\ SameControl(k, q)
    BY <1>1, <1>2, StartedOK
  <2> HIDE DEF q
  <2>3. /\ q.stat[Idle] = "READY" /\ Idle \notin Detached /\ q.lock = 0
        /\ \A u \in Task : k.stat[u] = "CLOSE" => q.stat[u] = "CLOSE"
    BY <1>2, <2>2, IdleFacts DEF SameControl, IndInv, TypeOK, Kernel
  <2>4. /\ SameTasks(q, k')
        /\ q.lock = 0 =>
              /\ k'.cur \in Task /\ k'.cur \notin Detached
              /\ q.stat[k'.cur] = "READY"
              /\ \A u \in Task : u \notin Detached /\ q.stat[u] = "READY"
                                  => q.prio[k'.cur] <= q.prio[u]
    BY <2>1, <2>2, <2>3, SchedOK
  <2>5. Detached' = Detached /\ Dying' = Dying
    BY <2>1 DEF Detached, Dying
  <2> QED
    BY <1>2, <2>3, <2>4, <2>5 DEF StepOK, StaysClosed, Switches, MostUrgent, SameTasks
<1>4. ASSUME NEW t \in App, BootStartup(t) PROVE StepOK
  <2>1. /\ k.stat[t] = "INIT" /\ t \in Task
        /\ k' = TaskResume(TaskStarting(k, t), t)
    BY <1>4 DEF BootStartup, App
  <2>2. k'.stat = [k.stat EXCEPT ![t] = "READY"] /\ SameControl(k, k')
    BY <1>1, <2>1, StartedOK
  <2> QED  BY <2>1, <2>2, OneTask DEF SameControl, Stat
<1> QED  BY <1>3, <1>4

-----------------------------------------------------------------------------
(* Every step *)

LEMMA StepsOK ==
    ASSUME Risky = {}, IndInv, [Next]_vars
    PROVE  StepOK
<1>1. CASE Start \/ \E t \in App : BootStartup(t)
  BY <1>1, BootsOK
<1>2. ASSUME NEW t \in Task, Call(t) PROVE StepOK
  BY <1>2, CallsOnTasks, CallsOnSelf, CallsOnAttributes DEF Call
<1>3. ASSUME NEW t \in Task, Continue(t) PROVE StepOK
  BY <1>3, StepsOnTasks, CallsOnSelf, ScheduleOK DEF Continue
<1>4. CASE IdleTest \/ IdleCleanup
  <2>1. k'.stat = k.stat /\ k'.cur = k.cur
    BY <1>4 DEF IdleTest, IdleCleanup, IndInv, TypeOK, Kernel
  <2> QED  BY <2>1, SameTask
<1>5. CASE Tick
  BY <1>5, TickFacts, WokenOK DEF Tick
<1>6. CASE TimerFire
  BY <1>6, TimerFireFacts, WokenOK DEF TimerFire
<1>7. CASE TickEnd
  <2>1. k'.stat = k.stat /\ k'.cur = k.cur
    BY <1>7 DEF TickEnd, IsrLeave, IndInv, TypeOK, Kernel
  <2> QED  BY <2>1, SameTask
<1>8. ASSUME NEW u \in App, IsrResume(u) PROVE StepOK
  <2>1. /\ k.cur # NoTask /\ \A a \in Task : arg[a] # u
        /\ k' = Sched(TaskResume(k, u)) /\ pc' = pc /\ arg' = arg /\ u \in Task
    BY <1>8 DEF IsrResume, Managed, App
  <2>2. KernelOK(k, Detached) /\ k.stat[Idle] = "READY" /\ Idle \notin Detached
    BY <2>1, IdleFacts
  <2>3. Woken(k, k')
    BY <2>1, <2>2, ResumeAndSched
  <2> QED  BY <2>1, <2>3, WokenOK
<1>9. CASE UNCHANGED vars
  BY <1>9, SameTask DEF vars
<1> QED  BY <1>1, <1>2, <1>3, <1>4, <1>5, <1>6, <1>7, <1>8, <1>9 DEF Next, Isr

(* A task that os_task_delete or os_task_exit has closed stays closed until *)
(* os_task_init: no resume, timeout or interrupt brings it back.           *)
THEOREM ClosedStays ==
    ASSUME Risky = {}
    PROVE  Spec => ClosedIsFinal
<1>1. IndInv /\ [Next]_vars =>
          [\A t \in Task : k.stat[t] = "CLOSE" => k'.stat[t] \in {"CLOSE", "INIT"}]_vars
  BY StepsOK DEF StepOK, StaysClosed
<1> QED  BY <1>1, Inductive, PTL DEF Spec, ClosedIsFinal

(* os_sched switches to a READY task of the most urgent level that has     *)
(* one, and only while the scheduler is not locked.                        *)
THEOREM SwitchCorrect ==
    ASSUME Risky = {}
    PROVE  Spec => SwitchToMostUrgent
<1>1. IndInv /\ IndInv' /\ [Next]_vars =>
          [k'.cur # k.cur =>
              /\ k.lock = 0 /\ k'.stat[k'.cur] = "READY"
              /\ \A t \in Task \ Dying' :
                    k'.stat[t] = "READY" => k'.prio[k'.cur] <= k'.prio[t]]_vars
  <2> SUFFICES ASSUME IndInv, IndInv', [Next]_vars, k'.cur # k.cur
               PROVE  /\ k.lock = 0 /\ k'.stat[k'.cur] = "READY"
                      /\ \A t \in Task \ Dying' :
                            k'.stat[t] = "READY" => k'.prio[k'.cur] <= k'.prio[t]
    OBVIOUS
  <2>1. Switches
    BY StepsOK DEF StepOK
  <2>2. ASSUME NEW u \in Task \ Dying', k'.stat[u] = "READY"
        PROVE  u \notin Detached
    <3> SUFFICES ASSUME u \in Detached' PROVE FALSE
      BY <2>1 DEF Switches
    <3>1. PICK a \in Task : arg'[a] = u /\ pc'[a] \in {"startup2", "resume2"}
      BY <2>2 DEF Detached, Dying, Deleting
    <3> QED  BY <2>2, <3>1 DEF IndInv, TargetsOK, TargetOK, Resuming
  <2> QED  BY <2>1, <2>2 DEF Switches, MostUrgent
<1> QED  BY <1>1, Inductive, PTL DEF Spec, SwitchToMostUrgent
=============================================================================
