--------------------------- MODULE OsSwitchProofs ---------------------------
(***************************************************************************)
(* SwitchInv of OsSwitch is an invariant for every set of tasks and every  *)
(* depth of interrupts, and with it RunsCurrent and ContextsKept.          *)
(***************************************************************************)
EXTENDS OsSwitch, TLAPS

USE SwitchAssumption

LEMMA InitSwitch == Init => SwitchInv
<1> SUFFICES ASSUME Init PROVE SwitchInv
  OBVIOUS
<1>1. TypeOK
  <2>1. {os_current_task, from, to, context} \subseteq Task \cup {NoTask}
    BY DEF Init
  <2>2. saved \in [Task -> Task \cup {NoTask}]
    BY DEF Init
  <2>3. 0 \in 0..MaxNest  OBVIOUS
  <2> QED  BY <2>1, <2>2, <2>3 DEF Init, TypeOK
<1>2. ContextsKept  BY DEF Init, ContextsKept
<1> QED  BY <1>1, <1>2 DEF Init, SwitchInv, Started

(* os_sched, called by a task or by an interrupt service routine. *)
LEMMA SchedSwitch ==
    ASSUME SwitchInv, NEW t \in Task, Sched(t), Started,
           UNCHANGED <<context, saved, level, nest, masked>>
    PROVE  SwitchInv'
<1>1. TypeOK'
  BY DEF SwitchInv, TypeOK, Sched, From
<1>2. context' = from' /\ to' = os_current_task' /\ flag' /\ pended'
  <2>1. CASE flag
    BY <2>1 DEF SwitchInv, Sched, From
  <2>2. CASE ~flag
    <3>1. context = os_current_task  BY <2>2 DEF SwitchInv
    <3> QED  BY <2>2, <3>1 DEF Sched, From
  <2> QED  BY <2>1, <2>2 DEF SwitchInv, TypeOK
<1> QED  BY <1>1, <1>2 DEF SwitchInv, ContextsKept, Started, Sched

(* The part of PendSV_Handler that nothing interrupts. *)
LEMMA HandleSwitch ==
    ASSUME SwitchInv, Handle PROVE SwitchInv'
<1> USE DEF SwitchInv, Handle
<1>1. CASE flag
  <2>1. /\ os_current_task \in Task /\ to = os_current_task /\ context = from
        /\ saved \in [Task -> Task \cup {NoTask}]
    BY <1>1 DEF TypeOK, Started
  <2>2. Save = [t \in Task |-> t]
    <3>1. CASE from = NoTask
      BY <2>1, <3>1 DEF Save, ContextsKept
    <3>2. CASE from # NoTask
      BY <2>1, <3>2 DEF Save, ContextsKept, TypeOK
    <3> QED  BY <3>1, <3>2
  <2>3. context' = os_current_task /\ saved' = [t \in Task |-> IF t = to THEN NoTask ELSE t]
    BY <1>1, <2>1, <2>2
  <2>4. TypeOK' /\ ContextsKept'
    BY <2>1, <2>3 DEF TypeOK, ContextsKept
  <2> QED  BY <1>1, <2>1, <2>3, <2>4 DEF Started
<1>2. CASE ~flag
  <2>1. context = os_current_task /\ context # NoTask
    BY <1>2 DEF Started
  <2>2. TypeOK' /\ ContextsKept'
    BY <1>2 DEF TypeOK, ContextsKept
  <2> QED  BY <1>2, <2>1, <2>2 DEF Started
<1> QED  BY <1>1, <1>2 DEF TypeOK

LEMMA NextSwitch == SwitchInv /\ [Next]_vars => SwitchInv'
<1> SUFFICES ASSUME SwitchInv, [Next]_vars PROVE SwitchInv'
  OBVIOUS
<1>1. ASSUME NEW t \in Task, os_sched_start(t) PROVE SwitchInv'
  BY <1>1 DEF SwitchInv, os_sched_start, TypeOK, ContextsKept, Started
<1>2. ASSUME NEW t \in Task, TaskSched(t) PROVE SwitchInv'
  <2>1. Started  BY <1>2 DEF TaskSched, TaskRuns, SwitchInv
  <2> QED  BY <1>2, <2>1, SchedSwitch DEF TaskSched
<1>3. ASSUME NEW t \in Task, InterruptSched(t) PROVE SwitchInv'
  <2>1. Started  BY <1>3 DEF InterruptSched, SwitchInv
  <2> QED  BY <1>3, <2>1, SchedSwitch DEF InterruptSched
<1>4. CASE Critical
  BY <1>4 DEF Critical, TaskRuns, SwitchInv, TypeOK, ContextsKept, Started, switch
<1>5. CASE Interrupt
  BY <1>5 DEF Interrupt, SwitchInv, TypeOK, ContextsKept, Started, switch
<1>6. CASE InterruptReturn
  BY <1>6 DEF InterruptReturn, SwitchInv, TypeOK, ContextsKept, Started, switch
<1>7. CASE PendSV
  BY <1>7 DEF PendSV, SwitchInv, TypeOK, ContextsKept, Started, switch
<1>8. CASE Handle
  BY <1>8, HandleSwitch
<1>9. CASE PendSVReturn
  BY <1>9 DEF PendSVReturn, SwitchInv, TypeOK, ContextsKept, Started, switch
<1>10. CASE UNCHANGED vars
  BY <1>10 DEF vars, SwitchInv, TypeOK, ContextsKept, Started, switch
<1> QED
  BY <1>1, <1>2, <1>3, <1>4, <1>5, <1>6, <1>7, <1>8, <1>9, <1>10 DEF Next

LEMMA SwitchInvariant == Spec => []SwitchInv
BY InitSwitch, NextSwitch, PTL DEF Spec

(* When task code runs and no switch is pended, it is that of              *)
(* os_current_task on its own stack: the last os_sched has won, however    *)
(* many came before PendSV_Handler and wherever they interrupted it.       *)
THEOREM SwitchIsToCurrent == Spec => []RunsCurrent
<1>1. SwitchInv => RunsCurrent
  BY DEF SwitchInv, RunsCurrent
<1> QED  BY <1>1, SwitchInvariant, PTL

(* No task's registers are lost or restored for another task.              *)
THEOREM SwitchKeepsContexts == Spec => []ContextsKept
<1>1. SwitchInv => ContextsKept
  BY DEF SwitchInv
<1> QED  BY <1>1, SwitchInvariant, PTL
=============================================================================
