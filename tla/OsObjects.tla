----------------------------- MODULE OsObjects ------------------------------
(***************************************************************************)
(* An application that uses a mailbox, a message queue, mutexes, an event  *)
(* and a memory pool of one kernel: a task has one node and one timer for  *)
(* all its waits.                                                          *)
(***************************************************************************)
EXTENDS OsMbox, OsMqueue, OsMutex, OsEvent, OsMpool

CONSTANTS
    Uses,           \* the sets of functions an application may use
    EventTimeout,   \* the timeouts it passes to os_event_get
    PoolTimeout     \* and to os_mpool_alloc

ASSUME ObjectsAssumption ==
    /\ \A i, j \in 1..5 :
          LET o == <<Recv, Send, Queue, Event, Pool>>
          IN  o[i] = o[j] => i = j
    /\ {Recv, Send, Queue, Event, Pool} \cap Mutex = {}
    /\ EventTimeout \subseteq 0..Forever /\ PoolTimeout \subseteq 0..Forever

VARIABLE ops        \* what this application uses, for ever
vars == <<k, pc, resched, arg, since, val, todo, mb, mq, node, mx, stack,
          evset, mp, own, ops>>

Step == WaitStep \cup MboxStep \cup MqueueStep \cup MutexStep \cup EventStep
        \cup MpoolStep

TypeOK == /\ WaitTypeOK(Step)
          /\ mb \in Mailbox /\ mq \in MsgQueue /\ node \in [Task -> Link]
          /\ mx \in [Mutex -> MutexState] /\ stack \in [Task -> Seq(Mutex)]
          /\ evset \subseteq Bit
          /\ mp \in MemPool /\ own \in [Task -> SUBSET Block] /\ ops \in Uses

Init == /\ WaitInit /\ MboxInit /\ MqueueInit /\ MutexInit /\ EventInit
        /\ MpoolInit /\ ops \in Uses

SameMbox == UNCHANGED mb
SameMqueue == UNCHANGED <<mq, node>>
SameMutexes == UNCHANGED <<mx, stack>>
SameEvent == UNCHANGED evset
SameMpool == UNCHANGED <<mp, own>>

Mbox(t) ==
    /\ "mbox" \in ops
    /\ \/ MboxCall(t, Timeout) \/ MboxContinue(t)
       \/ "empty" \in ops /\ (MboxReset(t) \/ MboxDelete(t))
    /\ SameMqueue /\ SameMutexes /\ SameEvent /\ SameMpool /\ UNCHANGED ops

MboxIsr == /\ {"mbox", "isr"} \subseteq ops
           /\ \E v \in Msg : MboxIsrPut(v)
           /\ SameMqueue /\ SameMutexes /\ SameEvent /\ SameMpool /\ UNCHANGED ops

Mqueue(t) ==
    /\ "mqueue" \in ops
    /\ \/ MqueueCall(t, Timeout) \/ MqueueContinue(t)
       \/ "empty" \in ops /\ (MqueueReset(t) \/ MqueueDelete(t))
    /\ SameMbox /\ SameMutexes /\ SameEvent /\ SameMpool /\ UNCHANGED ops

MqueueIsr == /\ {"mqueue", "isr"} \subseteq ops
             /\ \E v \in Msg : MqueueIsrPut(v)
             /\ SameMbox /\ SameMutexes /\ SameEvent /\ SameMpool /\ UNCHANGED ops

Mutexes(t) == /\ "mutex" \in ops
              /\ MutexCall(t, ops) \/ MutexContinue(t)
              /\ SameMbox /\ SameMqueue /\ SameEvent /\ SameMpool /\ UNCHANGED ops

Events(t) == /\ "event" \in ops
             /\ EventCall(t, EventTimeout) \/ EventContinue(t)
             /\ SameMbox /\ SameMqueue /\ SameMutexes /\ SameMpool /\ UNCHANGED ops

EventIsr == /\ "event" \in ops
            /\ \E s \in Bits : EventIsrPut(s)
            /\ SameMbox /\ SameMqueue /\ SameMutexes /\ SameMpool /\ UNCHANGED ops

Mpool(t) == /\ "mpool" \in ops
            /\ MpoolCall(t, PoolTimeout) \/ MpoolContinue(t)
            /\ SameMbox /\ SameMqueue /\ SameMutexes /\ SameEvent /\ UNCHANGED ops

MpoolIsr == /\ "mpool" \in ops
            /\ \E b \in Block : MpoolIsrFree(b)
            /\ SameMbox /\ SameMqueue /\ SameMutexes /\ SameEvent /\ UNCHANGED ops

SameObjects == /\ SameMbox /\ SameMqueue /\ SameMutexes /\ SameEvent /\ SameMpool
               /\ UNCHANGED ops

KernelWork == /\ \/ \E t \in Task : \/ Schedule(t) \/ ResumeCheck(t) \/ ResumeNext(t)
                                    \/ SleepReturn(t)
                                    \/ "sleep" \in ops /\ Sleep(t, 1)
                 \/ Clock
              /\ SameObjects

Next == \/ \E t \in Task : \/ Mbox(t) \/ Mqueue(t) \/ Mutexes(t) \/ Events(t)
                           \/ Mpool(t)
        \/ MboxIsr \/ MqueueIsr \/ EventIsr \/ MpoolIsr
        \/ KernelWork

Spec == Init /\ [][Next]_vars

(* Ticks keep coming and their handler returns. *)
FairSpec == /\ Spec
            /\ WF_vars(Tick /\ SameObjects)
            /\ WF_vars((TaskTimerFire \/ TickEnd) /\ SameObjects)

(* A task that gets the processor again and again executes its next kernel *)
(* instruction, and releases the mutex it holds at last.                   *)
FairTasksSpec ==
    /\ FairSpec
    /\ \A t \in App :
          /\ SF_vars(\/ (Schedule(t) \/ SleepReturn(t)) /\ SameObjects
                     \/ /\ MutexContinue(t)
                        /\ SameMbox /\ SameMqueue /\ SameEvent /\ SameMpool
                        /\ UNCHANGED ops)
          /\ SF_vars(/\ \E m \in Mutex : MutexReleaseLast(t, m)
                     /\ SameMbox /\ SameMqueue /\ SameEvent /\ SameMpool
                     /\ UNCHANGED ops)

-----------------------------------------------------------------------------
(* Properties *)

(* A message is never left to a receiver that sleeps, nor a slot to a      *)
(* sender.                                                                 *)
NobodySleepsOnMessages == MailWakesReceiver /\ MessageWakesReceiver

(* A call with a finite timeout does not begin to wait again for ever,     *)
(* however often another task takes the message it was resumed for.        *)
TimedCallsEnd ==
    \A t \in App :
        []<>(arg[t] # Forever /\ k.stat[t] = "SUSPEND") => []<>(pc[t] = "app")

(* What os_event_put clears for one task it gives to no other.             *)
ConsumedOnce == [][BitsConsumedOnce]_vars

(* In an application that holds one mutex at a time, waits for it with     *)
(* OS_WAIT_FOREVER and deletes no object (the tasks that os_*_delete       *)
(* resumes get no os_sched), no task that is less urgent than a waiter     *)
(* runs while the owner could.  The lists have to be sorted by priority:   *)
(* the next owner is not raised for those that still wait.                 *)
OneForever ==
    /\ Flag = "OS_IPC_PRIO"
    /\ "mutex" \in ops
    /\ {"nest", "again", "timed", "delete", "empty", "event", "mpool"} \cap ops = {}
InversionBounded == OneForever => NoPriorityInversion

(* In such an application the most urgent task gets the mutex it waits     *)
(* for, whatever the tasks between it and the owner do.                    *)
MostUrgentGetsMutex ==
    \A t \in {u \in App : \A v \in Task : BasePrio[u] <= BasePrio[v]} :
        (OneForever /\ t \in WaitsForMutex) ~> (t \notin WaitsForMutex)
=============================================================================
