---------------------------- MODULE OsObjectsInv ----------------------------
(***************************************************************************)
(* The inductive invariants of OsObjects: what the functions of the        *)
(* objects may rely on between two of their critical sections.             *)
(***************************************************************************)
EXTENDS OsObjects, KernelInv

-----------------------------------------------------------------------------
(* The tasks that wait *)

(* The processor is with a task that waits only until its os_sched.        *)
CurOK == k.stat[k.cur] = "SUSPEND" => k.cur \in resched

(* Task t waits for o, in the function that puts it there.                 *)
Place(t, o) ==
    \/ o = Recv /\ pc[t] = "getBack"
    \/ o = Send /\ pc[t] = "putBack"
    \/ o = Queue /\ pc[t] = "mqGetBack"
    \/ o = Event /\ pc[t] = "evBack"
    \/ o = Pool /\ pc[t] = "allocBack"
    \/ o \in Mutex /\ pc[t] = "mxBack" /\ val[t] = o

(* A task in a pending list waits for that object, and the error it will   *)
(* see has not been written yet.                                           *)
PlacesOK ==
    \A o \in Obj : \A t \in Waiters(o) : Place(t, o) /\ k.error[t] = "OS_OK"

(* A suspended task sleeps or is in a pending list.                        *)
SleepersOK ==
    \A t \in Task :
        k.stat[t] = "SUSPEND" =>
            pc[t] = "slept" \/ \E o \in Obj : t \in Waiters(o)

(* A task has a message to send, asks for bits of the event, and is at the *)
(* list it empties; that of the pool it empties in another way.  The idle  *)
(* task calls no function.                                                 *)
AsksOK ==
    /\ \A t \in Task :
          /\ todo[t] \in Seq(Obj \ {Pool})
          /\ pc[t] = "putBack" => val[t] \in Msg
          /\ pc[t] = "evBack" => val[t] \in [set : Bits, info : Info]
          /\ pc[t] = "resumeNext" => todo[t] # <<>>
    /\ pc[Idle] = "app"

(* A mutex is taken when it has an owner, who gets a priority back.        *)
OwnersOK ==
    /\ mx \in [Mutex -> [value : Nat, owner : Task \cup {NoTask}, hold : Nat,
                         orig : Prio \cup {NoPrio}]]
    /\ \A m \in Mutex :
          /\ mx[m].value = IF mx[m].owner = NoTask THEN 1 ELSE 0
          /\ mx[m].owner # NoTask => mx[m].orig \in Prio

WaitInv == /\ WaitTypeOK(Step) /\ mb \in Mailbox
           /\ Works(k) /\ CurOK /\ PlacesOK /\ SleepersOK /\ AsksOK /\ OwnersOK
-----------------------------------------------------------------------------
(* The mutexes *)

(* A task that waits has not been handed the mutex, and a task that does   *)
(* not wait any more has it exactly when its error says so.                *)
MutexInv ==
    /\ HoldExact
    /\ stack \in [Task -> Seq(Mutex)]
    /\ \A m \in Mutex : mx[m].hold = 0 <=> mx[m].owner = NoTask
    /\ \A t \in Task : pc[t] = "mxBack" =>
          /\ val[t] \in Mutex
          /\ IF t \in Waiters(val[t]) THEN mx[val[t]].owner \notin {t, NoTask}
             ELSE k.error[t] = "OS_OK" <=> mx[val[t]].owner = t

(* The first mutex a task has got keeps the priority it was started with.  *)
PrioInv ==
    /\ PriorityRestored
    /\ \A t \in Task :
          IF stack[t] # <<>> THEN mx[stack[t][1]].orig = BasePrio[t]
          ELSE \A m \in Mutex : Handed(t, m) => mx[m].orig = BasePrio[t]

-----------------------------------------------------------------------------
(* The priorities, in an application that is OneForever                    *)

(* The owner gets its own priority back; it has that of its most urgent    *)
(* waiter meanwhile, and its own when nobody waits.                        *)
OwnerRaised(m, o) ==
    /\ mx[m].orig = BasePrio[o]
    /\ \A t \in Waiters(m) : k.prio[o] <= k.prio[t]
    /\ Waiters(m) = {} => k.prio[o] = BasePrio[o]

(* Those who wait do so in the order of their priorities, without a timer. *)
MutexRaised(m) == /\ mx[m].owner # NoTask => OwnerRaised(m, mx[m].owner)
                  /\ Ordered(k.pend[m], k.prio)
                  /\ Waiters(m) \cap ToSet(k.timers) = {}

(* A task owns one mutex at most, and none while it waits for one.         *)
OneEach == \A m, n \in Mutex :
    /\ mx[m].owner \notin Waiters(n)
    /\ mx[m].owner = mx[n].owner => m = n \/ mx[m].owner = NoTask

RaisedInv == (\A m \in Mutex : MutexRaised(m)) /\ OneEach /\ PriorityRestored

(* Nobody is more urgent than the task that runs, unless it is about to    *)
(* call os_sched.                                                          *)
UrgentInv == k.cur \notin resched =>
    \A t \in Task : k.stat[t] = "READY" => k.prio[k.cur] <= k.prio[t]

InversionInv ==
    OneForever => /\ RaisedInv /\ UrgentInv
                  /\ \A t \in Task : pc[t] \notin {"resume", "resumeNext"}

-----------------------------------------------------------------------------
(* The mailbox *)

(* The ring holds entry messages, from out to in, and a task that sends or *)
(* has received one has a message.                                         *)
MailInv ==
    /\ mb \in Mailbox
    /\ mb.in = (mb.out + mb.entry) % Size
    /\ \A i \in 1..mb.entry : mb.pool[(mb.out + i - 1) % Size] \in Msg
    /\ \A t \in Task : pc[t] \in {"putBack", "got"} => val[t] \in Msg

-----------------------------------------------------------------------------
(* The memory pool, when nobody waits for a block with a timeout           *)

(* suspend_task_count is exact because no timer takes a task out of the    *)
(* list: nobody who waits for a block has one.                             *)
PoolInv ==
    /\ SuspendCountExact
    /\ {"free", "suspended"} \subseteq DOMAIN mp /\ mp.free \in Nat
    /\ \A t \in Task : pc[t] = "allocBack" => arg[t] = Forever
    /\ Waiters(Pool) \cap ToSet(k.timers) = {}

(* The free list has no cycle, and holds the blocks that nobody has.       *)
BlockInv ==
    /\ mp \in [list : Block \cup {Nil}, next : [Block -> Block \cup {Nil, Pool}],
               free : Nat, suspended : Int]
    /\ own \in [Task -> SUBSET Block]
    /\ Leads(mp.next, mp.list, Nil, FreeList)
    /\ BlocksExact

-----------------------------------------------------------------------------
(* The message queue                                                       *)

(* The nodes are those of the queue q, of the free list f and the set H of *)
(* those in somebody's hands; a node of the queue has a message.           *)
Parted(m, H, q, f) ==
    /\ m \in [next : [Node -> Link], head : Link, tail : Link, free : Link,
              entry : Nat, data : [Node -> Msg \cup {NoVal}]]
    /\ Leads(m.next, m.head, Null, q) /\ Leads(m.next, m.free, Null, f)
    /\ ToSet(q) \cap ToSet(f) = {} /\ H \cap (ToSet(q) \cup ToSet(f)) = {}
    /\ ToSet(q) \cup ToSet(f) \cup H = Node
    /\ Len(q) = m.entry /\ m.tail = IF q = <<>> THEN Null ELSE q[Len(q)]
    /\ \A x \in ToSet(q) : m.data[x] \in Msg

HoldStep == {"mqLink", "mqUrgent", "mqCopy"}
InHands(nd) == {nd[t] : t \in Task} \ {Null}

(* A task between its two critical sections has a node of its own, with a  *)
(* message; one that it will link at the end has no successor.             *)
Handled(m, nd, p) ==
    /\ nd \in [Task -> Link]
    /\ \A t, u \in Task : t # u /\ nd[t] # Null => nd[t] # nd[u]
    /\ \A t \in Task : nd[t] # Null <=> p[t] \in HoldStep
    /\ \A t \in Task : nd[t] # Null => m.data[nd[t]] \in Msg
    /\ \A t \in Task : p[t] = "mqLink" => m.next[nd[t]] = Null

NodeInv == /\ Parted(mq, InHands(node), MsgChain(mq.head), MsgChain(mq.free))
           /\ Handled(mq, node, pc)
=============================================================================
