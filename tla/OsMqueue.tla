------------------------------ MODULE OsMqueue ------------------------------
(***************************************************************************)
(* A message queue of os_mqueue.c: the nodes of its pool are linked        *)
(* through their field next, in the queue from msg_queue_head to           *)
(* msg_queue_tail or in the list msg_queue_free.  A message is copied      *)
(* between two critical sections: node[t] is the node that task t has      *)
(* taken out of one list and not yet put in the other.  The node is t's    *)
(* own meanwhile, so that the copy is part of the step before it (put) or  *)
(* after it (get).  The tasks that wait are in k.pend[Queue].              *)
(***************************************************************************)
EXTENDS OsWait, Chains

CONSTANTS Queue, Node, Null

ASSUME MqueueAssumption ==
    Queue \in Obj /\ Node # {} /\ IsFiniteSet(Node) /\ Null \notin Node

VARIABLES mq,       \* [next, head, tail, free, entry, data]
          node
mqvars == <<mq, node>>

MqueueStep == {"mqLink", "mqUrgent", "mqGetBack", "mqCopy"}

Link == Node \cup {Null}

MsgQueue == [next : [Node -> Link], head : Link, tail : Link, free : Link,
             entry : 0..Cardinality(Node), data : [Node -> Msg \cup {NoVal}]]

(* os_mqueue_init builds the free list: s is the order of its nodes.       *)
MqueueInit ==
    LET s == SetToSeq(Node)
    IN  /\ mq = [next |-> Threaded(s, Null),
                 head |-> Null, tail |-> Null, free |-> s[1],
                 entry |-> 0, data |-> [x \in Node |-> NoVal]]
        /\ node = [t \in Task |-> Null]

MqueueAlive == Alive(Queue)

MsgChain(p) == Chain(mq.next, p, Null)

-----------------------------------------------------------------------------
(* os_mqueue_put and os_mqueue_put_urgent; without a free node the result  *)
(* is OS_EFULL and nothing changes.                                        *)

FilledKeepsFree(v, n) == [mq EXCEPT !.next[mq.free] = n, !.data[mq.free] = v]  \* mutant

(* "move free list pointer", and the copy into the node *)
Filled(v, n) == [mq EXCEPT !.free = mq.next[mq.free],
                           !.next[mq.free] = n, !.data[mq.free] = v]

LinkTail(m, x) ==
    [m EXCEPT !.next = IF m.tail # Null THEN [@ EXCEPT ![m.tail] = x] ELSE @,
              !.tail = x,
              !.head = IF @ = Null THEN x ELSE @,
              !.entry = @ + 1]

LinkHead(m, x) ==
    [m EXCEPT !.next[x] = m.head, !.head = x,
              !.tail = IF @ = Null THEN x ELSE @,
              !.entry = @ + 1]

MqueuePut(t, v, s) ==
    /\ Calls(t) /\ MqueueAlive /\ mq.free # Null
    /\ mq' = Filled(v, IF s = "mqLink" THEN Null ELSE mq.next[mq.free])
    /\ node' = [node EXCEPT ![t] = mq.free]
    /\ Goto(t, s)
    /\ UNCHANGED <<k, resched, arg, since, val, todo>>

Linked(t, s, m) ==
    /\ At(t, s)
    /\ mq' = m
    /\ node' = [node EXCEPT ![t] = Null]
    /\ k' = ResumeHead(k, Queue)
    /\ IF k.pend[Queue] # <<>> THEN ThenSched(t) ELSE UNCHANGED resched
    /\ Finish(t)

MqueueLink(t) == Linked(t, "mqLink", LinkTail(mq, node[t]))

MqueueLinkUrgent(t) == Linked(t, "mqUrgent", LinkHead(mq, node[t]))

(* A handler of an interrupt runs through without a task in between.       *)
MqueueIsrPut(v) ==
    /\ k.isr = 0 /\ MqueueAlive /\ mq.free # Null
    /\ mq' = LinkTail(Filled(v, Null), mq.free)
    /\ k' = IsrResumeHead(k, Queue)
    /\ UNCHANGED <<pc, resched, arg, since, val, todo, node>>

-----------------------------------------------------------------------------
(* os_mqueue_get; OS_NO_WAIT on an empty queue is OS_TIMEOUT and changes   *)
(* nothing.                                                                *)

UnlinkHead(t) ==
    /\ mq.entry > 0
    /\ mq' = [mq EXCEPT !.head = mq.next[mq.head],
                        !.tail = IF @ = mq.head THEN Null ELSE @,
                        !.entry = @ - 1]
    /\ node' = [node EXCEPT ![t] = mq.head]
    /\ Goto(t, "mqCopy")
    /\ UNCHANGED <<k, resched, arg, since, val, todo>>

MqueueGet(t) == Calls(t) /\ MqueueAlive /\ UnlinkHead(t)

MqueueGetWait(t, d) ==
    /\ Calls(t) /\ MqueueAlive /\ mq.entry = 0 /\ d # NoWait
    /\ BeginWait(t, Queue, d, "mqGetBack")
    /\ UNCHANGED <<val, mq, node>>

MqueueGetBack(t) ==
    At(t, "mqGetBack") /\ k.error[t] = "OS_OK" /\ UnlinkHead(t)

MqueueGetAgain(t) ==
    /\ At(t, "mqGetBack") /\ k.error[t] = "OS_OK" /\ mq.entry = 0
    /\ Remaining(t) # NoWait
    /\ BeginWait(t, Queue, Remaining(t), "mqGetBack")
    /\ UNCHANGED <<val, mq, node>>

MqueueGetTimesOut(t) ==
    /\ At(t, "mqGetBack") /\ k.error[t] = "OS_OK" /\ mq.entry = 0
    /\ Remaining(t) = NoWait
    /\ k' = [k EXCEPT !.error[t] = "OS_TIMEOUT"]
    /\ Finish(t)
    /\ UNCHANGED <<resched, mq, node>>

MqueueGetFails(t) ==
    /\ At(t, "mqGetBack") /\ k.error[t] # "OS_OK"
    /\ Finish(t)
    /\ UNCHANGED <<k, resched, mq, node>>

(* The message is copied and the node goes back to the free list.          *)
MqueueCopyLoses(t) ==                                         \* mutant
    /\ At(t, "mqCopy")
    /\ mq' = [mq EXCEPT !.free = node[t]]
    /\ node' = [node EXCEPT ![t] = Null]
    /\ Finish(t)
    /\ UNCHANGED <<k, resched>>

MqueueCopy(t) ==
    /\ At(t, "mqCopy")
    /\ mq' = [mq EXCEPT !.next[node[t]] = mq.free, !.free = node[t]]
    /\ node' = [node EXCEPT ![t] = Null]
    /\ Finish(t)
    /\ UNCHANGED <<k, resched>>

-----------------------------------------------------------------------------
(* os_mqueue_reset and os_mqueue_delete *)

(* The nodes of the queue are pushed on the free list one after the other. *)
AllFreed ==
    LET q == MsgChain(mq.head)
        before(x) == LET i == CHOOSE j \in DOMAIN q : q[j] = x
                     IN  IF i = 1 THEN mq.free ELSE q[i - 1]
    IN  [mq EXCEPT !.next = [x \in Node |->
                       IF x \in ToSet(q) THEN before(x) ELSE @[x]],
                   !.free = IF q = <<>> THEN @ ELSE q[Len(q)],
                   !.head = Null,
                   !.tail = IF @ \in ToSet(q) THEN Null ELSE @,
                   !.entry = 0]

MqueueReset(t) ==
    /\ Calls(t) /\ MqueueAlive
    /\ k' = ListResumeAll(k, Queue)
    /\ mq' = AllFreed
    /\ ThenSched(t)
    /\ UNCHANGED <<pc, arg, since, val, todo, node>>

(* Nobody else uses the queue, except those who wait without a timeout.    *)
MqueueDelete(t) ==
    /\ Calls(t) /\ MqueueAlive
    /\ \A u \in Task : pc[u] \in MqueueStep =>
           u \in Waiters(Queue) /\ arg[u] = Forever
    /\ ResumeLists(t, <<Queue>>)
    /\ UNCHANGED mqvars

-----------------------------------------------------------------------------
MqueueCall(t, D) ==
    \/ MqueueGet(t)
    \/ \E v \in Msg, s \in {"mqLink", "mqUrgent"} : MqueuePut(t, v, s)
    \/ \E d \in D : MqueueGetWait(t, d)

MqueueContinue(t) ==
    \/ MqueueLink(t) \/ MqueueLinkUrgent(t) \/ MqueueCopy(t)
    \/ MqueueGetBack(t) \/ MqueueGetAgain(t) \/ MqueueGetTimesOut(t)
    \/ MqueueGetFails(t)

-----------------------------------------------------------------------------
(* Properties *)

(* Every node of the pool is in the queue, in the free list or in the      *)
(* hands of one task, once; entry counts the queue, and msg_queue_tail is  *)
(* its last node.  No node is lost when a call is interrupted between its  *)
(* two critical sections, by another call or by os_mqueue_reset.           *)
NodesExact ==
    LET q == MsgChain(mq.head)
        f == MsgChain(mq.free)
        held == {node[t] : t \in Task} \ {Null}
    IN  /\ Len(q) = mq.entry
        /\ mq.tail = IF q = <<>> THEN Null ELSE q[Len(q)]
        /\ ToSet(q) \cup ToSet(f) \cup held = Node
        /\ Len(q) + Len(f) + Cardinality(held) = Cardinality(Node)
        /\ \A t, u \in Task : t # u /\ node[t] # Null => node[t] # node[u]

(* A message that is there is never left to a receiver that sleeps.        *)
MessageWakesReceiver ==
    Waiters(Queue) # {} =>
        mq.entry <= Cardinality({t \in Task : /\ pc[t] = "mqGetBack"
                                              /\ t \notin Waiters(Queue)
                                              /\ k.error[t] = "OS_OK"})

(* The nodes implement a channel, in which urgent messages overtake.       *)
Queued == LET q == MsgChain(mq.head) IN [i \in DOMAIN q |-> mq.data[q[i]]]
Linking == [t \in Task |-> IF pc[t] \in {"mqLink", "mqUrgent"}
                           THEN mq.data[node[t]] ELSE NoVal]
Copying == [t \in Task |-> IF pc[t] = "mqCopy" THEN mq.data[node[t]] ELSE NoVal]

MessageChannel == INSTANCE Channel WITH
    Client <- Task, Msg <- Msg, None <- NoVal, Capacity <- Cardinality(Node),
    queue <- Queued, offer <- Linking, got <- Copying

ImplementsMessages == MessageChannel!Spec
=============================================================================
