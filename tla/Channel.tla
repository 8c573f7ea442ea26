------------------------------ MODULE Channel -------------------------------
(***************************************************************************)
(* What os_mbox.c and os_mqueue.c promise: a queue of at most Capacity     *)
(* messages.  A message enters it once, while the call that sends it is in *)
(* progress, at the tail, or at the head when it is urgent; a client takes *)
(* the message at the head.  Nothing else ever leaves the queue, except    *)
(* all of it by a reset.                                                   *)
(***************************************************************************)
EXTENDS Naturals, Sequences

CONSTANTS Client, Msg, None, Capacity

VARIABLES queue,
          offer,    \* the message of a call that has not sent it yet
          got       \* the message of a call that has received it
cvars == <<queue, offer, got>>

Init == /\ queue = <<>>
        /\ offer = [c \in Client |-> None]
        /\ got = [c \in Client |-> None]

Room == Len(queue) < Capacity

(* A client, or an interrupt handler, sends at once. *)
Put(m) == /\ Room
          /\ queue' = Append(queue, m)
          /\ UNCHANGED <<offer, got>>

Offer(c, m) == /\ offer[c] = None
               /\ offer' = [offer EXCEPT ![c] = m]
               /\ UNCHANGED <<queue, got>>

Accept(c) == /\ offer[c] # None /\ Room
             /\ queue' = Append(queue, offer[c])
             /\ offer' = [offer EXCEPT ![c] = None]
             /\ UNCHANGED got

AcceptUrgent(c) == /\ offer[c] # None /\ Room
                   /\ queue' = <<offer[c]>> \o queue
                   /\ offer' = [offer EXCEPT ![c] = None]
                   /\ UNCHANGED got

(* The call fails: timeout, reset or deletion. *)
Withdraw(c) == /\ offer[c] # None
               /\ offer' = [offer EXCEPT ![c] = None]
               /\ UNCHANGED <<queue, got>>

Receive(c) == /\ queue # <<>> /\ got[c] = None
              /\ got' = [got EXCEPT ![c] = Head(queue)]
              /\ queue' = Tail(queue)
              /\ UNCHANGED offer

Return(c) == /\ got[c] # None
             /\ got' = [got EXCEPT ![c] = None]
             /\ UNCHANGED <<queue, offer>>

Reset == /\ queue' = <<>>
         /\ UNCHANGED <<offer, got>>

Next == \/ \E m \in Msg : Put(m)
        \/ \E c \in Client :
               \/ \E m \in Msg : Offer(c, m)
               \/ Accept(c) \/ AcceptUrgent(c) \/ Withdraw(c)
               \/ Receive(c) \/ Return(c)
        \/ Reset

Spec == Init /\ [][Next]_cvars
=============================================================================
