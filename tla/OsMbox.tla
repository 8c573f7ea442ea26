------------------------------- MODULE OsMbox -------------------------------
(***************************************************************************)
(* A mailbox of os_mbox.c: a ring of Size messages, the receivers that     *)
(* wait in pending_list (k.pend[Recv]) and the senders that wait in        *)
(* sender_pending_list (k.pend[Send]).  A task that waits goes on at       *)
(* "getBack" or "putBack"; it looks at the mailbox again, since another    *)
(* task may have been faster, and waits for what is left of its timeout.   *)
(***************************************************************************)
EXTENDS OsWait, FiniteSets

CONSTANTS Recv, Send, Size

ASSUME MboxAssumption == {Recv, Send} \subseteq Obj /\ Size \in Nat \ {0}

VARIABLE mb     \* [pool, entry, in, out], the fields of struct os_mbox

MboxStep == {"putBack", "getBack", "got"}

Mailbox == [pool : [0..Size - 1 -> Msg \cup {NoVal}], entry : 0..Size,
            in : 0..Size - 1, out : 0..Size - 1]

MboxInit == mb = [pool |-> [i \in 0..Size - 1 |-> NoVal],
                  entry |-> 0, in |-> 0, out |-> 0]

MboxAlive == Alive(Recv) /\ Alive(Send)

NextOffsetPast(i) == IF i + 1 > Size THEN 0 ELSE i + 1        \* mutant
NextOffset(i) == IF i + 1 >= Size THEN 0 ELSE i + 1

-----------------------------------------------------------------------------
(* os_mbox_put_wait; os_mbox_put is the call with OS_NO_WAIT, for which a  *)
(* full mailbox is OS_EFULL and changes nothing.                           *)

Store(v) == mb' = [mb EXCEPT !.pool[mb.in] = v, !.in = NextOffset(@),
                             !.entry = @ + 1]

PutStores(t, v) ==
    /\ mb.entry < Size
    /\ Store(v)
    /\ k' = ResumeHead(k, Recv)
    /\ IF k.pend[Recv] # <<>> THEN ThenSched(t) ELSE UNCHANGED resched
    /\ Finish(t)

MboxPut(t, v) == Calls(t) /\ MboxAlive /\ PutStores(t, v)

MboxPutWait(t, v, d) ==
    /\ Calls(t) /\ MboxAlive /\ mb.entry = Size /\ d # NoWait
    /\ BeginWait(t, Send, d, "putBack")
    /\ val' = [val EXCEPT ![t] = v]
    /\ UNCHANGED mb

PutBackBlind(t) ==                                            \* mutant
    /\ At(t, "putBack") /\ k.error[t] = "OS_OK"
    /\ Store(val[t])
    /\ k' = ResumeHead(k, Recv)
    /\ IF k.pend[Recv] # <<>> THEN ThenSched(t) ELSE UNCHANGED resched
    /\ Finish(t)

PutBack(t) == /\ At(t, "putBack") /\ k.error[t] = "OS_OK"
              /\ PutStores(t, val[t])

PutAgain(t) ==
    /\ At(t, "putBack") /\ k.error[t] = "OS_OK" /\ mb.entry = Size
    /\ Remaining(t) # NoWait
    /\ BeginWait(t, Send, Remaining(t), "putBack")
    /\ UNCHANGED <<val, mb>>

(* OS_EFULL, or the error that ended the wait. *)
PutFails(t) ==
    /\ At(t, "putBack")
    /\ \/ k.error[t] # "OS_OK"
       \/ mb.entry = Size /\ Remaining(t) = NoWait
    /\ Finish(t)
    /\ UNCHANGED <<k, resched, mb>>

MboxIsrPutFirst(v) ==                                         \* mutant
    /\ k.isr = 0 /\ MboxAlive /\ mb.entry < Size
    /\ Store(v)
    /\ k' = IF mb.entry = 0 THEN IsrResumeHead(k, Recv) ELSE k
    /\ UNCHANGED <<pc, resched, arg, since, val, todo>>

MboxIsrPut(v) ==
    /\ k.isr = 0 /\ MboxAlive /\ mb.entry < Size
    /\ Store(v)
    /\ k' = IsrResumeHead(k, Recv)
    /\ UNCHANGED <<pc, resched, arg, since, val, todo>>

-----------------------------------------------------------------------------
(* os_mbox_get; OS_NO_WAIT on an empty mailbox is OS_TIMEOUT and changes   *)
(* nothing.                                                                *)

GetTakes(t) ==
    /\ mb.entry > 0
    /\ val' = [val EXCEPT ![t] = mb.pool[mb.out]]
    /\ mb' = [mb EXCEPT !.out = NextOffset(@), !.entry = @ - 1]
    /\ k' = ResumeHead(k, Send)
    /\ IF k.pend[Send] # <<>> THEN ThenSched(t) ELSE UNCHANGED resched
    /\ Goto(t, "got")
    /\ UNCHANGED <<arg, since, todo>>

MboxGet(t) == Calls(t) /\ MboxAlive /\ GetTakes(t)

MboxGetWait(t, d) ==
    /\ Calls(t) /\ MboxAlive /\ mb.entry = 0 /\ d # NoWait
    /\ BeginWait(t, Recv, d, "getBack")
    /\ UNCHANGED <<val, mb>>

GetBack(t) == At(t, "getBack") /\ k.error[t] = "OS_OK" /\ GetTakes(t)

GetAgain(t) ==
    /\ At(t, "getBack") /\ k.error[t] = "OS_OK" /\ mb.entry = 0
    /\ Remaining(t) # NoWait
    /\ BeginWait(t, Recv, Remaining(t), "getBack")
    /\ UNCHANGED <<val, mb>>

GetTimesOut(t) ==
    /\ At(t, "getBack") /\ k.error[t] = "OS_OK" /\ mb.entry = 0
    /\ Remaining(t) = NoWait
    /\ k' = [k EXCEPT !.error[t] = "OS_TIMEOUT"]
    /\ Finish(t)
    /\ UNCHANGED <<resched, mb>>

GetFails(t) ==
    /\ At(t, "getBack") /\ k.error[t] # "OS_OK"
    /\ Finish(t)
    /\ UNCHANGED <<k, resched, mb>>

(* The caller of os_mbox_get or os_mqueue_get has the message. *)
Got(t) == At(t, "got") /\ Finish(t) /\ UNCHANGED <<k, resched, mb>>

-----------------------------------------------------------------------------
(* os_mbox_reset and os_mbox_delete *)

MboxReset(t) ==
    /\ Calls(t) /\ MboxAlive
    /\ k' = ListResumeAll(ListResumeAll(k, Recv), Send)
    /\ mb' = [mb EXCEPT !.entry = 0, !.in = 0, !.out = 0]
    /\ ThenSched(t)
    /\ UNCHANGED <<pc, arg, since, val, todo>>

(* Nobody else uses the mailbox, except those who wait without a timeout.  *)
MboxDelete(t) ==
    /\ Calls(t) /\ MboxAlive
    /\ \A u \in Task : pc[u] \in MboxStep =>
           u \in Waiters(Recv) \cup Waiters(Send) /\ arg[u] = Forever
    /\ ResumeLists(t, <<Recv, Send>>)
    /\ UNCHANGED mb

-----------------------------------------------------------------------------
MboxCall(t, D) ==
    \/ MboxGet(t)
    \/ \E v \in Msg : MboxPut(t, v) \/ \E d \in D : MboxPutWait(t, v, d)
    \/ \E d \in D : MboxGetWait(t, d)

MboxContinue(t) == \/ PutBack(t) \/ PutAgain(t) \/ PutFails(t)
                   \/ GetBack(t) \/ GetAgain(t) \/ GetTimesOut(t) \/ GetFails(t)
                   \/ Got(t)

-----------------------------------------------------------------------------
(* Properties *)

(* A mail that is there is never left to a receiver that sleeps, nor a     *)
(* free slot to a sender: while somebody waits, as many tasks as there are *)
(* mails (slots) have been resumed and are on their way.                   *)
Woken(s, o) == {t \in Task : pc[t] = s /\ t \notin Waiters(o) /\ k.error[t] = "OS_OK"}

MailWakesReceiver ==
    /\ Waiters(Recv) # {} => mb.entry <= Cardinality(Woken("getBack", Recv))
    /\ Waiters(Send) # {} => Size - mb.entry <= Cardinality(Woken("putBack", Send))

(* The ring implements a bounded first-in-first-out channel. *)
Ring == [i \in 1..mb.entry |-> mb.pool[(mb.out + i - 1) % Size]]
Offered == [t \in Task |-> IF pc[t] = "putBack" THEN val[t] ELSE NoVal]
Received == [t \in Task |-> IF pc[t] = "got" THEN val[t] ELSE NoVal]

MailChannel == INSTANCE Channel WITH
    Client <- Task, Msg <- Msg, None <- NoVal, Capacity <- Size,
    queue <- Ring, offer <- Offered, got <- Received

ImplementsMail == MailChannel!Spec
=============================================================================
