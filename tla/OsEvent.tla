------------------------------ MODULE OsEvent ------------------------------
(***************************************************************************)
(* An event of os_event.c: a set of bits, and tasks that wait for all or   *)
(* for one of the bits they ask for, with or without clearing them.  A     *)
(* task waits at "evBack"; its fields event_set and event_info are         *)
(* val[t].set, at first what it asks for and then what it received, and    *)
(* val[t].info.                                                            *)
(***************************************************************************)
EXTENDS OsWait

CONSTANTS Event, Bit,
    Request     \* the pairs <<set, option>> each task asks for

Info == {{"AND"}, {"OR"}, {"AND", "CLEAR"}, {"OR", "CLEAR"}}
Bits == (SUBSET Bit) \ {{}}

ASSUME EventAssumption ==
    /\ Event \in Obj /\ Request \in [Task -> SUBSET (Bits \X Info)]
    /\ [set : Bits, info : Info] \subseteq Val

VARIABLE evset      \* event->set

EventStep == {"evBack"}

EventInit == evset = {}

(* The test of os_event_get and os_event_put. *)
Satisfied(set, info, have) ==
    IF "AND" \in info THEN set \subseteq have ELSE set \cap have # {}

-----------------------------------------------------------------------------
(* os_event_put *)

(* The loop has come to task t: e is [k, set, val, woken]. *)
ServeUncleared(e, t) ==                                       \* mutant
    LET v == e.val[t]
        got == IF "AND" \in v.info THEN v.set ELSE v.set \cap e.set
    IN  IF Satisfied(v.set, v.info, e.set)
        THEN [k |-> TaskResume(e.k, t), set |-> e.set,
              val |-> [e.val EXCEPT ![t].set = got], woken |-> TRUE]
        ELSE e

Serve(e, t) ==
    LET v == e.val[t]
        got == IF "AND" \in v.info THEN v.set ELSE v.set \cap e.set
    IN  IF Satisfied(v.set, v.info, e.set)
        THEN [k |-> TaskResume(e.k, t),
              set |-> IF "CLEAR" \in v.info THEN e.set \ got ELSE e.set,
              val |-> [e.val EXCEPT ![t].set = got],
              woken |-> TRUE]
        ELSE e

ServedFirst(s) ==                                             \* mutant
    LET start == [k |-> k, set |-> evset \cup s, val |-> val, woken |-> FALSE]
    IN  IF k.pend[Event] = <<>> THEN start ELSE Serve(start, k.pend[Event][1])

(* n is moved to the next node before the task is resumed, so that every   *)
(* task of the list has its turn: turn[i] is the state after i of them.    *)
Served(s) ==
    LET q == k.pend[Event]
        turn[i \in 0..Len(q)] ==
            IF i = 0
            THEN [k |-> k, set |-> evset \cup s, val |-> val, woken |-> FALSE]
            ELSE Serve(turn[i - 1], q[i])
    IN  turn[Len(q)]

EventPut(t, s) ==
    /\ Calls(t) /\ Alive(Event)
    /\ LET e == Served(s)
       IN  /\ k' = e.k /\ evset' = e.set /\ val' = e.val
           /\ IF e.woken THEN ThenSched(t) ELSE UNCHANGED resched
    /\ UNCHANGED <<pc, arg, since, todo>>

EventIsrPut(s) ==
    /\ k.isr = 0 /\ Alive(Event)
    /\ LET e == Served(s)
       IN  /\ k' = IF e.woken THEN Sched(e.k) ELSE e.k
           /\ evset' = e.set /\ val' = e.val
    /\ UNCHANGED <<pc, resched, arg, since, todo>>

-----------------------------------------------------------------------------
(* os_event_get *)

EventGet(t, s, i) ==
    /\ Calls(t) /\ Alive(Event) /\ Satisfied(s, i, evset)
    /\ k' = [k EXCEPT !.error[t] = "OS_OK"]
    /\ evset' = IF "CLEAR" \in i THEN evset \ s ELSE evset
    /\ UNCHANGED <<pc, resched, arg, since, val, todo>>

EventPoll(t) ==
    /\ Calls(t) /\ Alive(Event) /\ evset # Bit
    /\ k' = [k EXCEPT !.error[t] = "OS_TIMEOUT"]
    /\ UNCHANGED <<pc, resched, arg, since, val, todo, evset>>

EventWait(t, s, i, d) ==
    /\ Calls(t) /\ Alive(Event) /\ ~Satisfied(s, i, evset) /\ d # NoWait
    /\ BeginWait(t, Event, d, "evBack")
    /\ val' = [val EXCEPT ![t] = [set |-> s, info |-> i]]
    /\ UNCHANGED evset

(* It returns task->error, and with OS_OK the bits in task->event_set.     *)
EventReturn(t) ==
    /\ At(t, "evBack")
    /\ Finish(t)
    /\ UNCHANGED <<k, resched, evset>>

-----------------------------------------------------------------------------
(* os_event_reset and os_event_delete *)

EventReset(t, s) ==
    /\ Calls(t) /\ Alive(Event)
    /\ k' = ListResumeAll(k, Event)
    /\ evset' = s
    /\ ThenSched(t)
    /\ UNCHANGED <<pc, arg, since, val, todo>>

EventDelete(t) ==
    /\ Calls(t) /\ Alive(Event)
    /\ \A u \in Task : pc[u] = "evBack" =>
           u \in Waiters(Event) /\ arg[u] = Forever
    /\ ResumeLists(t, <<Event>>)
    /\ UNCHANGED evset

-----------------------------------------------------------------------------
EventCall(t, D) ==
    \/ \E s \in Bits : EventPut(t, s)
    \/ \E r \in Request[t] : \/ EventGet(t, r[1], r[2])
                         \/ \E d \in D : EventWait(t, r[1], r[2], d)
    \/ EventPoll(t) \/ EventDelete(t)
    \/ \E s \in SUBSET Bit : EventReset(t, s)

EventContinue(t) == EventReturn(t)

-----------------------------------------------------------------------------
(* Properties *)

(* Nobody waits for bits that are set: os_event_put finds every task whose *)
(* condition holds, whatever the tasks before it have cleared.             *)
NobodyWaitsInVain ==
    \A t \in Waiters(Event) : ~Satisfied(val[t].set, val[t].info, evset)

(* What one os_event_put hands out: a task gets bits it asked for, all of  *)
(* them with OS_EVENT_AND, and bits that it clears go to nobody behind it  *)
(* in the list and are not set afterwards.                                 *)
Receives(t) == t \in Waiters(Event) /\ k'.stat[t] = "READY" /\ k'.error[t] = "OS_OK"

BitsConsumedOnce ==
    \A i \in DOMAIN k.pend[Event] :
        LET t == k.pend[Event][i]
            got == val'[t].set
        IN  Receives(t) =>
            /\ IF "AND" \in val[t].info THEN got = val[t].set
               ELSE got # {} /\ got \subseteq val[t].set
            /\ "CLEAR" \in val[t].info =>
                  /\ got \cap evset' = {}
                  /\ \A j \in DOMAIN k.pend[Event] :
                        j > i /\ Receives(k.pend[Event][j])
                            => got \cap val'[k.pend[Event][j]].set = {}
=============================================================================
