----------------------------- MODULE Semaphore ------------------------------
(***************************************************************************)
(* What os_sem.c promises its callers, without tasks, timers or ticks: a   *)
(* counter, a queue of waiters, and for every call of os_sem_take exactly  *)
(* one outcome, which is OS_OK only when a token was spent on it.          *)
(***************************************************************************)
EXTENDS Naturals, Sequences, SequencesExt

CONSTANTS Client, MaxValue, Value,
    Fifo        \* clients are served in the order in which they came

VARIABLES value,    \* tokens nobody has
          queue,    \* the clients that wait, the next to be served first
          outcome   \* of the os_sem_take of each client: "none" outside of
                    \* one, "waiting", or what it will return
svars == <<value, queue, outcome>>

Init == /\ value = Value /\ queue = <<>>
        /\ outcome = [c \in Client |-> "none"]

TakeNow == /\ value > 0
           /\ value' = value - 1
           /\ UNCHANGED <<queue, outcome>>

(* Only a client that finds no token waits. *)
Wait(c) ==
    /\ value = 0 /\ outcome[c] = "none"
    /\ \E i \in 1..Len(queue) + 1 : /\ Fifo => i = Len(queue) + 1
                                   /\ queue' = InsertAt(queue, i, c)
    /\ outcome' = [outcome EXCEPT ![c] = "waiting"]
    /\ UNCHANGED value

(* A token goes to the client at the head, or to value if there is none. *)
Give ==
    IF queue # <<>>
    THEN /\ queue' = Tail(queue)
         /\ outcome' = [outcome EXCEPT ![Head(queue)] = "OS_OK"]
         /\ UNCHANGED value
    ELSE /\ value' = value + 1
         /\ UNCHANGED <<queue, outcome>>

GiveUp(c) ==
    /\ outcome[c] = "waiting"
    /\ \E i \in DOMAIN queue : queue[i] = c /\ queue' = RemoveAt(queue, i)
    /\ outcome' = [outcome EXCEPT ![c] = "OS_TIMEOUT"]
    /\ UNCHANGED value

(* os_sem_reset serves everybody with OS_ERROR, os_sem_delete one by one. *)
Reset == /\ queue' = <<>>
         /\ value' \in 0..MaxValue
         /\ outcome' = [c \in Client |->
                IF outcome[c] = "waiting" THEN "OS_ERROR" ELSE outcome[c]]

Cancel == /\ queue # <<>>
          /\ queue' = Tail(queue)
          /\ outcome' = [outcome EXCEPT ![Head(queue)] = "OS_ERROR"]
          /\ UNCHANGED value

Return(c) == /\ outcome[c] \notin {"none", "waiting"}
             /\ outcome' = [outcome EXCEPT ![c] = "none"]
             /\ UNCHANGED <<value, queue>>

Next == \/ TakeNow \/ Give \/ Reset \/ Cancel
        \/ \E c \in Client : Wait(c) \/ GiveUp(c) \/ Return(c)

Spec == Init /\ [][Next]_svars
=============================================================================
