------------------------------ MODULE OsMutex ------------------------------
(***************************************************************************)
(* The mutexes of os_mutex.c: recursive, with the owner raised to the      *)
(* priority of a task that waits for it.  A mutex is its own pending list. *)
(* A task waits at "mxBack", for the mutex val[t].  stack[t] is what the   *)
(* application knows: the mutexes t has taken and not released, in the     *)
(* order it took them, one entry for each os_mutex_take that returned      *)
(* OS_OK.                                                                  *)
(***************************************************************************)
EXTENDS OsWait, FiniteSets

CONSTANTS Mutex,
    MaxHold     \* bound on the entries of stack[t]

ASSUME MutexAssumption == Mutex \subseteq Obj \cap Val /\ MaxHold \in Nat

VARIABLES mx,       \* [value, owner, hold, orig], the fields of each mutex
          stack

MutexStep == {"mxBack"}
NoPrio == 255       \* original_priority of a mutex nobody owns

MutexState == [value : 0..1, owner : Task \cup {NoTask}, hold : 0..MaxHold,
               orig : Prio \cup {NoPrio}]

MutexInit ==
    /\ mx = [m \in Mutex |->
                [value |-> 1, owner |-> NoTask, hold |-> 0, orig |-> NoPrio]]
    /\ stack = [t \in Task |-> <<>>]

-----------------------------------------------------------------------------
(* os_mutex_take *)

NoError(t) == k' = [k EXCEPT !.error[t] = "OS_OK"]
Push(t, m) == stack' = [stack EXCEPT ![t] = Append(@, m)]

MutexTakeAgain(t, m) ==
    /\ Calls(t) /\ Alive(m) /\ mx[m].owner = t /\ mx[m].hold < MaxHold
    /\ mx' = [mx EXCEPT ![m].hold = @ + 1]
    /\ NoError(t) /\ Push(t, m)
    /\ UNCHANGED <<pc, resched, arg, since, val, todo>>

MutexTakeFree(t, m) ==
    /\ Calls(t) /\ Alive(m) /\ mx[m].owner # t /\ mx[m].value > 0
    /\ mx' = [mx EXCEPT ![m].value = @ - 1, ![m].owner = t,
                        ![m].orig = k.prio[t], ![m].hold = @ + 1]
    /\ NoError(t) /\ Push(t, m)
    /\ UNCHANGED <<pc, resched, arg, since, val, todo>>

(* OS_NO_WAIT *)
MutexPoll(t, m) ==
    /\ Calls(t) /\ Alive(m) /\ mx[m].owner # t /\ mx[m].value = 0
    /\ k' = [k EXCEPT !.error[t] = "OS_TIMEOUT"]
    /\ UNCHANGED <<pc, resched, arg, since, val, todo, mx, stack>>

InheritNever(s, t, m) == s                                    \* mutant

(* "change the owner task priority of mutex"                               *)
Inherit(s, t, m) ==
    IF s.prio[t] < s.prio[mx[m].owner]
    THEN PrioritySet(s, mx[m].owner, s.prio[t])
    ELSE s

MutexWait(t, m, d) ==
    /\ Calls(t) /\ Alive(m) /\ mx[m].owner # t /\ mx[m].value = 0 /\ d # NoWait
    /\ k' = WaitIn(Inherit(k, t, m), m, t, d)
    /\ arg' = [arg EXCEPT ![t] = d]
    /\ val' = [val EXCEPT ![t] = m]
    /\ Goto(t, "mxBack") /\ ThenSched(t)
    /\ UNCHANGED <<since, todo, mx, stack>>

MutexTaken(t) ==
    /\ At(t, "mxBack") /\ k.error[t] = "OS_OK"
    /\ Push(t, val[t])
    /\ Finish(t)
    /\ UNCHANGED <<k, resched, mx>>

MutexFails(t) ==
    /\ At(t, "mxBack") /\ k.error[t] # "OS_OK"
    /\ Finish(t)
    /\ UNCHANGED <<k, resched, mx, stack>>

-----------------------------------------------------------------------------
(* os_mutex_release *)

(* "mutex only can be released by owner" *)
MutexRefused(t, m) ==
    /\ Calls(t) /\ Alive(m) /\ mx[m].owner # t
    /\ k' = [k EXCEPT !.error[t] = "OS_ERROR"]
    /\ UNCHANGED <<pc, resched, arg, since, val, todo, mx, stack>>

RestoreNever(t, m) == k                                       \* mutant

(* "change the owner task to original priority" *)
Restore(t, m) ==
    IF mx[m].orig # k.prio[t] THEN PrioritySet(k, t, mx[m].orig) ELSE k

HandOverAndCount(m, s) ==                                     \* mutant
    mx' = [mx EXCEPT ![m].hold = @ - 1, ![m].value = @ + 1,
                     ![m].owner = s.pend[m][1],
                     ![m].orig = s.prio[s.pend[m][1]]]

(* The first task that waits is the new owner. *)
HandOver(m, s) ==
    mx' = [mx EXCEPT ![m].hold = 1, ![m].owner = s.pend[m][1],
                     ![m].orig = s.prio[s.pend[m][1]]]

LastIndex(s, m) == CHOOSE i \in DOMAIN s :
                       s[i] = m /\ \A j \in DOMAIN s : s[j] = m => j <= i

Pop(t, m) == stack' = [stack EXCEPT ![t] = RemoveAt(@, LastIndex(@, m))]

MutexReleaseInner(t, m) ==
    /\ Calls(t) /\ Alive(m) /\ mx[m].owner = t /\ mx[m].hold > 1
    /\ mx' = [mx EXCEPT ![m].hold = @ - 1]
    /\ Pop(t, m)
    /\ UNCHANGED <<k, pc, resched, arg, since, val, todo>>

MutexReleaseLast(t, m) ==
    /\ Calls(t) /\ Alive(m) /\ mx[m].owner = t /\ mx[m].hold = 1
    /\ LET s == Restore(t, m)
       IN  IF s.pend[m] # <<>>
           THEN /\ HandOver(m, s)
                /\ k' = ListResume(s, m)
                /\ ThenSched(t)
           ELSE /\ mx' = [mx EXCEPT ![m] = [value |-> @.value + 1, hold |-> 0,
                                            owner |-> NoTask, orig |-> NoPrio]]
                /\ k' = s
                /\ UNCHANGED resched
    /\ Pop(t, m)
    /\ UNCHANGED <<pc, arg, since, val, todo>>

(* os_mutex_delete, by the owner, while nobody waits with a timeout.       *)
MutexDelete(t, m) ==
    /\ Calls(t) /\ Alive(m) /\ mx[m].owner = t
    /\ \A u \in Task : pc[u] = "mxBack" /\ val[u] = m =>
           u \in Waiters(m) /\ arg[u] = Forever
    /\ ResumeLists(t, <<m>>)
    /\ UNCHANGED <<mx, stack>>

-----------------------------------------------------------------------------
(* The disciplines D of an application: it holds one mutex at a time       *)
(* unless "nest", and takes it once unless "again"; it releases them in    *)
(* the opposite of the order in which it took them unless "anyOrder"; it   *)
(* waits with OS_WAIT_FOREVER unless "timed"; it deletes a mutex only if   *)
(* "delete".                                                               *)

MayTake(t, m, D) == "nest" \in D \/ ToSet(stack[t]) \subseteq {m}
MayRelease(t, m, D) == "anyOrder" \in D \/ m = stack[t][Len(stack[t])]
MayHold(t) == Len(stack[t]) < MaxHold

MutexCall(t, D) ==
    \E m \in Mutex :
        \/ /\ MayTake(t, m, D) /\ MayHold(t)
           /\ \/ "again" \in D /\ MutexTakeAgain(t, m)
              \/ MutexTakeFree(t, m)
              \/ \E d \in IF "timed" \in D THEN Timeout ELSE {Forever} :
                    MutexWait(t, m, d)
        \/ MutexPoll(t, m) \/ MutexRefused(t, m)
        \/ /\ m \in ToSet(stack[t]) /\ MayRelease(t, m, D)
           /\ MutexReleaseInner(t, m) \/ MutexReleaseLast(t, m)
        \/ "delete" \in D /\ MutexDelete(t, m)

MutexContinue(t) == MutexTaken(t) \/ MutexFails(t)

-----------------------------------------------------------------------------
(* Properties *)

WaitsForMutex == UNION {Waiters(m) : m \in Mutex}

Taken(t, m) == Cardinality({i \in DOMAIN stack[t] : stack[t][i] = m})

(* The mutex was handed to t, whose os_mutex_take has not returned yet.    *)
Handed(t, m) == pc[t] = "mxBack" /\ val[t] = m /\ mx[m].owner = t

(* One task at a time has taken a mutex, it is the owner, and hold counts  *)
(* its takes; a mutex handed over counts for the task that will find it.   *)
HoldExact ==
    \A m \in Mutex :
        /\ mx[m].value = IF mx[m].owner = NoTask THEN 1 ELSE 0
        /\ \A t \in Task :
              IF mx[m].owner = t
              THEN mx[m].hold = Taken(t, m) + IF Handed(t, m) THEN 1 ELSE 0
              ELSE Taken(t, m) = 0
        /\ Waiters(m) # {} => mx[m].owner # NoTask

(* A task that owns no mutex has the priority it was started with, however *)
(* often the mutexes it held have raised it.                               *)
PriorityRestored ==
    \A t \in Task :
        (\A m \in Mutex : mx[m].owner # t) => k.prio[t] = BasePrio[t]

(* While a task waits for a mutex whose owner could run, no less urgent    *)
(* task runs application code.                                             *)
NoPriorityInversion ==
    k.isr = 0 /\ pc[k.cur] = "app" /\ k.cur \notin resched =>
        \A m \in Mutex : \A t \in Waiters(m) :
            k.stat[mx[m].owner] = "READY" => k.prio[k.cur] <= k.prio[t]
=============================================================================
