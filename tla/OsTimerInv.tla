----------------------------- MODULE OsTimerInv -----------------------------
(***************************************************************************)
(* The inductive invariants behind the theorems about os_timer.c: StopInv  *)
(* for every use but the two that break it, "restartSelf" and "stopRace",  *)
(* the others when no usage named by Risky occurs.                         *)
(***************************************************************************)
EXTENDS OsTimer

Rem(x) == Diff(timeout[x], os_tick)     \* ticks until x is due
Age(x) == Diff(os_tick, startup[x])     \* ticks since its start
Before(s, a, b) == \E i, j \in DOMAIN s : i < j /\ s[i] = a /\ s[j] = b

(* list and order hold the same timers, each of them once.                 *)
ListsOK ==
    /\ TypeOK
    /\ IsInjective(list) /\ IsInjective(order) /\ ToSet(order) = ToSet(list)

(* The list and the flags: a timer whose flag is about to be cleared is    *)
(* not in the list, and what os_timer_check took out comes back only if it *)
(* is periodic.                                                            *)
StopInv ==
    /\ ListsOK
    /\ ToSet(list) \subseteq act
    /\ ~checking => n = None /\ firing = None
    /\ firing \in ToSet(list) => firing \in Periodic
    /\ stopping # "no" => target # None
    /\ stopping = "removed" => target \notin ToSet(list) \cup {n, firing}

(* With no risky usage at all, what os_timer_check visits next is still    *)
(* there.                                                                  *)
LinkInv ==
    /\ StopInv
    /\ n # None => n \in ToSet(list) /\ n # firing

(* The arithmetic: a linked timer has as many ticks left as its interval   *)
(* says.                                                                   *)
Counted == \A x \in ToSet(list) : Rem(x) + Age(x) = interval[x]

(* The list is ordered by the ticks left, and by the start among equals.   *)
Sorted == \A x, y \in ToSet(list) :
             Before(list, x, y) => \/ Rem(x) < Rem(y)
                                   \/ Rem(x) = Rem(y) /\ Before(order, x, y)

(* os_timer_check has passed no timer that is due.                         *)
Passed == \A x \in ToSet(list) :
             Rem(x) = 0 => n # None /\ (x = n \/ Before(list, n, x))

TimerInv == LinkInv /\ Counted /\ Sorted /\ Passed
=============================================================================
