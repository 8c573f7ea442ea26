------------------------------- MODULE OsTimer ------------------------------
(***************************************************************************)
(* os_timer.c with its arithmetic: ticks are numbers modulo W (2^32 in the *)
(* code), os_timer_list is ordered by comparing differences of them.       *)
(* Tasks call the API between interrupts; os_timer_stop is three steps;    *)
(* os_timer_check runs inside one critical section, and the callbacks it   *)
(* makes may call the API too.                                             *)
(***************************************************************************)
EXTENDS Naturals, Sequences, SequencesExt

CONSTANTS
    Timer,      \* the timers
    None,       \* no timer; as a cursor, the head of os_timer_list
    Periodic,   \* the timers with OS_TIMER_PERIODIC
    W,          \* 2^32: os_tick_t wraps around
    Interval,   \* the interval_ticks the application asks for
    Risky       \* usages the code does not survive, allowed one by one

ASSUME TimerAssumption ==
    /\ None \notin Timer /\ Periodic \subseteq Timer
    /\ W \in Nat \ {0} /\ Interval \subseteq 0..W - 1

VARIABLES
    os_tick,
    startup,    \* startup_tick
    timeout,    \* timeout_tick
    interval,   \* interval_tick
    list,       \* os_timer_list
    act,        \* the timers with OS_TIMER_ACTIVATED
    checking,   \* os_timer_check runs
    n,          \* its cursor
    firing,     \* the timer whose callback runs
    stopping,   \* the step of a task's os_timer_stop: "no", "seen", "removed"
    target,     \* the timer that call is for
    order       \* history: the linked timers in the order of their start
vars == <<os_tick, startup, timeout, interval, list, act, checking, n, firing,
          stopping, target, order>>
clock == <<checking, n, firing>>
stop == <<stopping, target>>

TypeOK ==
    /\ os_tick \in 0..W - 1
    /\ startup \in [Timer -> 0..W - 1] /\ timeout \in [Timer -> 0..W - 1]
    /\ interval \in [Timer -> Interval]
    /\ list \in Seq(Timer) /\ order \in Seq(Timer) /\ act \subseteq Timer
    /\ checking \in BOOLEAN
    /\ n \in Timer \cup {None} /\ firing \in Timer \cup {None}
    /\ stopping \in {"no", "seen", "removed"} /\ target \in Timer \cup {None}

Init ==
    /\ os_tick \in 0..W - 1
    /\ startup = [x \in Timer |-> 0] /\ timeout = [x \in Timer |-> 0]
    /\ interval \in [Timer -> Interval]
    /\ list = <<>> /\ order = <<>> /\ act = {}
    /\ checking = FALSE /\ n = None /\ firing = None
    /\ stopping = "no" /\ target = None

Diff(x, y) == (x + W - y) % W       \* x - y on os_tick_t

(* os_list_remove; a timer outside the list is linked to itself.           *)
Without(s, x) ==
    IF \E i \in DOMAIN s : s[i] = x
    THEN RemoveAt(s, CHOOSE i \in DOMAIN s : s[i] = x)
    ELSE s

-----------------------------------------------------------------------------
(* The functions *)

PositionFirst(s, x, at) ==                                    \* mutant
    CHOOSE i \in 1..Len(s) + 1 :
        /\ \A j \in 1..i - 1 : Diff(timeout[s[j]], os_tick) < Diff(at, os_tick)
        /\ i <= Len(s) => Diff(timeout[s[i]], os_tick) >= Diff(at, os_tick)

(* os_timer_start goes past every entry that is due no later than x.       *)
Position(s, x, at) ==
    CHOOSE i \in 1..Len(s) + 1 :
        /\ \A j \in 1..i - 1 : Diff(timeout[s[j]], os_tick) <= Diff(at, os_tick)
        /\ i <= Len(s) => Diff(timeout[s[i]], os_tick) > Diff(at, os_tick)

StartEffect(x) ==
    LET at == (os_tick + interval[x]) % W
        s == Without(list, x)
    IN  /\ list' = InsertAt(s, Position(s, x, at), x)
        /\ startup' = [startup EXCEPT ![x] = os_tick]
        /\ timeout' = [timeout EXCEPT ![x] = at]
        /\ order' = Append(Without(order, x), x)

(* _os_timer_remove, also all that os_timer_delete does. *)
Unlink(x) == /\ list' = Without(list, x)
              /\ order' = Without(order, x)
              /\ UNCHANGED <<startup, timeout>>

-----------------------------------------------------------------------------
(* Calls, by tasks while no interrupt is active and by callbacks *)

Open == ~checking \/ firing # None

(* A callback leaves the timer alone that the traversal visits next.       *)
NotNext(x) == "callbackNext" \in Risky \/ n # x

Start(x) ==
    /\ Open /\ NotNext(x)
    /\ "restartSelf" \in Risky \/ firing # x \/ x \in Periodic
    /\ "stopRace" \in Risky \/ stopping # "removed" \/ target # x
    /\ StartEffect(x)
    /\ act' = act \cup {x}
    /\ UNCHANGED <<os_tick, interval, clock, stop>>

TickSet(x, d) ==
    /\ Open
    /\ "setActive" \in Risky \/ x \notin ToSet(list)
    /\ interval' = [interval EXCEPT ![x] = d]
    /\ UNCHANGED <<os_tick, startup, timeout, list, act, clock, stop, order>>

Delete(x) ==
    /\ Open /\ NotNext(x)
    /\ "deleteSelf" \in Risky \/ firing # x \/ x \notin Periodic
    /\ Unlink(x)
    /\ UNCHANGED <<os_tick, interval, act, clock, stop>>

(* os_timer_stop in a callback, where nothing comes between its steps. *)
CallbackStop(x) ==
    /\ firing # None /\ NotNext(x) /\ x \in act
    /\ Unlink(x)
    /\ act' = act \ {x}
    /\ UNCHANGED <<os_tick, interval, clock, stop>>

StopCheck(x) ==
    /\ ~checking /\ stopping = "no" /\ x \in act
    /\ stopping' = "seen" /\ target' = x
    /\ UNCHANGED <<os_tick, startup, timeout, interval, list, act, clock, order>>

StopRemove ==
    /\ ~checking /\ stopping = "seen"
    /\ stopping' = "removed"
    /\ Unlink(target)
    /\ UNCHANGED <<os_tick, interval, act, clock, target>>

StopClear ==
    /\ ~checking /\ stopping = "removed"
    /\ act' = act \ {target}
    /\ stopping' = "no" /\ target' = None
    /\ UNCHANGED <<os_tick, startup, timeout, interval, list, clock, order>>

-----------------------------------------------------------------------------
(* os_tick_increase and os_timer_check *)

Tick ==
    /\ ~checking
    /\ os_tick' = (os_tick + 1) % W
    /\ checking' = TRUE
    /\ n' = IF list = <<>> THEN None ELSE Head(list)
    /\ UNCHANGED <<startup, timeout, interval, list, act, firing, stop, order>>

Due(x) == Diff(os_tick, startup[x]) >= interval[x]

(* n->next: a node outside the list is linked to itself. *)
NextNode(x) ==
    IF x \notin ToSet(list) THEN x
    ELSE LET i == CHOOSE j \in DOMAIN list : list[j] = x
         IN  IF i = Len(list) THEN None ELSE list[i + 1]

TakeThenNext ==                                               \* mutant
    /\ checking /\ firing = None /\ n # None /\ Due(n)
    /\ firing' = n
    /\ Unlink(n)
    /\ UNCHANGED <<os_tick, interval, act, checking, n, stop>>

Take ==
    /\ checking /\ firing = None /\ n # None /\ Due(n)
    /\ firing' = n
    /\ n' = NextNode(n)
    /\ Unlink(n)
    /\ UNCHANGED <<os_tick, interval, act, checking, stop>>

ExpireClears ==                                               \* mutant
    /\ firing # None
    /\ IF firing \in Periodic \cap act
       THEN StartEffect(firing)
       ELSE UNCHANGED <<startup, timeout, list, order>>
    /\ act' = act \ {firing}
    /\ firing' = None
    /\ UNCHANGED <<os_tick, interval, checking, n, stop>>

Expire ==
    /\ firing # None
    /\ IF firing \in Periodic \cap act
       THEN StartEffect(firing) /\ UNCHANGED act
       ELSE /\ act' = act \ {firing}
            /\ UNCHANGED <<startup, timeout, list, order>>
    /\ firing' = None
    /\ UNCHANGED <<os_tick, interval, checking, n, stop>>

CheckEnd ==
    /\ checking /\ firing = None /\ (n # None => ~Due(n))
    /\ checking' = FALSE /\ n' = None
    /\ UNCHANGED <<os_tick, startup, timeout, interval, list, act, firing, stop, order>>

Call(x) == \/ Start(x) \/ Delete(x) \/ CallbackStop(x) \/ StopCheck(x)
           \/ \E d \in Interval : TickSet(x, d)

Next == \/ \E x \in Timer : Call(x)
        \/ StopRemove \/ StopClear
        \/ Tick \/ Take \/ Expire \/ CheckEnd

Spec == Init /\ [][Next]_vars

(* The interrupt handler goes on, and its callbacks return. *)
FairSpec == Spec /\ WF_vars(Take) /\ WF_vars(Expire) /\ WF_vars(CheckEnd)

-----------------------------------------------------------------------------
(* Properties *)

(* os_timer_stop returns OS_ERROR for a timer without OS_TIMER_ACTIVATED   *)
(* and leaves it: so every timer in the list has the flag.                 *)
LinkedCanBeStopped == ToSet(list) \subseteq act

(* When os_timer_check has returned, every timer that is due has fired.    *)
OnTime ==
    ~checking => \A x \in ToSet(list) :
                    Due(x) => interval[x] = 0 /\ startup[x] = os_tick

(* The clock interrupt always returns. *)
ClockReturns == checking ~> ~checking

(* The list, the flags and the arithmetic implement the service: the       *)
(* number of ticks left is computed from os_tick modulo W.                 *)
Left == [x \in Timer |->
    IF x \in ToSet(list) /\ ~Due(x)
    THEN interval[x] - Diff(os_tick, startup[x]) ELSE 0]

Service == INSTANCE TimerService WITH
    armed <- order, left <- Left, again <- firing \in Periodic \cap act

ImplementsTimerService == Service!Spec
=============================================================================
