---------------------------- MODULE TimerService ----------------------------
(***************************************************************************)
(* What os_timer.c promises: a timer that is started fires exactly         *)
(* interval ticks later, in that tick's interrupt and in no other, unless  *)
(* it is stopped or started again before; timers that are due together     *)
(* fire in the order in which they were started; a periodic timer starts   *)
(* again after its callback unless the callback stopped it.                *)
(***************************************************************************)
EXTENDS Naturals, Sequences, SequencesExt

CONSTANTS Timer, None, Periodic, Interval

VARIABLES armed,    \* the timers that run, in the order they were started
          left,     \* ticks until each of them fires
          checking, \* the clock interrupt is looking for due timers
          firing,   \* the timer whose callback runs, or None
          again     \* it starts again when its callback returns
svars == <<armed, left, checking, firing, again>>

Init == /\ armed = <<>> /\ left = [x \in Timer |-> 0]
        /\ checking = FALSE /\ firing = None /\ again = FALSE

Off(x) == IF \E i \in DOMAIN armed : armed[i] = x
          THEN RemoveAt(armed, CHOOSE i \in DOMAIN armed : armed[i] = x)
          ELSE armed
DueNow == {i \in DOMAIN armed : left[armed[i]] = 0}

(* x is due, and every timer started before it that still runs is not. *)
FirstDue(x) == \E i \in DueNow : armed[i] = x /\ \A j \in DueNow : i <= j

(* Application code runs, or a callback does. *)
Open == ~checking \/ firing # None

Start(x) == /\ Open
            /\ armed' = Append(Off(x), x)
            /\ \E d \in Interval : left' = [left EXCEPT ![x] = d]
            /\ again' = (again \/ x = firing)
            /\ UNCHANGED <<checking, firing>>

Stop(x) == /\ Open
           /\ armed' = Off(x)
           /\ left' = [left EXCEPT ![x] = 0]
           /\ again' = (again /\ x # firing)
           /\ UNCHANGED <<checking, firing>>

Tick == /\ ~checking
        /\ checking' = TRUE
        /\ left' = [x \in Timer |-> IF x \in ToSet(armed) THEN left[x] - 1 ELSE 0]
        /\ UNCHANGED <<armed, firing, again>>

Fire(x) == /\ checking /\ firing = None /\ FirstDue(x)
           /\ firing' = x
           /\ armed' = Off(x)
           /\ again' = (x \in Periodic)
           /\ UNCHANGED <<left, checking>>

(* The callback returns; the timer may start again. *)
Return == /\ firing # None
          /\ firing' = None /\ again' = FALSE
          /\ IF again
             THEN /\ armed' = Append(Off(firing), firing)
                  /\ \E d \in Interval : left' = [left EXCEPT ![firing] = d]
             ELSE UNCHANGED <<armed, left>>
          /\ UNCHANGED checking

Done == /\ checking /\ firing = None /\ DueNow = {}
        /\ checking' = FALSE
        /\ UNCHANGED <<armed, left, firing, again>>

Next == \/ Tick \/ Return \/ Done
        \/ \E x \in Timer : Start(x) \/ Stop(x) \/ Fire(x)

Spec == Init /\ [][Next]_svars
=============================================================================
