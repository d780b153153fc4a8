------------------------------- MODULE Clock -------------------------------
(***************************************************************************)
(* The tick clock (src/time/mod.rs) against real time, and a process that  *)
(* sleeps on it (src/syscall/nanosleep.rs).  Real time is counted in units *)
(* of which a PIT period has Period.  A PIT edge is latched while          *)
(* interrupts are off, and a second edge is lost.                          *)
(***************************************************************************)
EXTENDS Integers

CONSTANTS Period,               \* units of real time in a tick
          Durations,            \* what a process asks nanosleep for
          MaxDuration,          \* total_ns beyond it overflows
          MaxNow                \* the last unit of the model

ClockAssumption ==
    /\ Period \in Nat \ {0} /\ Durations \subseteq Nat
    /\ MaxDuration \in Nat /\ MaxNow \in Nat

VARIABLES now,                  \* real time since the PIT was started
          TICKS,
          latched,              \* a PIT edge waits for its interrupt
          sleep,                \* the sleep in progress, or Awake
          slept                 \* the last sleep that ended, or Awake

vars == <<now, TICKS, latched, sleep, slept>>

Awake == [start |-> -1, duration |-> 0, deadline |-> 0, end |-> 0]

Init ==
    /\ now = 0
    /\ TICKS = 0
    /\ latched = FALSE
    /\ sleep = Awake
    /\ slept = Awake

PeriodTakenOff(duration) == (duration - Period) \div Period

DurationToTicks(duration) == (duration + Period - 1) \div Period
----------------------------------------------------------------------------
(* Real time passes; the PIT raises an edge at the end of each period. *)
Elapse ==
    /\ now < MaxNow
    /\ now' = now + 1
    /\ latched' = (latched \/ now' % Period = 0)
    /\ UNCHANGED <<TICKS, sleep, slept>>

TimerIsrAgain ==
    /\ latched
    /\ TICKS' = TICKS + 1
    /\ UNCHANGED <<now, latched, sleep, slept>>

(* The timer interrupt: tick, and schedule wakes a process whose deadline  *)
(* is reached.  How much later it runs is module Scheduler.                *)
TimerIsr ==
    /\ latched
    /\ latched' = FALSE
    /\ TICKS' = TICKS + 1
    /\ IF sleep # Awake /\ sleep.deadline <= TICKS'
       THEN /\ slept' = [sleep EXCEPT !.end = now]
            /\ sleep' = Awake
       ELSE UNCHANGED <<sleep, slept>>
    /\ UNCHANGED now

(* A sleep of no ticks returns at once. *)
Nanosleep(duration) ==
    /\ sleep = Awake
    /\ duration <= MaxDuration
    /\ IF DurationToTicks(duration) = 0
       THEN /\ slept' = [start |-> now, duration |-> duration,
                         deadline |-> TICKS, end |-> now]
            /\ UNCHANGED sleep
       ELSE /\ sleep' = [start |-> now, duration |-> duration, end |-> 0,
                         deadline |-> TICKS + DurationToTicks(duration)]
            /\ UNCHANGED slept
    /\ UNCHANGED <<now, TICKS, latched>>

(* A duration whose nanoseconds overflow is refused. *)
TooLong(duration) ==
    /\ sleep = Awake
    /\ duration > MaxDuration
    /\ UNCHANGED vars

Next ==
    \/ Elapse
    \/ TimerIsr
    \/ \E duration \in Durations : Nanosleep(duration) \/ TooLong(duration)

Spec == Init /\ [][Next]_vars
----------------------------------------------------------------------------
Ended(s) == s # Awake

(* Times, ticks and sleeps stay within their ranges. *)
TypeOK ==
    LET Sleep == [start : 0..MaxNow, duration : Durations,
                  deadline : Nat, end : 0..MaxNow] \cup {Awake}
    IN  /\ now \in 0..MaxNow /\ TICKS \in 0..MaxNow /\ latched \in BOOLEAN
        /\ sleep \in Sleep /\ slept \in Sleep

(* The monotonic clock (TICKS periods) is never ahead of real time: edges  *)
(* are lost or taken late, never counted twice.                            *)
NeverAhead == TICKS * Period + (IF latched THEN Period ELSE 0) <= now

(* A sleep is less than two ticks short of its duration: it may begin at   *)
(* the end of a period, with the edge of the period before still latched.  *)
LessThanTwoTicksShort ==
    Ended(slept) => slept.end - slept.start > slept.duration - 2 * Period
=============================================================================
