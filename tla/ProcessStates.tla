--------------------------- MODULE ProcessStates ---------------------------
(***************************************************************************)
(* What the scheduler promises its processes, without the process table,   *)
(* its index, the flags and the order of the round: each living process    *)
(* waits for at most one thing, and whenever the CPU is handed over it     *)
(* goes to a living process with nothing left to wait for, or to nobody    *)
(* when there is none.                                                     *)
(***************************************************************************)
EXTENDS Integers

CONSTANTS Pids, Ticks, None

VARIABLES
    born,    \* pids ever given to a process
    alive,   \* pids of the processes that have not exited
    wait,    \* what each process waits for
    now,     \* the tick counter
    on_cpu   \* the process on the CPU, or None

states == <<born, alive, wait, now, on_cpu>>

Nothing == [for |-> "nothing", what |-> None]
Input == [for |-> "input", what |-> None]
Wait == {Nothing, Input}
        \cup [for : {"process"}, what : Pids]
        \cup [for : {"tick"}, what : Ticks]

Due(w, living, time) ==
    \/ w = Nothing
    \/ w.for = "process" /\ w.what \notin living
    \/ w.for = "tick" /\ w.what <= time

\* Give the CPU to a living process that is due, to nobody only if none is.
HandOver(living, waiting, time) ==
    LET due == {p \in living : Due(waiting[p], living, time)}
    IN  /\ alive' = living
        /\ \/ due = {} /\ on_cpu' = None /\ wait' = waiting
           \/ \E p \in due : on_cpu' = p /\ wait' = [waiting EXCEPT ![p] = Nothing]

Start ==
    /\ born = {}
    /\ alive = {}
    /\ wait = [p \in Pids |-> Nothing]
    /\ now = 0
    /\ on_cpu = None

\* A process is created under a pid no process ever had.
Spawn ==
    /\ \E p \in Pids \ born : born' = born \cup {p} /\ alive' = alive \cup {p}
    /\ UNCHANGED <<wait, now, on_cpu>>

Advance == now' \in {now, now + 1} \cap Ticks

\* Time passes while nobody may be switched.
Pass == Advance /\ UNCHANGED <<born, alive, wait, on_cpu>>

\* A tick; input, if any, ends every wait for input.
Interrupt ==
    /\ UNCHANGED born
    /\ Advance
    /\ \E input \in BOOLEAN :
          HandOver(alive, [p \in Pids |-> IF input /\ wait[p] = Input THEN Nothing
                                          ELSE wait[p]], now')

\* The process on the CPU gives it up, to wait or just to yield.
GiveUp ==
    /\ on_cpu # None
    /\ UNCHANGED <<born, now>>
    /\ \E w \in Wait : HandOver(alive, [wait EXCEPT ![on_cpu] = w], now)

Die ==
    /\ on_cpu # None
    /\ UNCHANGED <<born, now>>
    /\ HandOver(alive \ {on_cpu}, wait, now)

Change == Pass \/ Spawn \/ Die \/ Interrupt \/ GiveUp

Promise == Start /\ [][Change]_states
=============================================================================
