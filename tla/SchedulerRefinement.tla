------------------------ MODULE SchedulerRefinement ------------------------
(***************************************************************************)
(* The scheduler implements ProcessStates.  The mapping forgets the order  *)
(* of the process table and CURRENT_INDEX, and reads one wait from the     *)
(* three flags of an entry.                                                *)
(***************************************************************************)
EXTENDS Scheduler

Living == {processes[i].pid : i \in DOMAIN processes}

WaitOf(p) ==
    CASE p.blocking         -> [for |-> "input", what |-> None]
      [] p.awaiting # None  -> [for |-> "process", what |-> p.awaiting]
      [] p.sleep # None     -> [for |-> "tick", what |-> p.sleep]
      [] OTHER              -> [for |-> "nothing", what |-> None]

WaitMap ==
    [pid \in Pids |->
        IF pid \in Living
        THEN WaitOf(processes[CHOOSE i \in DOMAIN processes : processes[i].pid = pid])
        ELSE [for |-> "nothing", what |-> None]]

Abstract == INSTANCE ProcessStates WITH
    Ticks <- 0 .. MaxTick,
    born <- 0 .. pid_counter - 1,
    alive <- Living,
    wait <- WaitMap,
    now <- ticks,
    on_cpu <- running

\* The table, the flags and the round-robin search of next_process keep the
\* promise of ProcessStates: only due processes get the CPU, each wait ends for
\* its own reason, and nobody gets the CPU only when nobody is due.
KeepsPromise == Abstract!Promise
=============================================================================
