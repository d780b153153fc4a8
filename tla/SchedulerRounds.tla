-------------------------- MODULE SchedulerRounds --------------------------
(***************************************************************************)
(* The scheduler with a history of overtaking: passed[p][q] counts how     *)
(* often q was given the CPU since process p last ran or was not ready.    *)
(***************************************************************************)
EXTENDS Scheduler

VARIABLE passed

roundVars == <<vars, passed>>

NoCount == [q \in Pids |-> 0]

RoundInit == Init /\ passed = [p \in Pids |-> NoCount]

\* p is ready in the new state and somebody else was picked.
LeftWaiting(p) ==
    /\ running' # p
    /\ \E i \in 0 .. Len(processes') - 1 :
          processes'[i + 1].pid = p /\ Ready(processes', i, ticks')

RoundNext ==
    \/ Stays /\ UNCHANGED passed
    \/ /\ Switches
       /\ passed' = [p \in Pids |->
             IF LeftWaiting(p) THEN [passed[p] EXCEPT ![running'] = @ + 1] ELSE NoCount]

RoundSpec == RoundInit /\ [][RoundNext]_roundVars

FairRoundSpec == RoundSpec /\ Fairness

\* A process that stays ready is overtaken at most twice by the same other
\* process: once in the round, and once more when the process before it exits
\* from entry 0 and exit_current's index arithmetic skips its successor.
OvertakenAtMostTwice == \A p, q \in Pids : passed[p][q] <= 2
=============================================================================
