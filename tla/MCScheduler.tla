---------------------------- MODULE MCScheduler ----------------------------
(***************************************************************************)
(* The scheduler for TLC, in two kinds of behaviour: with processes that   *)
(* make any system call at any time, and with the programs of the disk     *)
(* image.  `free` tells which.  There are more processes in a session.     *)
(***************************************************************************)
EXTENDS SchedulerRefinement, ShellSession

CONSTANT FreePids       \* bound: pids handed out to processes that do anything

VARIABLE free

SuiteInit == SessionInit /\ free \in BOOLEAN

SuiteNext ==
    \/ /\ free
       /\ Next
       /\ pid_counter' <= FreePids
       /\ UNCHANGED <<program, at, child, free>>
    \/ /\ ~free
       /\ SessionNext
       /\ UNCHANGED free

SuiteSpec == SuiteInit /\ [][SuiteNext]_<<sessionVars, free>>
----------------------------------------------------------------------------
\* The shell and the programs it launches: a key typed reaches one program
\* (process_input), processes wait for later ones only and so never for each
\* other (current_wait_for_process), and the shell is back at its prompt only
\* when the program it launched last is gone (launch).
SessionSound ==
    ~free => OneReader /\ WaitsAreForLater /\ PromptMeansDone
=============================================================================
