---------------------------- MODULE ShellSession ---------------------------
(***************************************************************************)
(* The scheduler with the programs of the disk image on it: the shell      *)
(* (userspace/shell/main.rs), which is process 0 and never exits, and what *)
(* it launches.  "tool" stands for ls, cat and sample, "editor" for edit,  *)
(* and "launcher" for sample2, which executes sample and exits without     *)
(* waiting for it.  Only these run; the kernel refuses a second shell.     *)
(*                                                                         *)
(* A tick on the return path of a system call loses the registers of the   *)
(* caller (ContextLostOnlyInReturn of Scheduler); what the programs do     *)
(* with lost registers is not followed.                                    *)
(***************************************************************************)
EXTENDS Scheduler

VARIABLES program,  \* which program a process runs
          at,       \* where the process is in its program
          child     \* the shell's local pid, as execute returned it

sessionVars == <<vars, program, at, child>>

Shell == 0
Programs == {"tool", "editor", "launcher"}

SessionInit ==
    /\ Init
    /\ program = [p \in Pids |-> IF p = Shell THEN "shell" ELSE "tool"]
    /\ at = [p \in Pids |-> "start"]
    /\ child = 0

Runs(p, which) == running = p /\ program[p] \in which

\* execute of a program that is there: the new pid is the result.
Executes(which) ==
    /\ Execute
    /\ program' = [program EXCEPT ![pid_counter] = which]

\* The shell reads a line, writes, sleeps, and does its own commands.
ShellCommand ==
    /\ Runs(Shell, {"shell"})
    /\ at[Shell] = "start"
    /\ OtherSyscall \/ ReadStdin \/ \E duration \in 1 .. MaxTick : Nanosleep(duration)
    /\ UNCHANGED <<program, at, child>>

\* launch, its execute calls: a name with a slash is tried as it stands, any
\* other one in /bin first.  Result 0 is a failure.
LaunchUnwaited ==
    /\ Runs(Shell, {"shell"})
    /\ at[Shell] \in {"start", "path"}
    /\ \/ /\ \E which \in Programs : Executes(which)
          /\ child' = pid_counter
          /\ at' = [at EXCEPT ![Shell] = "start"]
       \/ /\ OtherSyscall
          /\ child' = 0
          /\ at' = [at EXCEPT ![Shell] = "start"]
          /\ UNCHANGED program

Launch ==
    /\ Runs(Shell, {"shell"})
    /\ at[Shell] \in {"start", "path"}
    /\ \/ /\ \E which \in Programs : Executes(which)
          /\ child' = pid_counter
          /\ at' = [at EXCEPT ![Shell] = "launched"]
       \/ /\ OtherSyscall
          /\ child' = 0
          /\ \E next \in IF at[Shell] = "start" THEN {"path", "start"} ELSE {"start"} :
                at' = [at EXCEPT ![Shell] = next]
          /\ UNCHANGED program

\* launch, once execute gave a pid: wait_for_process(pid).
LaunchWaits ==
    /\ Runs(Shell, {"shell"})
    /\ at[Shell] = "launched"
    /\ WaitForProcess(child)
    /\ at' = [at EXCEPT ![Shell] = "start"]
    /\ UNCHANGED <<program, child>>

\* System calls of the other programs; edit reads keys.
ProgramCalls ==
    /\ \E p \in Pids :
          \/ Runs(p, Programs) /\ OtherSyscall
          \/ Runs(p, {"editor"}) /\ ReadStdin
    /\ UNCHANGED <<program, at, child>>

\* sample2 executes sample.elf, found or not, and then only exits.
LauncherExecutes ==
    \E p \in Pids :
        /\ Runs(p, {"launcher"})
        /\ at[p] = "start"
        /\ at' = [at EXCEPT ![p] = "launched"]
        /\ \/ Executes("tool")
           \/ OtherSyscall /\ UNCHANGED program
        /\ UNCHANGED child

ProgramExits ==
    /\ \E p \in Pids :
          /\ Runs(p, Programs)
          /\ program[p] = "launcher" => at[p] = "launched"
    /\ Exit
    /\ UNCHANGED <<program, at, child>>

\* What happens to a process whatever its program: boot, its own
\* computations, the end of a system call and the timer.
Machine ==
    /\ \/ BootDeploy
       \/ Enable
       \/ EarlyTick
       \/ UserStep
       \/ Iretq
       \/ cpu.mode # "return" /\ \E input \in Chars \cup {None} : TimerIsr(input)
    /\ UNCHANGED <<program, at, child>>

SessionNext ==
    \/ ShellCommand
    \/ Launch
    \/ LaunchWaits
    \/ ProgramCalls
    \/ LauncherExecutes
    \/ ProgramExits
    \/ Machine

SessionSpec == SessionInit /\ [][SessionNext]_sessionVars

----------------------------------------------------------------------------

\* process_input gives a character to every blocked process; in a session at
\* most one is blocked, so a key reaches one program, and the shell reads none
\* of what is typed for the program in front.
OneReader ==
    \A i, j \in DOMAIN processes :
        processes[i].blocking /\ processes[j].blocking => i = j

\* current_wait_for_process checks no pid.  In a session a process waits only
\* for a later one: no cycle of waits, nobody waits for itself, and the
\* value 0 that execute returns for a failure, the shell's own pid, is never
\* waited for.
WaitsAreForLater ==
    \A i \in DOMAIN processes :
        processes[i].awaiting # None => processes[i].awaiting > processes[i].pid

\* While the shell is at its prompt, the program it launched last is gone.
PromptMeansDone ==
    Alive(Shell) /\ at[Shell] = "start" /\ child # 0 /\ running = Shell
        => ~Alive(child)
=============================================================================
