----------------------------- MODULE Scheduler -----------------------------
(***************************************************************************)
(* The process table and the round-robin scheduler of the kernel           *)
(* (src/scheduling/mod.rs), with the two things that drive it: the timer   *)
(* interrupt (src/arch/x86_64/timer_isr.rs) and the system calls of the    *)
(* process on the CPU (src/syscall).                                       *)
(*                                                                         *)
(* There is one CPU.  Interrupt handlers run with interrupts off, so each  *)
(* handler is one step; what interleaves is user code, timer ticks, serial *)
(* input and the return path of a system call, whose trampoline executes   *)
(* "sti" before the registers are restored and so is a step of its own.    *)
(***************************************************************************)
EXTENDS Integers, Sequences, SequencesExt

CONSTANTS
    MaxPid,     \* bound: number of process ids handed out
    MaxTick,    \* bound: the tick at which the modelled clock stops
    Chars,      \* characters the serial port can deliver
    Pcs         \* positions of a process in its own code

ASSUME SchedulerAssumption ==
    /\ MaxPid \in Nat \ {0}
    /\ MaxTick \in Nat
    /\ Pcs # {}
    /\ Chars \cap {"user", "result"} = {}

VARIABLES
    processes,      \* PROCESSES: the process table, in scheduling order
    current_index,  \* CURRENT_INDEX, counted from 0 as in the code
    pid_counter,    \* PID_COUNTER
    ticks,          \* time::TICKS
    enabled,        \* SCHEDULING_ENABLED
    cpu,            \* what the CPU executes: mode, and registers of user code
    running,        \* pid of the process whose context was jumped to last
    regs            \* history: each process's registers as it last left them

vars == <<processes, current_index, pid_counter, ticks, enabled, cpu, running, regs>>

None == -1
Pids == 0 .. MaxPid - 1

\* FullInterruptStackFrame, abstracted to a code position and the result
\* register.  "user" is a value user code left in rax, "result" a system
\* call's return value.
Context == [pc : Pcs, rax : {"user", "result"} \cup Chars]

KernelContext == [pc |-> "kernel", rax |-> "user"]

EntryContext == [pc |-> CHOOSE pc \in Pcs : TRUE, rax |-> "user"]

\* Process::from, with the context deploy completes.
NewProcess(pid) ==
    [pid |-> pid, pre_schedule |-> TRUE, blocking |-> FALSE, awaiting |-> None,
     sleep |-> None, context |-> EntryContext]

\* The Option<&FullInterruptStackFrame> handed to schedule: no frame, a frame
\* whose rip is kernel text (at most 0x1FFFFF), or one of user code.
NoFrame == [kind |-> "none", context |-> KernelContext]
KernelFrame == [kind |-> "kernel", context |-> KernelContext]
UserFrame(context) == [kind |-> "user", context |-> context]

-----------------------------------------------------------------------------

\* Plausible slips in the definitions below, each named for what it gets wrong.
SaveKernelRegisters(procs, index, frame) ==
    IF frame.kind # "none" /\ index < Len(procs) /\ ~procs[index + 1].pre_schedule
    THEN [procs EXCEPT ![index + 1].context = frame.context]
    ELSE procs

SaveWithoutResult(procs, index, frame) ==
    IF frame.kind = "user" /\ index < Len(procs) /\ ~procs[index + 1].pre_schedule
    THEN [procs EXCEPT ![index + 1].context.pc = frame.context.pc]
    ELSE procs

ReadyIgnoringSleep(procs, i, now) ==
    LET p == procs[i + 1]
    IN  IF p.awaiting # None
        THEN \A j \in 1 .. Len(procs) : procs[j].pid # p.awaiting
        ELSE ~p.blocking

DistanceFromStart(index, i, n) == i

PickedStillWaiting(p) == [p EXCEPT !.pre_schedule = FALSE, !.sleep = None]

\* The saving half of next_process: the interrupted registers become the
\* saved context of the current entry, unless they are the kernel's.
Save(procs, index, frame) ==
    IF /\ frame.kind = "user"
       /\ index < Len(procs)
       /\ ~procs[index + 1].pre_schedule
    THEN [procs EXCEPT ![index + 1].context = frame.context]
    ELSE procs

\* The readiness test of next_process.  An awaited pid decides alone, even
\* over the blocking flag.
Ready(procs, i, now) ==
    LET p == procs[i + 1]
    IN  /\ IF p.awaiting # None
           THEN \A j \in 1 .. Len(procs) : procs[j].pid # p.awaiting
           ELSE ~p.blocking
        /\ p.sleep = None \/ p.sleep <= now

\* How many entries the loop of next_process looks at before entry i when it
\* starts behind entry index of a table of length n.
Distance(index, i, n) ==
    LET first == IF index + 1 >= n THEN 0 ELSE index + 1
    IN  IF i >= first THEN i - first ELSE n - first + i

\* The process's flags once next_process has picked it.
Picked(p) == [p EXCEPT !.pre_schedule = FALSE, !.awaiting = None, !.sleep = None]

\* A search that stops short of the entry it started behind.
ScheduleOthersOnly(procs, index, frame, now) ==
    LET saved == Save(procs, index, frame)
        n     == Len(procs)
        ready == {i \in 0 .. n - 1 : i # index /\ Ready(saved, i, now)}
    IN  \/ /\ ready = {}
           /\ processes' = saved
           /\ current_index' = index
           /\ cpu' = [mode |-> "idle", context |-> KernelContext]
           /\ running' = None
        \/ \E i \in ready :
              /\ \A k \in ready : Distance(index, i, n) <= Distance(index, k, n)
              /\ processes' = [saved EXCEPT ![i + 1] = Picked(@)]
              /\ current_index' = i
              /\ cpu' = [mode |-> "user", context |-> saved[i + 1].context]
              /\ running' = saved[i + 1].pid

\* schedule: save, pick the next ready process and jump to it, or idle with
\* interrupts on when none is ready.  Every deployed process has a page table
\* in the slot region, so the table switch before the jump does not fail.
Schedule(procs, index, frame, now) ==
    LET saved == Save(procs, index, frame)
        n     == Len(procs)
        ready == {i \in 0 .. n - 1 : Ready(saved, i, now)}
    IN  \/ /\ ready = {}
           /\ processes' = saved
           /\ current_index' = index
           /\ cpu' = [mode |-> "idle", context |-> KernelContext]
           /\ running' = None
        \/ \E i \in ready :
              /\ \A k \in ready : Distance(index, i, n) <= Distance(index, k, n)
              /\ processes' = [saved EXCEPT ![i + 1] = Picked(@)]
              /\ current_index' = i
              /\ cpu' = [mode |-> "user", context |-> saved[i + 1].context]
              /\ running' = saved[i + 1].pid

\* process_input: every blocked reader receives the character.
ProcessInput(procs, input) ==
    [i \in 1 .. Len(procs) |->
        IF procs[i].blocking
        THEN [procs[i] EXCEPT !.context.rax = input, !.blocking = FALSE]
        ELSE procs[i]]

\* A pid that is the length of the table.
DeployByTableLength(fork_current) ==
    /\ pid_counter < MaxPid
    /\ pid_counter' = pid_counter + 1
    /\ processes' = Append(processes, NewProcess(Len(processes)))

\* deploy: the pid is taken whether or not the process is added.
Deploy(fork_current) ==
    /\ pid_counter < MaxPid
    /\ pid_counter' = pid_counter + 1
    /\ processes' =
          IF fork_current /\ processes # <<>> /\ current_index >= Len(processes)
          THEN processes
          ELSE Append(processes, NewProcess(pid_counter))

\* exit_current: where CURRENT_INDEX points once the entry is removed.
IndexAfterExit(index) == IF index # 0 THEN index - 1 ELSE 0

-----------------------------------------------------------------------------

Init ==
    /\ processes = <<>>
    /\ current_index = 0
    /\ pid_counter = 0
    /\ ticks = 0
    /\ enabled = FALSE
    /\ cpu = [mode |-> "boot", context |-> KernelContext]
    /\ running = None
    /\ regs = [p \in Pids |-> EntryContext]

\* rust_main deploys the shell as process 0 and then enables scheduling.
BootDeploy ==
    /\ cpu.mode = "boot"
    /\ ~enabled
    /\ processes = <<>>
    /\ Deploy(FALSE)
    /\ UNCHANGED <<current_index, ticks, enabled, cpu, running, regs>>

Enable ==
    /\ cpu.mode = "boot"
    /\ ~enabled
    /\ processes # <<>>
    /\ enabled' = TRUE
    /\ UNCHANGED <<processes, current_index, pid_counter, ticks, cpu, running, regs>>

\* User code changes its registers.
UserStep ==
    /\ cpu.mode = "user"
    /\ \E pc \in Pcs :
          /\ cpu' = [cpu EXCEPT !.context = [pc |-> pc, rax |-> "user"]]
          /\ regs' = [regs EXCEPT ![running] = [pc |-> pc, rax |-> "user"]]
    /\ UNCHANGED <<processes, current_index, pid_counter, ticks, enabled, running>>

TickNotCounted == ticks' = ticks

\* time::tick; the modelled clock stops at MaxTick, the last deadline.
Tick == ticks' = IF ticks < MaxTick THEN ticks + 1 ELSE ticks

\* The frame the timer interrupt finds: user registers only when it
\* interrupted user code, and kernel text on the return path of a system call.
Interrupted == IF cpu.mode = "user" THEN UserFrame(cpu.context) ELSE KernelFrame

\* timer_isr with scheduling enabled, with no character or one from the port.
TimerIsr(input) ==
    LET procs == IF input = None THEN processes ELSE ProcessInput(processes, input)
    IN  /\ enabled
        /\ Tick
        /\ Schedule(procs, current_index, Interrupted, ticks')
        /\ regs' = [p \in Pids |->
              IF \E i \in 1 .. Len(processes) :
                    processes[i].pid = p /\ processes[i].blocking /\ input # None
              THEN [regs[p] EXCEPT !.rax = input]
              ELSE regs[p]]
        /\ UNCHANGED <<pid_counter, enabled>>

\* timer_isr before scheduling::enable only counts.
EarlyTick ==
    /\ ~enabled
    /\ Tick
    /\ UNCHANGED <<processes, current_index, pid_counter, enabled, cpu, running, regs>>

-----------------------------------------------------------------------------

\* A system call that comes back to its caller: its value is in the frame, the
\* trampoline has executed sti, and the registers are not yet restored.
Return(value) ==
    LET frame == [cpu.context EXCEPT !.rax = value]
    IN  /\ cpu' = [mode |-> "return", context |-> frame]
        /\ regs' = [regs EXCEPT ![running] = frame]

\* Any system call that neither switches nor changes the process table.
OtherSyscall ==
    /\ cpu.mode = "user"
    /\ Return("result")
    /\ UNCHANGED <<processes, current_index, pid_counter, ticks, enabled, running>>

\* execute whose ELF image loads: elf::load supplies both the stack and the
\* page table that Process::from insists on.
Execute ==
    /\ cpu.mode = "user"
    /\ Deploy(TRUE)
    /\ Return("result")
    /\ UNCHANGED <<current_index, ticks, enabled, running>>

\* The rest of the trampoline: pop the registers and iretq.
Iretq ==
    /\ cpu.mode = "return"
    /\ cpu' = [cpu EXCEPT !.mode = "user"]
    /\ UNCHANGED <<processes, current_index, pid_counter, ticks, enabled, running, regs>>

\* The system calls that hand the CPU over: set a flag of the entry at
\* CURRENT_INDEX, then schedule with the caller's frame.
Current == processes[current_index + 1]
WithCurrent(p) == [processes EXCEPT ![current_index + 1] = p]

SwitchAway(procs, frame) ==
    /\ cpu.mode = "user"
    /\ Schedule(procs, current_index, UserFrame(frame), ticks)
    /\ regs' = [regs EXCEPT ![running] = frame]
    /\ UNCHANGED <<pid_counter, ticks, enabled>>

Yield == SwitchAway(processes, cpu.context)

\* read on descriptors 0 to 2: block_current.
ReadStdin ==
    SwitchAway(WithCurrent([Current EXCEPT !.blocking = TRUE]), cpu.context)

\* wait_for_process: current_wait_for_process does not ask whether pid exists.
WaitForProcess(pid) ==
    SwitchAway(WithCurrent([Current EXCEPT !.awaiting = pid]), cpu.context)

\* nanosleep of at least one tick: sleep_current_until, and success in the
\* frame before it is saved.
Nanosleep(duration) ==
    /\ ticks + duration <= MaxTick
    /\ SwitchAway(WithCurrent([Current EXCEPT !.sleep = ticks + duration]),
                  [cpu.context EXCEPT !.rax = "result"])

\* exit: exit_current, then schedule without a frame.
Exit ==
    /\ cpu.mode = "user"
    /\ IF current_index >= Len(processes)
       THEN Schedule(processes, current_index, NoFrame, ticks)
       ELSE Schedule(RemoveAt(processes, current_index + 1),
                     IndexAfterExit(current_index), NoFrame, ticks)
    /\ UNCHANGED <<pid_counter, ticks, enabled, regs>>

\* Steps that leave the process on the CPU alone.
Stays ==
    \/ BootDeploy
    \/ Enable
    \/ EarlyTick
    \/ UserStep
    \/ OtherSyscall
    \/ Execute
    \/ Iretq

\* Steps that end in a scheduling decision.
Switches ==
    \/ \E input \in Chars \cup {None} : TimerIsr(input)
    \/ Yield
    \/ ReadStdin
    \/ \E pid \in Pids : WaitForProcess(pid)
    \/ \E duration \in 1 .. MaxTick : Nanosleep(duration)
    \/ Exit

Next == Stays \/ Switches

Spec == Init /\ [][Next]_vars

\* Boot runs to its end and the timer interrupts forever; nothing is assumed of
\* the processes.
Fairness ==
    /\ WF_vars(BootDeploy)
    /\ WF_vars(Enable)
    /\ WF_vars(\E input \in Chars \cup {None} : TimerIsr(input))

FairSpec == Spec /\ Fairness

-----------------------------------------------------------------------------

Process == [pid : Pids, pre_schedule : BOOLEAN, blocking : BOOLEAN,
            awaiting : Pids \cup {None}, sleep : (0 .. MaxTick) \cup {None},
            context : Context]

\* Every variable has the type the code gives it.
TypeOK ==
    /\ processes \in Seq(Process)
    /\ current_index \in Nat
    /\ pid_counter \in 0 .. MaxPid
    /\ ticks \in 0 .. MaxTick
    /\ enabled \in BOOLEAN
    /\ cpu \in [mode : {"boot", "idle"}, context : {KernelContext}]
               \cup [mode : {"user", "return"}, context : Context]
    /\ running \in Pids \cup {None}
    /\ regs \in [Pids -> Context]

\* Pids are never handed out twice: exit, a failed deploy and the order of the
\* table never make two entries share one (deploy, exit_current).
PidsDistinct ==
    /\ \A i \in DOMAIN processes : processes[i].pid < pid_counter
    /\ \A i, j \in DOMAIN processes : processes[i].pid = processes[j].pid => i = j

Waits(p) == {w \in {"input", "process", "sleep"} :
                \/ w = "input" /\ p.blocking
                \/ w = "process" /\ p.awaiting # None
                \/ w = "sleep" /\ p.sleep # None}

\* A process waits for one thing at a time.  next_process lets an awaited pid
\* override the blocking flag and clears only two of the three flags, which is
\* right only because of this.
OneWait ==
    \A i \in DOMAIN processes : \A w1, w2 \in Waits(processes[i]) : w1 = w2

\* While user code or a returning system call is on the CPU, CURRENT_INDEX
\* names its entry: the indexing in block_current and sleep_current_until stays
\* in bounds, and a system call acts on its own caller, who waits for nothing.
CurrentIsRunning ==
    /\ cpu.mode \in {"user", "return"} <=> running # None
    /\ running # None =>
          /\ current_index < Len(processes)
          /\ processes[current_index + 1].pid = running
          /\ ~processes[current_index + 1].pre_schedule
          /\ Waits(processes[current_index + 1]) = {}

\* The CPU idles only while every process really waits: no wake-up is missed
\* between a process becoming ready and the scheduler finding nobody to run.
IdleOnlyWhenAllWait ==
    cpu.mode = "idle" =>
        \A i \in 0 .. Len(processes) - 1 : ~Ready(processes, i, ticks)

\* The registers process p goes on with when it next executes.
Resumes(p) ==
    IF running = p THEN cpu.context
    ELSE processes[CHOOSE i \in DOMAIN processes : processes[i].pid = p].context

Intact(p) == Resumes(p) = regs[p]

Alive(p) == \E i \in DOMAIN processes : processes[i].pid = p

\* Every process goes on with the registers it left, its system call's result
\* and the character it read included.
ContextsIntact == \A p \in Pids : Alive(p) => Intact(p)

\* The only step that may break this for a process is a tick that finds it
\* between the sti and the iretq of the trampoline; blocking, sleeping,
\* waiting, idling, input and the exit of others all keep it.
ContextLostOnlyInReturn ==
    [][\A p \in Pids :
          Alive(p) /\ Intact(p) /\ Alive(p)'
          /\ ~(cpu.mode = "return" /\ running = p /\ cpu'.mode # "return" /\ ~Iretq)
          => Intact(p)']_vars

\* A ready process is eventually given the CPU, whatever the others do: the
\* round robin starves nobody.  A process that awaits a pid not handed out yet
\* is left out: it is ready, and stops being so when that pid is deployed.
ReadyRuns ==
    \A p \in Pids :
        (\E i \in 0 .. Len(processes) - 1 :
            /\ processes[i + 1].pid = p
            /\ processes[i + 1].awaiting < pid_counter
            /\ Ready(processes, i, ticks)) ~> running = p

\* A sleeping process eventually runs again.
SleeperRuns ==
    \A p \in Pids :
        (\E i \in DOMAIN processes : processes[i].pid = p /\ processes[i].sleep # None)
            ~> running = p
=============================================================================
