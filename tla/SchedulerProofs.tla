-------------------------- MODULE SchedulerProofs --------------------------
(***************************************************************************)
(* The safety invariants of Scheduler, proved for every number of          *)
(* processes, every clock bound, every set of characters and every set of  *)
(* code positions.                                                         *)
(***************************************************************************)
EXTENDS Scheduler, SequenceTheorems, TLAPS

-----------------------------------------------------------------------------
(* Facts about the operators of Scheduler.                                 *)

\* RemoveAt, which stands for Vec::remove in exit_current, keeps the entries
\* before the removed one and moves the later ones down by one.
LEMMA RemoveAtFacts ==
    ASSUME NEW S, NEW s \in Seq(S), NEW i \in 1 .. Len(s)
    PROVE  /\ RemoveAt(s, i) \in Seq(S)
           /\ Len(RemoveAt(s, i)) = Len(s) - 1
           /\ \A j \in 1 .. Len(s) - 1 :
                 RemoveAt(s, i)[j] = IF j < i THEN s[j] ELSE s[j + 1]
  <1> DEFINE a == SubSeq(s, 1, i - 1)
             b == SubSeq(s, i + 1, Len(s))
  <1>0. Len(s) \in Nat /\ \A j \in 1 .. Len(s) : s[j] \in S
    BY ElementOfSeq, LenProperties
  <1>1. a \in Seq(S) /\ Len(a) = i - 1 /\ \A j \in 1 .. i - 1 : a[j] = s[j]
    <2>1. \A j \in 1 .. i - 1 : s[j] \in S
      BY <1>0
    <2>2. /\ a \in Seq(S)
          /\ Len(a) = IF 1 <= i - 1 THEN (i - 1) - 1 + 1 ELSE 0
          /\ \A j \in 1 .. (i - 1) - 1 + 1 : a[j] = s[1 + j - 1]
      BY <2>1, <1>0, SubSeqProperties
    <2>3. QED
      BY <2>2, <1>0
  <1>2. /\ b \in Seq(S) /\ Len(b) = Len(s) - i
        /\ \A j \in 1 .. Len(s) - i : b[j] = s[i + j]
    <2>1. \A j \in i + 1 .. Len(s) : s[j] \in S
      BY <1>0
    <2>2. /\ b \in Seq(S)
          /\ Len(b) = IF i + 1 <= Len(s) THEN Len(s) - (i + 1) + 1 ELSE 0
          /\ \A j \in 1 .. Len(s) - (i + 1) + 1 : b[j] = s[(i + 1) + j - 1]
      BY <2>1, <1>0, SubSeqProperties
    <2>3. QED
      BY <2>2, <1>0
  <1> DEFINE c == a \o b
  <1>3. /\ c \in Seq(S)
        /\ Len(c) = Len(a) + Len(b)
        /\ \A j \in 1 .. Len(a) + Len(b) :
             c[j] = IF j <= Len(a) THEN a[j] ELSE b[j - Len(a)]
    BY <1>1, <1>2, ConcatProperties, Zenon
  <1>4. RemoveAt(s, i) = c
    BY DEF RemoveAt
  <1> HIDE DEF a, b, c
  <1>5. Len(c) = Len(s) - 1
    BY <1>0, <1>1, <1>2, <1>3
  <1>6. ASSUME NEW j \in 1 .. Len(s) - 1
        PROVE  c[j] = IF j < i THEN s[j] ELSE s[j + 1]
    <2>1. CASE j < i
      <3>1. j \in 1 .. i - 1 /\ j <= Len(a) /\ j \in 1 .. Len(a) + Len(b)
        BY <2>1, <1>0, <1>1, <1>2
      <3>2. c[j] = a[j]
        BY <3>1, <1>3
      <3>3. a[j] = s[j]
        BY <3>1, <1>1
      <3>4. QED
        BY <2>1, <3>2, <3>3
    <2>2. CASE ~(j < i)
      <3>1. j - Len(a) \in 1 .. Len(s) - i /\ ~(j <= Len(a)) /\ j \in 1 .. Len(a) + Len(b)
        BY <2>2, <1>0, <1>1, <1>2
      <3>2. c[j] = b[j - Len(a)]
        BY <3>1, <1>3
      <3>3. b[j - Len(a)] = s[i + (j - Len(a))]
        BY <3>1, <1>2, SMTT(30)
      <3>4. i + (j - Len(a)) = j + 1
        BY <1>0, <1>1
      <3>5. QED
        BY <2>2, <3>2, <3>3, <3>4
    <2>3. QED
      BY <2>1, <2>2
  <1>7. QED
    BY <1>3, <1>4, <1>5, <1>6

\* Changing one entry of a sequence.
LEMMA ExceptFacts ==
    ASSUME NEW S, NEW s \in Seq(S), NEW i \in 1 .. Len(s), NEW e \in S
    PROVE  /\ [s EXCEPT ![i] = e] \in Seq(S)
           /\ Len([s EXCEPT ![i] = e]) = Len(s)
           /\ \A j \in 1 .. Len(s) : [s EXCEPT ![i] = e][j] = IF j = i THEN e ELSE s[j]
  <1>1. [s EXCEPT ![i] = e] \in Seq(S) /\ Len([s EXCEPT ![i] = e]) = Len(s)
    BY ExceptSeq
  <1>2. QED
    BY <1>1, LenProperties

\* A process waits for nothing iff its three flags are clear, and for one
\* thing iff no two of them are set.
AtMostOne(p) ==
    /\ ~(p.blocking /\ p.awaiting # None)
    /\ ~(p.blocking /\ p.sleep # None)
    /\ ~(p.awaiting # None /\ p.sleep # None)

\* The set of things a process waits for, in terms of its three flags.
LEMMA WaitsFacts ==
    ASSUME NEW p
    PROVE  /\ Waits(p) = {} <=> ~p.blocking /\ p.awaiting = None /\ p.sleep = None
           /\ (\A w1, w2 \in Waits(p) : w1 = w2) <=> AtMostOne(p)
  BY DEF Waits, AtMostOne

-----------------------------------------------------------------------------
(* The process table.                                                      *)

Distinct(procs) ==
    \A i, j \in 1 .. Len(procs) : procs[i].pid = procs[j].pid => i = j

\* What every table handed to schedule satisfies: well-typed entries with
\* distinct pids, all handed out already, each waiting for at most one thing.
SafeTable(procs, n) ==
    /\ procs \in Seq(Process)
    /\ Distinct(procs)
    /\ \A i \in 1 .. Len(procs) : procs[i].pid < n /\ AtMostOne(procs[i])

Frames ==
    [kind : {"none", "kernel"}, context : {KernelContext}]
        \cup [kind : {"user"}, context : Context]

\* The types of the fields of a table entry (struct Process).
LEMMA ProcessFields ==
    ASSUME NEW p \in Process
    PROVE  /\ p.pid \in Pids /\ p.pre_schedule \in BOOLEAN /\ p.blocking \in BOOLEAN
           /\ p.awaiting \in Pids \cup {None}
           /\ p.sleep \in (0 .. MaxTick) \cup {None} /\ p.context \in Context
  BY DEF Process

\* Changing one entry so that it keeps its pid and waits for at most one thing
\* keeps the table safe.
LEMMA ChangeEntry ==
    ASSUME NEW n \in Nat, NEW procs, SafeTable(procs, n),
           NEW i \in 1 .. Len(procs), NEW e \in Process,
           e.pid = procs[i].pid, AtMostOne(e)
    PROVE  /\ SafeTable([procs EXCEPT ![i] = e], n)
           /\ Len([procs EXCEPT ![i] = e]) = Len(procs)
           /\ \A j \in 1 .. Len(procs) :
                 [procs EXCEPT ![i] = e][j] = IF j = i THEN e ELSE procs[j]
  <1> DEFINE t == [procs EXCEPT ![i] = e]
  <1>1. /\ t \in Seq(Process) /\ Len(t) = Len(procs)
        /\ \A j \in 1 .. Len(procs) : t[j] = IF j = i THEN e ELSE procs[j]
    BY ExceptFacts DEF SafeTable
  <1> HIDE DEF t
  <1>2. SafeTable(t, n)
    BY <1>1, SMTT(30) DEF SafeTable, Distinct
  <1>3. QED
    BY <1>1, <1>2 DEF t

\* Saving the interrupted context changes no pid and no flag.
LEMMA SaveFacts ==
    ASSUME NEW n \in Nat, NEW procs, SafeTable(procs, n), NEW index \in Nat,
           NEW frame \in Frames
    PROVE  /\ SafeTable(Save(procs, index, frame), n)
           /\ Len(Save(procs, index, frame)) = Len(procs)
  <1>1. CASE /\ frame.kind = "user" /\ index < Len(procs)
             /\ ~procs[index + 1].pre_schedule
    <2> DEFINE e == [procs[index + 1] EXCEPT !.context = frame.context]
    <2>1. index + 1 \in 1 .. Len(procs) /\ procs[index + 1] \in Process
      BY <1>1, ElementOfSeq, LenProperties DEF SafeTable
    <2>2. frame.context \in Context
      BY <1>1 DEF Frames
    <2>3. e \in Process /\ e.pid = procs[index + 1].pid
      BY <2>1, <2>2 DEF Process
    <2>4. AtMostOne(e)
      BY <2>1 DEF AtMostOne, SafeTable, Process
    <2>5. Save(procs, index, frame) = [procs EXCEPT ![index + 1] = e]
      BY <1>1, <2>1 DEF Save
    <2> DEFINE k == index + 1
    <2>6. k \in 1 .. Len(procs) /\ e.pid = procs[k].pid
      BY <2>1, <2>3
    <2>7. Save(procs, index, frame) = [procs EXCEPT ![k] = e]
      BY <2>5
    <2> HIDE DEF e, k
    <2>8. /\ SafeTable([procs EXCEPT ![k] = e], n)
          /\ Len([procs EXCEPT ![k] = e]) = Len(procs)
      BY <2>3, <2>4, <2>6, ChangeEntry
    <2>9. QED
      BY <2>7, <2>8
  <1>2. CASE ~(/\ frame.kind = "user" /\ index < Len(procs)
               /\ ~procs[index + 1].pre_schedule)
    BY <1>2 DEF Save
  <1>3. QED
    BY <1>1, <1>2

\* The whole of schedule, on a safe table: the table stays safe, a process on
\* the CPU is the one CURRENT_INDEX names and waits for nothing, and nobody is
\* on the CPU only when no process is ready.
LEMMA ScheduleFacts ==
    ASSUME NEW n \in Nat, NEW procs, SafeTable(procs, n), NEW index \in Nat,
           NEW frame \in Frames, NEW now \in Nat,
           Schedule(procs, index, frame, now)
    PROVE  /\ SafeTable(processes', n)
           /\ current_index' \in Nat
           /\ cpu' \in [mode : {"idle"}, context : {KernelContext}]
                       \cup [mode : {"user"}, context : Context]
           /\ running' \in Pids \cup {None}
           /\ CurrentIsRunning'
           /\ cpu'.mode = "idle" =>
                 \A i \in 0 .. Len(processes') - 1 : ~Ready(processes', i, now)
  <1> DEFINE saved == Save(procs, index, frame)
             ready == {i \in 0 .. Len(procs) - 1 : Ready(saved, i, now)}
  <1>1. SafeTable(saved, n) /\ Len(saved) = Len(procs)
    BY SaveFacts
  <1>2. Len(saved) \in Nat /\ \A j \in 1 .. Len(saved) : saved[j] \in Process
    BY <1>1, ElementOfSeq, LenProperties DEF SafeTable
  <1>3. \/ /\ ready = {}
           /\ processes' = saved
           /\ current_index' = index
           /\ cpu' = [mode |-> "idle", context |-> KernelContext]
           /\ running' = None
        \/ \E i \in ready :
              /\ processes' = [saved EXCEPT ![i + 1] = Picked(saved[i + 1])]
              /\ current_index' = i
              /\ cpu' = [mode |-> "user", context |-> saved[i + 1].context]
              /\ running' = saved[i + 1].pid
    BY DEF Schedule
  <1> HIDE DEF saved
  <1>4. CASE /\ ready = {}
             /\ processes' = saved
             /\ current_index' = index
             /\ cpu' = [mode |-> "idle", context |-> KernelContext]
             /\ running' = None
    BY <1>1, <1>2, <1>4 DEF CurrentIsRunning
  <1>5. ASSUME NEW i \in ready,
               processes' = [saved EXCEPT ![i + 1] = Picked(saved[i + 1])],
               current_index' = i,
               cpu' = [mode |-> "user", context |-> saved[i + 1].context],
               running' = saved[i + 1].pid
        PROVE  /\ SafeTable(processes', n)
               /\ current_index' \in Nat
               /\ cpu' \in [mode : {"user"}, context : Context]
               /\ running' \in Pids
               /\ CurrentIsRunning'
    <2> DEFINE k == i + 1
               p == saved[k]
               e == Picked(p)
    <2>1. i \in Nat /\ k \in 1 .. Len(saved) /\ i < Len(saved) /\ Ready(saved, i, now)
      BY <1>1, <1>2
    <2>2. p \in Process /\ AtMostOne(p)
      BY <1>1, <1>2, <2>1, SMTT(30) DEF SafeTable
    <2>3. /\ e \in Process /\ e.pid = p.pid /\ ~e.pre_schedule
          /\ e.awaiting = None /\ e.sleep = None /\ e.blocking = p.blocking
      BY <2>2, Zenon DEF Picked, Process
    <2>4. ~p.blocking
      BY <2>1, <2>2 DEF Ready, AtMostOne
    <2>5. AtMostOne(e) /\ Waits(e) = {}
      BY <2>3, <2>4, WaitsFacts DEF AtMostOne
    <2>6. processes' = [saved EXCEPT ![k] = e]
      BY <1>5
    <2>7. /\ cpu' = [mode |-> "user", context |-> p.context]
          /\ running' = p.pid
          /\ current_index' + 1 = k
      BY <1>5
    <2> HIDE DEF k, p, e
    <2>8. /\ SafeTable([saved EXCEPT ![k] = e], n)
          /\ Len([saved EXCEPT ![k] = e]) = Len(saved)
          /\ [saved EXCEPT ![k] = e][k] = e
      BY <1>1, <2>1, <2>3, <2>5, ChangeEntry, SMTT(30) DEF p
    <2>9. running' \in Pids /\ running' # None
      BY <2>2, <2>7 DEF Process, Pids, None
    <2>10. CurrentIsRunning'
      BY <1>5, <2>1, <2>3, <2>5, <2>6, <2>7, <2>8, <2>9, SMTT(30) DEF CurrentIsRunning
    <2>11. cpu' \in [mode : {"user"}, context : Context]
      BY <2>2, <2>7 DEF Process
    <2>12. QED
      BY <1>5, <2>1, <2>6, <2>8, <2>9, <2>10, <2>11, Zenon
  <1>6. QED
    BY <1>3, <1>4, <1>5

-----------------------------------------------------------------------------
(* The inductive invariant.                                                *)

\* Only boot code runs before scheduling is enabled.
BootUntilEnabled == cpu.mode # "boot" => enabled

\* The invariants of Scheduler, together with BootUntilEnabled, are inductive.
\* They need each other: a system call flags the entry at CURRENT_INDEX, which
\* keeps OneWait only because CurrentIsRunning says that entry waits for
\* nothing; next_process re-establishes CurrentIsRunning only because of
\* OneWait; and deploy keeps PidsDistinct only because all pids are below the
\* counter.
IInv ==
    /\ TypeOK
    /\ PidsDistinct
    /\ OneWait
    /\ CurrentIsRunning
    /\ IdleOnlyWhenAllWait
    /\ BootUntilEnabled

\* The invariant makes the process table safe.
LEMMA TableIsSafe ==
    ASSUME TypeOK, PidsDistinct, OneWait
    PROVE  SafeTable(processes, pid_counter)
  <1>1. DOMAIN processes = 1 .. Len(processes)
    BY LenProperties DEF TypeOK
  <1>2. \A i \in 1 .. Len(processes) : AtMostOne(processes[i])
    BY <1>1, WaitsFacts DEF OneWait
  <1>3. QED
    BY <1>1, <1>2, SMTT(30) DEF SafeTable, TypeOK, PidsDistinct, Distinct

\* A safe table has distinct pids and single waits, as the invariant needs.
LEMMA SafeTableIsEnough ==
    ASSUME NEW procs, NEW n, SafeTable(procs, n)
    PROVE  /\ \A i \in DOMAIN procs : procs[i].pid < n
           /\ \A i, j \in DOMAIN procs : procs[i].pid = procs[j].pid => i = j
           /\ \A i \in DOMAIN procs : \A w1, w2 \in Waits(procs[i]) : w1 = w2
  <1>1. DOMAIN procs = 1 .. Len(procs)
    BY LenProperties DEF SafeTable
  <1>2. \A i \in DOMAIN procs : \A w1, w2 \in Waits(procs[i]) : w1 = w2
    BY <1>1, WaitsFacts DEF SafeTable
  <1>3. QED
    BY <1>1, <1>2 DEF SafeTable, Distinct

\* Process::from starts a process with a well-typed context.
LEMMA EntryContextType == EntryContext \in Context
  BY SchedulerAssumption DEF EntryContext, Context

\* Process::from makes an entry of the given pid that waits for nothing.
LEMMA NewProcessFacts ==
    ASSUME NEW pid \in Pids
    PROVE  NewProcess(pid) \in Process /\ AtMostOne(NewProcess(pid)) /\ NewProcess(pid).pid = pid
  BY EntryContextType DEF NewProcess, Process, AtMostOne

\* A safe table with a new process under the next pid is safe.
LEMMA AppendFacts ==
    ASSUME NEW n \in Pids, NEW procs, SafeTable(procs, n)
    PROVE  /\ SafeTable(Append(procs, NewProcess(n)), n + 1)
           /\ Len(Append(procs, NewProcess(n))) = Len(procs) + 1
           /\ \A i \in 1 .. Len(procs) : Append(procs, NewProcess(n))[i] = procs[i]
  <1> DEFINE e == NewProcess(n)
             t == Append(procs, e)
  <1>1. e \in Process /\ AtMostOne(e) /\ e.pid = n
    BY NewProcessFacts
  <1>2. procs \in Seq(Process) /\ Len(procs) \in Nat
    BY LenProperties DEF SafeTable
  <1> HIDE DEF e
  <1>3. /\ t \in Seq(Process) /\ Len(t) = Len(procs) + 1
        /\ \A i \in 1 .. Len(procs) : t[i] = procs[i]
        /\ t[Len(procs) + 1] = e
    BY <1>1, <1>2, AppendProperties
  <1> HIDE DEF t
  <1>4. \A i \in 1 .. Len(procs) : procs[i].pid \in Int /\ procs[i].pid < n /\ AtMostOne(procs[i])
    <2>1. \A i \in 1 .. Len(procs) : procs[i] \in Process
      BY <1>2, ElementOfSeq
    <2>2. \A i \in 1 .. Len(procs) : procs[i].pid \in Int
      BY <2>1, SchedulerAssumption DEF Process, Pids
    <2>3. QED
      BY <2>2 DEF SafeTable
  <1>5. \A i \in 1 .. Len(t) : t[i].pid < n + 1 /\ AtMostOne(t[i])
    BY <1>1, <1>2, <1>3, <1>4, SMTT(30) DEF Pids
  <1>6. Distinct(t)
    <2> SUFFICES ASSUME NEW i \in 1 .. Len(t), NEW j \in 1 .. Len(t), t[i].pid = t[j].pid
                 PROVE  i = j
      BY DEF Distinct
    <2>1. CASE i \in 1 .. Len(procs) /\ j \in 1 .. Len(procs)
      BY <2>1, <1>3, SMTT(30) DEF SafeTable, Distinct
    <2>2. CASE i = Len(procs) + 1 /\ j = Len(procs) + 1
      BY <2>2
    <2>3. CASE i = Len(procs) + 1 /\ j \in 1 .. Len(procs)
      BY <2>3, <1>1, <1>3, <1>4, SMTT(30) DEF Pids
    <2>4. CASE j = Len(procs) + 1 /\ i \in 1 .. Len(procs)
      BY <2>4, <1>1, <1>3, <1>4, SMTT(30) DEF Pids
    <2>5. QED
      BY <2>1, <2>2, <2>3, <2>4, <1>2, <1>3, SMTT(30)
  <1>7. QED
    BY <1>3, <1>5, <1>6 DEF SafeTable, t, e

\* So is one with an entry removed.
LEMMA RemoveFacts ==
    ASSUME NEW n \in Nat, NEW procs, SafeTable(procs, n), NEW k \in 1 .. Len(procs)
    PROVE  SafeTable(RemoveAt(procs, k), n)
  <1> DEFINE t == RemoveAt(procs, k)
  <1>1. procs \in Seq(Process) /\ Len(procs) \in Nat
    BY LenProperties DEF SafeTable
  <1>2. /\ t \in Seq(Process) /\ Len(t) = Len(procs) - 1
        /\ \A j \in 1 .. Len(procs) - 1 : t[j] = IF j < k THEN procs[j] ELSE procs[j + 1]
    BY <1>1, RemoveAtFacts
  <1> HIDE DEF t
  <1> DEFINE from(j) == IF j < k THEN j ELSE j + 1
  <1>3. ASSUME NEW i \in 1 .. Len(t)
        PROVE  t[i] = procs[from(i)] /\ from(i) \in 1 .. Len(procs)
    <2>1. i \in 1 .. Len(procs) - 1
      BY <1>2
    <2>2. from(i) \in 1 .. Len(procs)
      BY <2>1, <1>1
    <2>3. QED
      BY <2>1, <2>2, <1>2, SMTT(30)
  <1>4. ASSUME NEW i \in 1 .. Len(t)
        PROVE  t[i].pid < n /\ AtMostOne(t[i])
    <2> HIDE DEF from
    <2>1. procs[from(i)].pid < n /\ AtMostOne(procs[from(i)])
      BY <1>3 DEF SafeTable
    <2>2. QED
      BY <2>1, <1>3
  <1>5. Distinct(t)
    <2> SUFFICES ASSUME NEW i \in 1 .. Len(t), NEW j \in 1 .. Len(t),
                        t[i].pid = t[j].pid
                 PROVE  i = j
      BY DEF Distinct
    <2>1. procs[from(i)].pid = procs[from(j)].pid
      BY <1>3
    <2>2. from(i) = from(j)
      <3> HIDE DEF from
      <3>1. QED
        BY <2>1, <1>3 DEF SafeTable, Distinct
    <2>3. QED
      BY <2>2, <1>1, <1>2
  <1>6. QED
    BY <1>2, <1>4, <1>5 DEF SafeTable, t

\* And one in which blocked readers have received a character.
LEMMA InputFacts ==
    ASSUME NEW n \in Nat, NEW procs, SafeTable(procs, n), NEW input \in Chars
    PROVE  SafeTable(ProcessInput(procs, input), n)
  <1> DEFINE t == ProcessInput(procs, input)
             got(p) == [p EXCEPT !.context.rax = input, !.blocking = FALSE]
  <1>1. procs \in Seq(Process) /\ Len(procs) \in Nat
    BY LenProperties DEF SafeTable
  <1>2. \A i \in 1 .. Len(procs) : procs[i] \in Process
    BY <1>1, ElementOfSeq
  <1>3. ASSUME NEW p \in Process, AtMostOne(p)
        PROVE  got(p) \in Process /\ got(p).pid = p.pid /\ AtMostOne(got(p))
    <2>1. [p.context EXCEPT !.rax = input] \in Context
      BY DEF Process, Context
    <2>2. got(p) = [p EXCEPT !.context = [p.context EXCEPT !.rax = input], !.blocking = FALSE]
      BY DEF Process
    <2>3. QED
      BY <1>3, <2>1, <2>2, Zenon DEF Process, AtMostOne
  <1>4. t = [i \in 1 .. Len(procs) |-> IF procs[i].blocking THEN got(procs[i]) ELSE procs[i]]
    BY DEF ProcessInput
  <1> HIDE DEF t, got
  <1>5. \A i \in 1 .. Len(procs) :
           t[i] \in Process /\ t[i].pid = procs[i].pid /\ AtMostOne(t[i])
    BY <1>2, <1>3, <1>4 DEF SafeTable
  <1>6. t \in Seq(Process) /\ Len(t) = Len(procs)
    BY <1>1, <1>4, <1>5, LenProperties, SMTT(30)
  <1>7. SafeTable(t, n)
    BY <1>5, <1>6 DEF SafeTable, Distinct
  <1>8. QED
    BY <1>7 DEF t

-----------------------------------------------------------------------------
(* Each action preserves the invariant.                                    *)

\* Every action that ends in schedule re-establishes the invariant from a safe
\* table.
LEMMA SwitchKeeps ==
    ASSUME NEW procs, SafeTable(procs, pid_counter), NEW index \in Nat,
           NEW frame \in Frames, Schedule(procs, index, frame, ticks'),
           pid_counter \in 0 .. MaxPid, pid_counter' = pid_counter,
           ticks' \in 0 .. MaxTick, enabled, enabled' = enabled,
           regs' \in [Pids -> Context]
    PROVE  IInv'
  <1>1. pid_counter \in Nat /\ ticks' \in Nat
    BY SchedulerAssumption
  <1>2. /\ SafeTable(processes', pid_counter)
        /\ current_index' \in Nat
        /\ cpu' \in [mode : {"idle"}, context : {KernelContext}]
                    \cup [mode : {"user"}, context : Context]
        /\ running' \in Pids \cup {None}
        /\ CurrentIsRunning'
        /\ cpu'.mode = "idle" =>
              \A i \in 0 .. Len(processes') - 1 : ~Ready(processes', i, ticks')
    BY <1>1, ScheduleFacts
  <1>3. /\ \A i \in DOMAIN processes' : processes'[i].pid < pid_counter
        /\ \A i, j \in DOMAIN processes' : processes'[i].pid = processes'[j].pid => i = j
        /\ \A i \in DOMAIN processes' : \A w1, w2 \in Waits(processes'[i]) : w1 = w2
    BY <1>2, SafeTableIsEnough
  <1>4. PidsDistinct' /\ OneWait'
    BY <1>3 DEF PidsDistinct, OneWait
  <1>5. TypeOK'
    BY <1>2, SchedulerAssumption DEF TypeOK, SafeTable
  <1>6. IdleOnlyWhenAllWait'
    BY <1>2 DEF IdleOnlyWhenAllWait
  <1>7. BootUntilEnabled'
    BY <1>2 DEF BootUntilEnabled
  <1>8. QED
    BY <1>2, <1>4, <1>5, <1>6, <1>7, SMTT(30) DEF IInv

\* What holds while user code is on the CPU.
LEMMA UserFacts ==
    ASSUME IInv, cpu.mode = "user"
    PROVE  /\ enabled
           /\ running \in Pids
           /\ cpu.context \in Context
           /\ current_index \in Nat
           /\ current_index + 1 \in 1 .. Len(processes)
           /\ Current \in Process
           /\ Current.pid = running
           /\ ~Current.blocking /\ Current.awaiting = None /\ Current.sleep = None
           /\ SafeTable(processes, pid_counter)
           /\ pid_counter \in Nat
  <1>1. running # None /\ running \in Pids /\ enabled /\ cpu.context \in Context
    BY DEF IInv, TypeOK, CurrentIsRunning, BootUntilEnabled
  <1>2. /\ current_index \in Nat /\ current_index < Len(processes)
        /\ Current.pid = running /\ Waits(Current) = {}
    BY <1>1 DEF IInv, TypeOK, CurrentIsRunning, Current
  <1>3. SafeTable(processes, pid_counter) /\ Len(processes) \in Nat
    BY TableIsSafe, LenProperties DEF IInv, TypeOK
  <1>4. current_index + 1 \in 1 .. Len(processes)
    BY <1>2, <1>3
  <1>5. Current \in Process
    BY <1>3, <1>4, ElementOfSeq DEF SafeTable, Current
  <1>6. pid_counter \in Nat
    BY SchedulerAssumption DEF IInv, TypeOK
  <1>7. ~Current.blocking /\ Current.awaiting = None /\ Current.sleep = None
    BY <1>2, WaitsFacts
  <1>8. QED
    BY <1>1, <1>2, <1>3, <1>4, <1>5, <1>6, <1>7, SMTT(30)

\* The blocking system calls: the caller's entry is changed and scheduled away.
LEMMA SwitchAwayKeeps ==
    ASSUME IInv, NEW p \in Process, p.pid = Current.pid, AtMostOne(p),
           NEW frame \in Context, SwitchAway(WithCurrent(p), frame)
    PROVE  IInv'
  <1>1. cpu.mode = "user"
    BY DEF SwitchAway
  <1> DEFINE k == current_index + 1
  <1>2. k \in 1 .. Len(processes) /\ p.pid = processes[k].pid
    BY <1>1, UserFacts DEF Current
  <1> HIDE DEF k
  <1>3. SafeTable([processes EXCEPT ![k] = p], pid_counter)
    BY <1>1, <1>2, UserFacts, ChangeEntry, SMTT(30)
  <1>4. SafeTable(WithCurrent(p), pid_counter)
    BY <1>3 DEF WithCurrent, k
  <1>5. UserFrame(frame) \in Frames
    BY DEF UserFrame, Frames
  <1>6. regs' \in [Pids -> Context]
    BY <1>1, UserFacts, SMTT(30) DEF SwitchAway, IInv, TypeOK
  <1>7. /\ Schedule(WithCurrent(p), current_index, UserFrame(frame), ticks')
        /\ pid_counter' = pid_counter /\ ticks' = ticks /\ enabled' = enabled
    BY DEF SwitchAway
  <1>8. current_index \in Nat /\ enabled /\ pid_counter \in 0 .. MaxPid /\ ticks' \in 0 .. MaxTick
    BY <1>1, <1>7, UserFacts DEF IInv, TypeOK
  <1>9. QED
    BY <1>4, <1>5, <1>6, <1>7, <1>8, SwitchKeeps, SMTT(30)

\* The yield system call keeps the invariant.
LEMMA YieldKeeps == IInv /\ Yield => IInv'
  <1> SUFFICES ASSUME IInv, Yield PROVE IInv'
    OBVIOUS
  <1>1. cpu.mode = "user" /\ SwitchAway(processes, cpu.context)
    BY DEF Yield, SwitchAway
  <1>2. Current \in Process /\ AtMostOne(Current) /\ cpu.context \in Context
    BY <1>1, UserFacts DEF AtMostOne
  <1>3. WithCurrent(Current) = processes
    BY <1>1, UserFacts DEF WithCurrent, Current, SafeTable
  <1>4. QED
    BY <1>1, <1>2, <1>3, SwitchAwayKeeps, SMTT(30)

\* A read from standard input, which sets blocking, keeps the invariant.
LEMMA ReadStdinKeeps == IInv /\ ReadStdin => IInv'
  <1> SUFFICES ASSUME IInv, ReadStdin PROVE IInv'
    OBVIOUS
  <1> DEFINE p == [Current EXCEPT !.blocking = TRUE]
  <1>1. cpu.mode = "user" /\ SwitchAway(WithCurrent(p), cpu.context)
    BY DEF ReadStdin, SwitchAway
  <1>2. p \in Process /\ p.pid = Current.pid /\ AtMostOne(p) /\ cpu.context \in Context
    BY <1>1, UserFacts, Zenon DEF AtMostOne, Process
  <1> HIDE DEF p
  <1>3. QED
    BY <1>1, <1>2, SwitchAwayKeeps, SMTT(30)

\* current_wait_for_process, which sets awaiting_process, keeps the invariant.
LEMMA WaitForProcessKeeps ==
    ASSUME IInv, NEW pid \in Pids, WaitForProcess(pid) PROVE IInv'
  <1> DEFINE p == [Current EXCEPT !.awaiting = pid]
  <1>1. cpu.mode = "user" /\ SwitchAway(WithCurrent(p), cpu.context)
    BY DEF WaitForProcess, SwitchAway
  <1>2. p \in Process /\ p.pid = Current.pid /\ AtMostOne(p) /\ cpu.context \in Context
    BY <1>1, UserFacts DEF AtMostOne, Process
  <1> HIDE DEF p
  <1>3. QED
    BY <1>1, <1>2, SwitchAwayKeeps

\* sleep_current_until, which sets sleep_until_tick, keeps the invariant.
LEMMA NanosleepKeeps ==
    ASSUME IInv, NEW duration \in 1 .. MaxTick, Nanosleep(duration) PROVE IInv'
  <1> DEFINE p == [Current EXCEPT !.sleep = ticks + duration]
             frame == [cpu.context EXCEPT !.rax = "result"]
  <1>1. cpu.mode = "user" /\ SwitchAway(WithCurrent(p), frame)
    BY DEF Nanosleep, SwitchAway
  <1>2. ticks + duration \in 0 .. MaxTick
    BY SchedulerAssumption DEF Nanosleep, IInv, TypeOK
  <1>3. p \in Process /\ p.pid = Current.pid /\ AtMostOne(p)
    BY <1>1, <1>2, UserFacts DEF AtMostOne, Process
  <1>4. frame \in Context
    BY <1>1, UserFacts DEF Context
  <1> HIDE DEF p, frame
  <1>5. QED
    BY <1>1, <1>3, <1>4, SwitchAwayKeeps, SMTT(30)

\* exit_current removes its caller, adjusts CURRENT_INDEX and keeps the invariant.
LEMMA ExitKeeps == IInv /\ Exit => IInv'
  <1> SUFFICES ASSUME IInv, Exit PROVE IInv'
    OBVIOUS
  <1> DEFINE k == current_index + 1
             procs == RemoveAt(processes, k)
             index == IndexAfterExit(current_index)
  <1>1. cpu.mode = "user"
    BY DEF Exit
  <1>2. k \in 1 .. Len(processes) /\ current_index \in Nat /\ ~(current_index >= Len(processes))
    BY <1>1, UserFacts, LenProperties DEF IInv, TypeOK
  <1>3. index \in Nat
    BY <1>2 DEF IndexAfterExit
  <1>4. SafeTable(procs, pid_counter)
    BY <1>1, <1>2, UserFacts, RemoveFacts, SMTT(30)
  <1>5. /\ Schedule(procs, index, NoFrame, ticks')
        /\ pid_counter' = pid_counter /\ ticks' = ticks /\ enabled' = enabled /\ regs' = regs
    BY <1>2 DEF Exit
  <1>6. NoFrame \in Frames
    BY DEF NoFrame, Frames
  <1>7. enabled /\ pid_counter \in 0 .. MaxPid /\ ticks' \in 0 .. MaxTick /\ regs' \in [Pids -> Context]
    BY <1>1, <1>5, UserFacts, SMTT(30) DEF IInv, TypeOK
  <1> HIDE DEF procs, index, k
  <1>8. QED
    BY <1>3, <1>4, <1>5, <1>6, <1>7, SwitchKeeps, SMTT(30)

\* A timer interrupt, with or without input to deliver, keeps the invariant.
LEMMA TimerIsrKeeps ==
    ASSUME IInv, NEW input \in Chars \cup {None}, TimerIsr(input) PROVE IInv'
  <1> DEFINE procs == IF input = None THEN processes ELSE ProcessInput(processes, input)
  <1>1. /\ Schedule(procs, current_index, Interrupted, ticks')
        /\ pid_counter' = pid_counter /\ enabled /\ enabled' = enabled
    BY DEF TimerIsr
  <1>2. pid_counter \in Nat /\ SafeTable(processes, pid_counter)
    BY TableIsSafe, SchedulerAssumption DEF IInv, TypeOK
  <1>3. SafeTable(procs, pid_counter)
    BY <1>2, InputFacts, SMTT(30)
  <1>4. Interrupted \in Frames
    BY DEF Interrupted, Frames, UserFrame, KernelFrame, IInv, TypeOK
  <1>5. ticks' \in 0 .. MaxTick
    BY SchedulerAssumption DEF TimerIsr, Tick, IInv, TypeOK
  <1>6. regs' \in [Pids -> Context]
    <2>1. \A p \in Pids : regs[p] \in Context
      BY DEF IInv, TypeOK
    <2>2. input # None => \A c \in Context : [c EXCEPT !.rax = input] \in Context
      BY DEF Context
    <2>3. QED
      BY <2>1, <2>2 DEF TimerIsr
  <1>7. current_index \in Nat /\ pid_counter \in 0 .. MaxPid
    BY DEF IInv, TypeOK
  <1> HIDE DEF procs
  <1>8. QED
    BY <1>1, <1>3, <1>4, <1>5, <1>6, <1>7, SwitchKeeps, SMTT(30)

\* deploy keeps the table safe and the process on the CPU where it is.
LEMMA DeployFacts ==
    ASSUME IInv, NEW fork \in BOOLEAN, Deploy(fork), cpu.mode # "idle",
           current_index' = current_index, running' = running
    PROVE  /\ processes' \in Seq(Process)
           /\ pid_counter' \in 0 .. MaxPid
           /\ PidsDistinct' /\ OneWait'
           /\ running # None =>
                 /\ current_index < Len(processes')
                 /\ processes'[current_index + 1] = processes[current_index + 1]
  <1>1. SafeTable(processes, pid_counter) /\ pid_counter \in Pids /\ pid_counter' = pid_counter + 1
    BY TableIsSafe, SchedulerAssumption DEF IInv, TypeOK, Deploy, Pids
  <1>2. Len(processes) \in Nat /\ current_index \in Nat
    BY LenProperties DEF IInv, TypeOK
  <1>3. CASE processes' = Append(processes, NewProcess(pid_counter))
    <2>1. /\ SafeTable(processes', pid_counter')
          /\ Len(processes') = Len(processes) + 1
          /\ \A i \in 1 .. Len(processes) : processes'[i] = processes[i]
      BY <1>1, <1>3, AppendFacts, SMTT(30)
    <2>2. PidsDistinct' /\ OneWait'
      BY <2>1, SafeTableIsEnough DEF PidsDistinct, OneWait
    <2>3. pid_counter' \in 0 .. MaxPid /\ processes' \in Seq(Process)
      BY <1>1, <2>1, SchedulerAssumption DEF Pids, SafeTable
    <2>4. running # None => current_index + 1 \in 1 .. Len(processes)
      BY <1>2 DEF IInv, CurrentIsRunning
    <2>5. QED
      BY <1>2, <2>1, <2>2, <2>3, <2>4, SMTT(30)
  <1>4. CASE processes' = processes
    <2>1. SafeTable(processes', pid_counter')
      <3>1. \A i \in 1 .. Len(processes) : processes[i] \in Process
        BY <1>1, ElementOfSeq DEF SafeTable
      <3>2. \A i \in 1 .. Len(processes) : processes[i].pid \in Int
        BY <3>1, SchedulerAssumption DEF Process, Pids
      <3>3. \A i \in 1 .. Len(processes) : processes[i].pid < pid_counter + 1
        BY <1>1, <3>2, SchedulerAssumption, SMTT(30) DEF SafeTable, Pids
      <3>4. QED
        BY <1>1, <1>4, <3>3, SMTT(30) DEF SafeTable
    <2>2. PidsDistinct' /\ OneWait'
      BY <2>1, SafeTableIsEnough DEF PidsDistinct, OneWait
    <2>3. QED
      BY <1>1, <1>4, <2>2, SchedulerAssumption, SMTT(30) DEF Pids, IInv, TypeOK, CurrentIsRunning
  <1>5. QED
    BY <1>3, <1>4, Zenon DEF Deploy

\* So does every action after which the same process stays on the CPU.
LEMMA StaysKeeps == IInv /\ Stays => IInv'
  <1> SUFFICES ASSUME IInv, Stays PROVE IInv'
    OBVIOUS
  <1>1. CASE BootDeploy
    <2>1. cpu.mode = "boot" /\ running = None
      BY <1>1 DEF BootDeploy, IInv, TypeOK, CurrentIsRunning
    <2>2. /\ processes' \in Seq(Process) /\ pid_counter' \in 0 .. MaxPid
          /\ PidsDistinct' /\ OneWait'
      BY <1>1, <2>1, DeployFacts, Zenon DEF BootDeploy
    <2>3. TypeOK' /\ CurrentIsRunning' /\ IdleOnlyWhenAllWait' /\ BootUntilEnabled'
      BY <1>1, <2>1, <2>2
      DEF BootDeploy, IInv, TypeOK, CurrentIsRunning, IdleOnlyWhenAllWait, BootUntilEnabled
    <2>4. QED
      BY <2>2, <2>3 DEF IInv
  <1>2. CASE Enable
    BY <1>2 DEF Enable, IInv, TypeOK, PidsDistinct, OneWait, CurrentIsRunning,
                IdleOnlyWhenAllWait, BootUntilEnabled
  <1>3. CASE EarlyTick
    <2>1. ticks' \in 0 .. MaxTick
      <3>1. ticks \in 0 .. MaxTick
        BY DEF IInv, TypeOK
      <3>2. QED
        BY <3>1, <1>3, SchedulerAssumption, SMTT(30) DEF EarlyTick, Tick
    <2>2. cpu.mode = "boot"
      BY <1>3 DEF EarlyTick, IInv, BootUntilEnabled
    <2>3. QED
      BY <1>3, <2>1, <2>2, SMTT(30)
      DEF EarlyTick, IInv, TypeOK, PidsDistinct, OneWait, CurrentIsRunning,
          IdleOnlyWhenAllWait, BootUntilEnabled
  <1>4. CASE UserStep
    <2>1. PICK pc \in Pcs :
             /\ cpu' = [cpu EXCEPT !.context = [pc |-> pc, rax |-> "user"]]
             /\ regs' = [regs EXCEPT ![running] = [pc |-> pc, rax |-> "user"]]
      BY <1>4, Zenon DEF UserStep
    <2>2. [pc |-> pc, rax |-> "user"] \in Context /\ running \in Pids /\ cpu.mode = "user"
      BY <1>4, UserFacts DEF Context, UserStep
    <2>3. cpu' \in [mode : {"user"}, context : Context] /\ regs' \in [Pids -> Context]
      BY <2>1, <2>2 DEF IInv, TypeOK
    <2>4. QED
      BY <1>4, <2>2, <2>3, SMTT(30)
      DEF UserStep, IInv, TypeOK, PidsDistinct, OneWait, CurrentIsRunning,
          IdleOnlyWhenAllWait, BootUntilEnabled
  <1>5. ASSUME cpu.mode = "user", Return("result")
        PROVE  cpu' \in [mode : {"return"}, context : Context] /\ regs' \in [Pids -> Context]
    <2>1. [cpu.context EXCEPT !.rax = "result"] \in Context /\ running \in Pids
      BY <1>5, UserFacts, SMTT(30) DEF Context
    <2>2. QED
      BY <1>5, <2>1 DEF Return, IInv, TypeOK
  <1>6. CASE OtherSyscall
    <2>1. cpu' \in [mode : {"return"}, context : Context] /\ regs' \in [Pids -> Context]
      BY <1>5, <1>6 DEF OtherSyscall
    <2>2. QED
      BY <1>6, <2>1
      DEF OtherSyscall, IInv, TypeOK, PidsDistinct, OneWait, CurrentIsRunning,
          IdleOnlyWhenAllWait, BootUntilEnabled
  <1>7. CASE Execute
    <2>1. cpu' \in [mode : {"return"}, context : Context] /\ regs' \in [Pids -> Context]
      BY <1>5, <1>7, SMTT(30) DEF Execute
    <2>2. /\ processes' \in Seq(Process) /\ pid_counter' \in 0 .. MaxPid
          /\ PidsDistinct' /\ OneWait'
          /\ running # None =>
                 /\ current_index < Len(processes')
                 /\ processes'[current_index + 1] = processes[current_index + 1]
      BY <1>7, DeployFacts, Zenon DEF Execute
    <2>3. TypeOK' /\ CurrentIsRunning' /\ IdleOnlyWhenAllWait' /\ BootUntilEnabled'
      BY <1>7, <2>1, <2>2, SMTT(30)
      DEF Execute, IInv, TypeOK, CurrentIsRunning, IdleOnlyWhenAllWait, BootUntilEnabled
    <2>4. QED
      BY <2>2, <2>3 DEF IInv
  <1>8. CASE Iretq
    BY <1>8 DEF Iretq, IInv, TypeOK, PidsDistinct, OneWait, CurrentIsRunning,
                IdleOnlyWhenAllWait, BootUntilEnabled
  <1>9. QED
    BY <1>1, <1>2, <1>3, <1>4, <1>6, <1>7, <1>8, SMTT(30) DEF Stays

-----------------------------------------------------------------------------

\* The invariant holds in every reachable state.
THEOREM Invariance == Spec => []IInv
  <1>1. Init => IInv
    <2> SUFFICES ASSUME Init PROVE IInv
      OBVIOUS
    <2>1. processes \in Seq(Process) /\ DOMAIN processes = {}
      BY DEF Init
    <2>2. regs \in [Pids -> Context]
      BY EntryContextType DEF Init
    <2>3. TypeOK
      <3>1. cpu \in [mode : {"boot", "idle"}, context : {KernelContext}]
        BY DEF Init
      <3>2. pid_counter \in 0 .. MaxPid /\ ticks \in 0 .. MaxTick /\ current_index \in Nat
        BY SchedulerAssumption DEF Init
      <3>3. running \in Pids \cup {None} /\ enabled \in BOOLEAN
        BY Zenon DEF Init
      <3>4. QED
        BY <2>1, <2>2, <3>1, <3>2, <3>3, SMTT(30) DEF TypeOK
    <2>4. PidsDistinct /\ OneWait
      BY <2>1 DEF PidsDistinct, OneWait
    <2>5. CurrentIsRunning /\ IdleOnlyWhenAllWait /\ BootUntilEnabled
      BY DEF Init, CurrentIsRunning, IdleOnlyWhenAllWait, BootUntilEnabled
    <2>6. QED
      BY <2>3, <2>4, <2>5, SMTT(30) DEF IInv
  <1>2. IInv /\ [Next]_vars => IInv'
    <2> SUFFICES ASSUME IInv, [Next]_vars PROVE IInv'
      OBVIOUS
    <2>1. CASE Stays
      BY <2>1, StaysKeeps, SMTT(30)
    <2>2. CASE \E input \in Chars \cup {None} : TimerIsr(input)
      BY <2>2, TimerIsrKeeps, SMTT(30)
    <2>3. CASE Yield
      BY <2>3, YieldKeeps
    <2>4. CASE ReadStdin
      BY <2>4, ReadStdinKeeps
    <2>5. CASE \E pid \in Pids : WaitForProcess(pid)
      BY <2>5, WaitForProcessKeeps
    <2>6. CASE \E duration \in 1 .. MaxTick : Nanosleep(duration)
      BY <2>6, NanosleepKeeps, SMTT(30)
    <2>7. CASE Exit
      BY <2>7, ExitKeeps
    <2>8. CASE UNCHANGED vars
      BY <2>8 DEF vars, IInv, TypeOK, PidsDistinct, OneWait, CurrentIsRunning,
                  IdleOnlyWhenAllWait, BootUntilEnabled
    <2>9. QED
      BY <2>1, <2>2, <2>3, <2>4, <2>5, <2>6, <2>7, <2>8, SMTT(30) DEF Next, Switches
  <1>3. QED
    BY <1>1, <1>2, PTL DEF Spec

\* A system call always acts on its own caller: CURRENT_INDEX stays in bounds
\* and names the process on the CPU (block_current, sleep_current_until).
THEOREM CurrentIsAlwaysRunning == Spec => []CurrentIsRunning
  BY Invariance, PTL DEF IInv

\* Every variable keeps its type, for any number of processes and ticks.
THEOREM TypeCorrectness == Spec => []TypeOK
  BY Invariance, PTL DEF IInv

\* deploy and exit_current never let two processes share a pid.
THEOREM PidsStayDistinct == Spec => []PidsDistinct
  BY Invariance, PTL DEF IInv

\* No process is ever waiting for two things (next_process relies on it).
THEOREM OneWaitAtATime == Spec => []OneWait
  BY Invariance, PTL DEF IInv

\* schedule idles only while every process waits.
THEOREM IdleMeansAllWait == Spec => []IdleOnlyWhenAllWait
  BY Invariance, PTL DEF IInv
=============================================================================
