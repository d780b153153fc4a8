--------------------------- MODULE AddressSpace ----------------------------
(***************************************************************************)
(* The page tables of the processes: elf::load builds one per process by   *)
(* cloning the kernel's PML4, exit_current takes it down again, schedule   *)
(* loads it (src/elf/mod.rs, src/scheduling/mod.rs, src/mem/mod.rs and     *)
(* src/mem/paging/page_table.rs).                                          *)
(*                                                                         *)
(* A table is abstracted to two of its 512 entries.  Entry 0 is on the     *)
(* path of the kernel's image, heap and stacks; user stacks live under it  *)
(* too, since the stack allocator's range follows the heap.  Entry 1 is    *)
(* on no kernel path; program images are linked there.  An entry names     *)
(* the slot of the table below and carries the RING3_ACCESSIBLE flag.      *)
(* The kernel's tables on path 0, all taken at boot, are the PML4 (slot    *)
(* 0), K3, K2 and the PML1 of the stacks KS; slot 4 is the temporary       *)
(* mapping's.  Leaf mappings are the subject of module Stacks.             *)
(***************************************************************************)
EXTENDS SlotAllocator

CONSTANTS MaxPid,               \* bound: processes ever started
          MaxAlive,             \* bound: processes alive at a time
          StackRanges,          \* user stacks the stack range holds
          Sizes                 \* how many PML1s an image may need

AddressSpaceAssumption ==
    /\ MaxPid \in Nat
    /\ MaxAlive \in Nat
    /\ StackRanges \in Nat
    /\ Sizes \subseteq 1 .. 2

VARIABLES slots,                \* the slot allocator
          tables,               \* what each slot holds
          processes,            \* pid -> slot of its PML4
          load_counter,         \* numbers the loads, failed ones included
          current,              \* the process on the CPU, or Idle
          cr3,                  \* the table the CPU walks
          lost,                 \* slots of loads that failed half way
          crashed,              \* the kernel's own mappings are gone
          modest                \* each load so far was of one PML1, with at
                                \* most one process alive

vars == <<slots, tables, processes, load_counter, current, cr3, lost, crashed,
          modest>>

Idle == 0
Unused == 0                     \* slot 0 is the PML4, below no table
K3 == 1
K2 == 2
KS == 3
KernelSlots == 0 .. 4

MaxSlot == 4 + 5 * MaxPid
KernelPage == MaxSlot + 1       \* a page KS maps for the kernel

Entry == [to : 0 .. KernelPage, user : BOOLEAN]
NoEntry == [to |-> Unused, user |-> FALSE]
Empty == [i \in 0 .. 1 |-> NoEntry]
Linked(slot) == [Empty EXCEPT ![0].to = slot]

Init ==
    /\ slots = AfterBoot(Cardinality(KernelSlots))
    /\ tables = [slot \in 0 .. MaxSlot |->
                   CASE slot = 0  -> Linked(K3)
                     [] slot = K3 -> Linked(K2)
                     [] slot = K2 -> Linked(KS)
                     [] slot = KS -> Linked(KernelPage)
                     [] OTHER     -> Empty]
    /\ processes = <<>>
    /\ load_counter = 1
    /\ current = Idle
    /\ cr3 = 0
    /\ lost = {}
    /\ crashed = FALSE
    /\ modest = TRUE

Alive == DOMAIN processes

(* The walk from the kernel's PML4 to its stacks, which every clone shares. *)
KernelWalk(t) == <<t[0][0].to, t[K3][0].to, t[K2][0].to, t[KS][0].to>>
----------------------------------------------------------------------------
(***************************************************************************)
(* Building a table.  m = [slots, tables, at] is the memory and the table  *)
(* a walk has reached.                                                     *)
(***************************************************************************)
(* A new table: a reused slot is zeroed, a new one is zero as it comes. *)
TakeTable(m) ==
    [slots  |-> Alloc(m.slots),
     tables |-> [m.tables EXCEPT ![SlotOf(m.slots)] = Empty],
     at     |-> SlotOf(m.slots)]

(* next_table_create for a page that ring 3 may access. *)
NextTableCreate(m, i) ==
    LET entry == m.tables[m.at][i]
        made  == TakeTable(m)
    IN  IF entry.to # Unused
          THEN [m EXCEPT !.tables[m.at][i].user = TRUE, !.at = entry.to]
          ELSE [made EXCEPT !.tables[m.at][i] =
                                [to |-> made.at, user |-> TRUE]]

(* map_to, down to the PML1; the walk starts over from the root. *)
MapTo(m, root, path) ==
    FoldLeft(NextTableCreate, [m EXCEPT !.at = root], path)

(* clone_kernel_table *)
CloneKernelTable(m) ==
    LET new == TakeTable(m)
    IN  [new EXCEPT !.tables[new.at] = new.tables[0]]

(* The image's regions, then the user stack. *)
MapImage(m, root, size) ==
    FoldLeft(LAMBDA acc, i : MapTo(acc, root, <<1, 0, i>>), m,
             [n \in 1 .. size |-> n - 1])

MapStack(m, root) == MapTo(m, root, <<0, 0, 0>>)

(* The tables under an entry, as free_user_subtables meets them. *)
Children(t, slot) ==
    LET user == SelectSeq(<<t[slot][0], t[slot][1]>>,
                          LAMBDA e : e.to # Unused /\ e.user)
    IN  [n \in 1 .. Len(user) |-> user[n].to]

FromPml2(t, slot) == <<slot>> \o Children(t, slot)

FromPml3(t, slot) ==
    LET pml2s == Children(t, slot)
    IN  <<slot>> \o FlattenSeq([n \in DOMAIN pml2s |-> FromPml2(t, pml2s[n])])

UserSubtables(t, root) ==
    LET pml3s == Children(t, root)
    IN  FlattenSeq([n \in DOMAIN pml3s |-> FromPml3(t, pml3s[n])])

(* The tables of the image alone: what belongs to one process. *)
ImageTables(t, root) ==
    LET pml3 == t[root][1].to
        pml2 == t[pml3][0].to
    IN  {root, pml3, pml2, t[pml2][0].to, t[pml2][1].to} \ {Unused}
----------------------------------------------------------------------------
Memory == [slots |-> slots, tables |-> tables, at |-> cr3]

Settle(m) ==
    /\ slots' = m.slots
    /\ tables' = m.tables
    /\ crashed' = (KernelWalk(m.tables) # <<K3, K2, KS, KernelPage>>)

(***************************************************************************)
(* elf::load and deploy, called at boot with the kernel's table loaded and *)
(* by the execute syscall of the current process.  load switches to the    *)
(* new table and back again.                                               *)
(***************************************************************************)
MayLoad ==
    /\ ~crashed
    /\ load_counter <= MaxPid
    /\ current # Idle \/ load_counter = 1

Load(size) ==
    LET clone == CloneKernelTable(Memory)
        m     == MapStack(MapImage(clone, clone.at, size), clone.at)
    IN  /\ MayLoad
        /\ Cardinality(Alive) < StackRanges
        /\ Cardinality(Alive) < MaxAlive
        /\ Settle(m)
        /\ processes' = [pid \in Alive \union {load_counter} |->
                            IF pid = load_counter THEN clone.at
                                                 ELSE processes[pid]]
        /\ load_counter' = load_counter + 1
        /\ modest' = (modest /\ size = 1 /\ Cardinality(Alive) <= 1)
        /\ UNCHANGED <<current, cr3, lost>>

(***************************************************************************)
(* No stack range is left: the image is unmapped and the old table loaded, *)
(* but the new PML4 and the tables under it stay allocated.                *)
(***************************************************************************)
LoadFails(size) ==
    LET clone == CloneKernelTable(Memory)
        m     == MapImage(clone, clone.at, size)
    IN  /\ MayLoad
        /\ Cardinality(Alive) >= StackRanges
        /\ Settle(m)
        /\ load_counter' = load_counter + 1
        /\ lost' = lost \union ImageTables(m.tables, clone.at)
        /\ modest' = FALSE
        /\ UNCHANGED <<processes, current, cr3>>

(***************************************************************************)
(* Slips below: a switch that leaves CR3, the PML4 kept, or the subtables  *)
(* freed from the last on.                                                 *)
(***************************************************************************)
DispatchOnOldTable(pid) ==
    /\ ~crashed
    /\ current' = pid
    /\ UNCHANGED <<slots, tables, processes, load_counter, cr3, lost,
                   crashed, modest>>

TeardownKeepsRoot ==
    FreeAll(slots, UserSubtables(tables, processes[current]))

TeardownBackwards ==
    LET root == processes[current]
    IN  Free(FreeAll(slots, Reverse(UserSubtables(tables, root))), root)

(* schedule: the chosen process's table is loaded before the jump. *)
Dispatch(pid) ==
    /\ ~crashed
    /\ current' = pid
    /\ cr3' = processes[pid]
    /\ UNCHANGED <<slots, tables, processes, load_counter, lost, crashed,
                   modest>>

(***************************************************************************)
(* exit_current, then schedule: the next process, or nobody, in which case *)
(* the CPU idles on the table just freed.                                  *)
(***************************************************************************)
Teardown ==
    LET root == processes[current]
    IN  Free(FreeAll(slots, UserSubtables(tables, root)), root)

Exit(next) ==
    /\ ~crashed
    /\ current # Idle
    /\ slots' = Teardown
    /\ processes' = [pid \in Alive \ {current} |-> processes[pid]]
    /\ current' = next
    /\ cr3' = IF next = Idle THEN cr3 ELSE processes[next]
    /\ UNCHANGED <<tables, load_counter, lost, crashed,
                   modest>>

(* Everybody waits: schedule finds nobody and the CPU idles. *)
Block ==
    /\ ~crashed
    /\ current # Idle
    /\ current' = Idle
    /\ UNCHANGED <<slots, tables, processes, load_counter, cr3, lost,
                   crashed, modest>>

(* Nothing runs without a process, or once the kernel's mappings are gone. *)
Rest == (crashed \/ Alive = {}) /\ UNCHANGED vars

Next ==
    \/ \E size \in Sizes : Load(size) \/ LoadFails(size)
    \/ \E pid \in Alive : Dispatch(pid)
    \/ \E next \in {Idle} \union (Alive \ {current}) : Exit(next)
    \/ Block
    \/ Rest

Spec == Init /\ [][Next]_vars
----------------------------------------------------------------------------
(* Slots, entries and processes are within their bounds. *)
TypeOK ==
    /\ slots.free_slots \in Seq(0 .. MaxSlot)
    /\ slots.last_pml1_slot \in 0 .. MaxSlot + 1
    /\ tables \in [0 .. MaxSlot -> [0 .. 1 -> Entry]]
    /\ Alive \subseteq 1 .. MaxPid
    /\ \A pid \in Alive : processes[pid] \in 0 .. MaxSlot
    /\ load_counter \in 1 .. MaxPid + 1
    /\ current \in {Idle} \union Alive
    /\ cr3 \in 0 .. MaxSlot
    /\ lost \subseteq 0 .. MaxSlot
    /\ {crashed, modest} \subseteq BOOLEAN

(***************************************************************************)
(* Until the kernel's tables are overwritten, the tables of a program's    *)
(* image belong to one process alone and none of them is free: exit never  *)
(* takes a table from under a process that goes on living.                 *)
(***************************************************************************)
ImagesApart ==
    ~crashed =>
      \A p \in Alive :
        /\ ImageTables(tables, processes[p])
              \intersect (Range(slots.free_slots) \union lost) = {}
        /\ \A q \in Alive \ {p} :
              ImageTables(tables, processes[p])
                 \intersect ImageTables(tables, processes[q]) = {}

(***************************************************************************)
(* No slot goes missing: each one handed out is the kernel's, a live       *)
(* process's, free again, or was left behind by a load that failed.        *)
(***************************************************************************)
NoSlotLeaks ==
    ~crashed =>
      0 .. slots.last_pml1_slot - 1 =
        KernelSlots \union Range(slots.free_slots) \union lost
          \union UNION {ImageTables(tables, processes[p]) : p \in Alive}

(***************************************************************************)
(* The table in CR3 is never written, also while the CPU idles on a table  *)
(* exit_current has already freed: nobody takes a slot before schedule has *)
(* loaded another table.                                                   *)
(***************************************************************************)
LoadedTableIsNotReused ==
    [][tables'[cr3] = tables[cr3] \/ crashed']_vars

(***************************************************************************)
(* The doc of free_user_subtables: cloned kernel page table branches are   *)
(* ignored, so no kernel table is ever given back.                         *)
(***************************************************************************)
KernelBranchesIgnored == Range(slots.free_slots) \intersect KernelSlots = {}

(***************************************************************************)
(* What hides the above while small programs run one after the other       *)
(* under the shell: slots are reused last in first out, the kernel's are   *)
(* pushed before the exiting process's own, and the next program needs no  *)
(* more.                                                                   *)
(***************************************************************************)
KernelSurvives == modest => ~crashed
=============================================================================
