------------------------------ MODULE MCMemory -----------------------------
(***************************************************************************)
(* Memory management for TLC: the region of page-table slots, the tables   *)
(* of the processes, the stacks with their page frames, the heap, and the  *)
(* copies of system calls to and from their caller.  The models share no   *)
(* state (AddressSpace has a slot allocator of its own), so one of them    *)
(* runs in a behaviour and the others stay as they began.                  *)
(***************************************************************************)
EXTENDS Integers, Sequences, FiniteSets

CONSTANTS RegionEntries, BootSlots, MaxSlots, MaxFree,
          TableEntries, MaxPid, MaxAlive, StackRanges, Sizes,
          RangeEnd, MemEnd, StackSizes, MaxStacks,
          HeapSize, Header, Align, Layouts,
          PageSize, LastPage, MaxWord, DirEntrySize, FileSize, DirEntries

VARIABLES active,
          slots, in_use, temp, linked,
          table_slots, tables, processes, load_counter, current, cr3, lost,
          crashed, modest,
          range_start, free_ranges, stacks, mapping, frame_head, free_frames,
          image, panicked,
          blocks, held,
          flags, offset, delivered, copied, asked, outcome

Region    == INSTANCE SlotRegion WITH TableEntries <- RegionEntries
Spaces    == INSTANCE AddressSpace WITH slots <- table_slots
StackArea == INSTANCE StacksRefinement
HeapArea  == INSTANCE HeapRefinement
Copies    == INSTANCE UserMemory

ASSUME MemoryAssumption ==
    /\ Region!TableEntriesAssumption /\ Region!SlotRegionAssumption
    /\ Spaces!TableEntriesAssumption /\ Spaces!AddressSpaceAssumption
    /\ StackArea!StacksAssumption
    /\ HeapArea!HeapAssumption
    /\ Copies!UserMemoryAssumption

region_vars == <<slots, in_use, temp, linked>>
space_vars  == <<table_slots, tables, processes, load_counter, current, cr3,
                 lost, crashed, modest>>
stack_vars  == <<range_start, free_ranges, stacks, mapping, frame_head,
                 free_frames, image, panicked>>
heap_vars   == <<blocks, held>>
copy_vars   == <<flags, offset, delivered, copied, asked, outcome>>
vars == <<active, region_vars, space_vars, stack_vars, heap_vars, copy_vars>>

Init ==
    /\ active \in {"region", "spaces", "stacks", "heap", "copies"}
    /\ active # "copies" => flags = [page \in 0 .. LastPage |-> "absent"]
    /\ Region!Init
    /\ Spaces!Init
    /\ StackArea!Init
    /\ HeapArea!Init
    /\ Copies!Init

Next ==
    \/ active = "region" /\ Region!Next
       /\ UNCHANGED <<active, space_vars, stack_vars, heap_vars, copy_vars>>
    \/ active = "spaces" /\ Spaces!Next
       /\ UNCHANGED <<active, region_vars, stack_vars, heap_vars, copy_vars>>
    \/ active = "stacks" /\ StackArea!Next
       /\ UNCHANGED <<active, region_vars, space_vars, heap_vars, copy_vars>>
    \/ active = "heap" /\ HeapArea!Next
       /\ UNCHANGED <<active, region_vars, space_vars, stack_vars, copy_vars>>
    \/ active = "copies" /\ Copies!Next
       /\ UNCHANGED <<active, region_vars, space_vars, stack_vars, heap_vars>>

Spec == Init /\ [][Next]_vars
----------------------------------------------------------------------------
(* Page-table slots: types; no slot handed out twice; allocated_page_tables *)
(* counts the slots in use; a slot handed out is mapped, up to the end of  *)
(* the extended region.                                                    *)
SlotsSound == active = "region" => Region!SlotsSound

(* next_table_create links the table it means to, but when the slot it     *)
(* takes extends the region.                                               *)
MislinkOnlyWhenExtending == Region!MislinkOnlyWhenExtending

(* Page tables: types; exit_current takes no image table from a process    *)
(* that lives on; every slot is the kernel's, a live process's, free, or   *)
(* was left behind by a load that failed.                                  *)
TablesSound ==
    active = "spaces" =>
        Spaces!TypeOK /\ Spaces!ImagesApart /\ Spaces!NoSlotLeaks

(* The table in CR3 is never written over, also after exit_current has     *)
(* freed it.                                                               *)
LoadedTableIsNotReused == Spaces!LoadedTableIsNotReused

(* Small programs, one at a time under the shell, leave the kernel's tables *)
(* alone although exit_current frees them.                                 *)
KernelSurvives == active = "spaces" => Spaces!KernelSurvives

(* Stacks: types; a page frame has one user; below every stack lies an     *)
(* unmapped page; exactly the pages of the stacks in use are mapped.       *)
StacksSound ==
    active = "stacks" =>
        /\ StackArea!TypeOK
        /\ StackArea!FramesApart
        /\ StackArea!GuardBelow
        /\ StackArea!MappedExactlyStacks

(* The stack allocator implements RangeAllocator: a stack with its guard   *)
(* page overlaps no other.                                                 *)
StacksKeepApart == StackArea!StacksKeepApart

(* The heap: types; the blocks tile it; what callers hold lies in used     *)
(* blocks, behind the headers; dealloc leaves no used block behind.        *)
HeapSound == active = "heap" => HeapArea!HeapSound

(* The heap implements RangeAllocator: allocations in use do not overlap.  *)
MemoryKeptApart == HeapArea!MemoryKeptApart

=============================================================================
