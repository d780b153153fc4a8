---------------------------- MODULE SlotRegion -----------------------------
(***************************************************************************)
(* The page-table region and the one temporary mapping                     *)
(* (src/mem/paging: slot_allocator.rs, temp_mapper.rs, and                 *)
(* next_table_create of page_table.rs).  Callers take a slot for a new     *)
(* table and link it into its parent.  The parent is reached through its   *)
(* own slot or, when the walk found it by its frame, through the           *)
(* temporary mapping; taking a slot may extend the region, which walks     *)
(* tables and so moves the temporary mapping.                              *)
(***************************************************************************)
EXTENDS SlotAllocator

CONSTANTS BootSlots,            \* slots in use when init has returned
          MaxSlots,             \* bound: slots ever handed out
          MaxFree               \* bound: slots on the free list

SlotRegionAssumption ==
    /\ BootSlots \in 1 .. TableEntries - 3
    /\ MaxSlots \in Nat
    /\ MaxFree \in Nat

VARIABLES slots,                \* the allocator
          in_use,               \* slots the callers hold
          temp,                 \* the table the temporary mapping shows
          linked                \* the last link: the table meant, the one hit

vars == <<slots, in_use, temp, linked>>

Tables == {"parent", "region_pml2", "region_pml1", "other"}

Init ==
    /\ slots = AfterBoot(BootSlots)
    /\ in_use = 0 .. BootSlots - 1
    /\ temp = "other"
    /\ linked = [meant |-> "other", hit |-> "other"]

(* alloc as a caller sees it; the bound keeps the walk finite. *)
Take ==
    /\ slots.last_pml1_slot < MaxSlots
    /\ slots' = Alloc(slots)
    /\ in_use' = in_use \union {SlotOf(slots)}

(* The temporary mapping after alloc: extension ends on the region's PML2. *)
TempAfterAlloc(now) == IF Extends(slots) THEN "region_pml2" ELSE now

(* clone_kernel_table: the new slot is a PML4 and has no parent. *)
CloneKernelTable ==
    /\ Take
    /\ temp' = TempAfterAlloc(temp)
    /\ UNCHANGED linked

(***************************************************************************)
(* next_table_create on an unused entry of a table reached by its slot:    *)
(* the mapping is saved after alloc, the slot is translated (which shows   *)
(* the region's PML1), and the saved mapping comes back.                   *)
(***************************************************************************)
CreateUnderSlot ==
    /\ Take
    /\ temp' = TempAfterAlloc(temp)
    /\ linked' = [meant |-> "parent", hit |-> "parent"]

(* A slip: the mapping the translation moved is not restored. *)
CreateWithoutRestore ==
    /\ Take
    /\ temp' = "region_pml1"
    /\ linked' = [meant |-> "parent", hit |-> "region_pml1"]

(* The same on a table the walk reached through the temporary mapping. *)
CreateUnderTemp ==
    /\ Take
    /\ LET saved == TempAfterAlloc("parent")
       IN  /\ temp' = saved
           /\ linked' = [meant |-> "parent", hit |-> saved]

(* A walk that creates nothing, such as translate_to_phys of a slot. *)
Walk ==
    /\ \E shown \in {"region_pml1", "other"} : temp' = shown
    /\ UNCHANGED <<slots, in_use, linked>>

(* free of a slot some caller holds; the kernel's own are never passed. *)
Release ==
    /\ Len(slots.free_slots) < MaxFree
    /\ \E slot \in in_use :
          /\ slot >= BootSlots
          /\ slots' = Free(slots, slot)
          /\ in_use' = in_use \ {slot}
    /\ UNCHANGED <<temp, linked>>

Next == CloneKernelTable \/ CreateUnderSlot \/ CreateUnderTemp \/ Walk
        \/ Release

Spec == Init /\ [][Next]_vars
----------------------------------------------------------------------------
(* The allocator's fields are counts, and a link is between tables. *)
TypeOK ==
    /\ slots.last_pml1_slot \in Nat
    /\ slots.pml1_count \in Nat
    /\ slots.allocated \in Nat
    /\ slots.free_slots \in Seq(Nat)
    /\ slots.mapped \subseteq Nat
    /\ in_use \subseteq Nat
    /\ temp \in Tables
    /\ linked \in [meant : Tables, hit : Tables]

(***************************************************************************)
(* A slot a caller holds is never on the free list, no slot is on the list *)
(* twice, and neither has been reached by the bump counter: alloc never    *)
(* hands out one slot to two tables.                                       *)
(***************************************************************************)
NeverSharedSlot ==
    /\ IsInjective(slots.free_slots)
    /\ in_use \intersect Range(slots.free_slots) = {}
    /\ \A slot \in in_use \union Range(slots.free_slots) :
          slot < slots.last_pml1_slot

(***************************************************************************)
(* allocated_page_tables counts the slots out of the free list, through    *)
(* the extension's own allocations too.                                    *)
(***************************************************************************)
CountIsExact ==
    slots.allocated + Len(slots.free_slots) = slots.last_pml1_slot

(***************************************************************************)
(* Every slot handed out can be written: up to the end of the extended     *)
(* region its page is mapped.  The region is extended exactly once (the    *)
(* test is for one value of the counter), so nothing is promised beyond    *)
(* two PML1s and the page the inclusive range adds.                        *)
(***************************************************************************)
HandedOutIsMapped ==
    \A slot \in in_use : slot <= 2 * TableEntries => slot \in slots.mapped

(***************************************************************************)
(* The allocator of page-table slots is sound: the three above, of counts  *)
(* and tables of their type.                                               *)
(***************************************************************************)
SlotsSound == TypeOK /\ NeverSharedSlot /\ CountIsExact /\ HandedOutIsMapped

(***************************************************************************)
(* The comment in next_table_create: the temporary mapping is saved and    *)
(* restored since the current table might be temp-mapped, so the new       *)
(* table is linked into the table meant.                                   *)
(***************************************************************************)
LinkedWhereMeant == linked.hit = linked.meant

(***************************************************************************)
(* Outside the call that extends the region the link is where it was       *)
(* meant to be.                                                            *)
(***************************************************************************)
MislinkOnlyWhenExtending ==
    [][linked'.hit # linked'.meant =>
          linked' = linked \/ slots'.pml1_count > slots.pml1_count]_vars
=============================================================================
