--------------------------- MODULE SlotAllocator ---------------------------
(***************************************************************************)
(* The page-table slot allocator (src/mem/paging/slot_allocator.rs) as     *)
(* operators on a record, used by the modules SlotRegion and AddressSpace. *)
(* A slot is one page of the page-table region, numbered from the start    *)
(* of the region; slot 0 holds the kernel's PML4.  The allocator record    *)
(* has the fields of the struct that decide what it hands out:             *)
(*                                                                         *)
(*   last_pml1_slot   the next slot never handed out                       *)
(*   pml1_count       how many PML1s are taken to cover the region         *)
(*   allocated        allocated_page_tables                                *)
(*   free_slots       slots given back, reused last in first out           *)
(*   mapped           the slots whose page is mapped to a frame            *)
(*                                                                         *)
(* The allocator is modelled from the moment init_done is set.             *)
(***************************************************************************)
EXTENDS Naturals, Sequences, FiniteSets, SequencesExt

CONSTANT TableEntries           \* entries of one table: 512

TableEntriesAssumption == TableEntries \in Nat /\ TableEntries > 4

(* The slot whose handing out extends the region: the code's 510. *)
ExtendAt == TableEntries - 2

(***************************************************************************)
(* After the boot code has handed out the first `used` slots: the master   *)
(* table maps one whole PML1 of the region (the loop of 512 pages).        *)
(***************************************************************************)
AfterBoot(used) ==
    [last_pml1_slot |-> used, pml1_count |-> 1, allocated |-> used,
     free_slots |-> <<>>, mapped |-> 0 .. TableEntries - 1]

(***************************************************************************)
(* Slips in the definitions below, each named for what it gets wrong: the  *)
(* region extended from one page too far, a reused slot left on the free   *)
(* list, a release that is not counted.                                    *)
(***************************************************************************)
NewPagesFromNext(s) ==
    s.pml1_count * TableEntries + 1 .. (s.pml1_count + 1) * TableEntries

(* The pages extend_region maps: Page::range includes its end. *)
NewPages(s) ==
    s.pml1_count * TableEntries .. (s.pml1_count + 1) * TableEntries

(* The PML1s those pages need; each is one call of alloc. *)
NewTables(s) == {page \div TableEntries : page \in NewPages(s)}

(***************************************************************************)
(* extend_region.  The allocator only gets here with no free slot, and     *)
(* last_pml1_slot has moved past ExtendAt, so each PML1 is the next slot.  *)
(***************************************************************************)
ExtendRegion(s) ==
    [s EXCEPT !.last_pml1_slot = @ + Cardinality(NewTables(s)),
              !.allocated = @ + Cardinality(NewTables(s)),
              !.mapped = @ \union NewPages(s),
              !.pml1_count = @ + 1]

(* The slot alloc returns. *)
SlotOf(s) ==
    IF s.free_slots # <<>> THEN Last(s.free_slots) ELSE s.last_pml1_slot

(* Whether alloc extends the region. *)
Extends(s) == s.free_slots = <<>> /\ s.last_pml1_slot + 1 = ExtendAt

AllocKeepsSlot(s) ==
    LET bumped == [s EXCEPT !.last_pml1_slot = @ + 1]
        rest   == IF Extends(s) THEN ExtendRegion(bumped) ELSE bumped
    IN  [(IF s.free_slots # <<>> THEN s ELSE rest) EXCEPT !.allocated = @ + 1]

(* The allocator after alloc. *)
Alloc(s) ==
    LET bumped == [s EXCEPT !.last_pml1_slot = @ + 1]
        rest   == IF Extends(s) THEN ExtendRegion(bumped) ELSE bumped
    IN  IF s.free_slots # <<>>
          THEN [s EXCEPT !.free_slots = Front(@), !.allocated = @ + 1]
          ELSE [rest EXCEPT !.allocated = @ + 1]

(* free gives nothing back twice, and nothing it never handed out. *)
Freeable(s, slot) ==
    slot < s.last_pml1_slot /\ slot \notin Range(s.free_slots)

FreeUncounted(s, slot) ==
    IF Freeable(s, slot) THEN [s EXCEPT !.free_slots = Append(@, slot)] ELSE s

Free(s, slot) ==
    IF Freeable(s, slot)
      THEN [s EXCEPT !.free_slots = Append(@, slot),
                     !.allocated = IF @ = 0 THEN 0 ELSE @ - 1]
      ELSE s

FreeAll(s, freed) == FoldLeft(Free, s, freed)
=============================================================================
