-------------------------- MODULE SlotRegionProofs -------------------------
(***************************************************************************)
(* The page-table slots, for tables of any size, any number of slots in    *)
(* use at boot and any order of allocation and release.                    *)
(***************************************************************************)
EXTENDS SlotRegion, SequenceFacts, FiniteSetTheorems

(***************************************************************************)
(* The inductive invariant.  The region has been extended or not: the      *)
(* bump counter jumps from below the slot that extends it to above it, so  *)
(* it is extended once and the pages mapped are known.  The callers' slots *)
(* and the two tables of the extension are what is counted, so a release   *)
(* never finds the count at zero.                                          *)
(***************************************************************************)
SlotsType == [last_pml1_slot : Nat, pml1_count : Nat, allocated : Nat,
              free_slots : Seq(Nat), mapped : SUBSET Nat]

BeforeExtension(s) ==
    /\ s.pml1_count = 1
    /\ s.last_pml1_slot <= TableEntries - 3
    /\ s.mapped = 0 .. TableEntries - 1

AfterExtension(s) ==
    /\ s.pml1_count = 2
    /\ s.last_pml1_slot >= TableEntries
    /\ s.mapped = 0 .. 2 * TableEntries

SInv ==
    /\ slots \in SlotsType
    /\ in_use \subseteq Nat
    /\ IsFiniteSet(in_use)
    /\ \/ BeforeExtension(slots) /\ slots.allocated = Cardinality(in_use)
       \/ AfterExtension(slots) /\ slots.allocated = Cardinality(in_use) + 2
    /\ NeverSharedSlot
    /\ CountIsExact

IInv ==
    /\ SInv
    /\ temp \in Tables
    /\ linked \in [meant : Tables, hit : Tables]

Assumptions == TableEntriesAssumption /\ SlotRegionAssumption

LEMMA InitIInv ==
    ASSUME Assumptions, Init
    PROVE  IInv
  <1>1. BootSlots \in Nat /\ BootSlots <= TableEntries - 3 /\ TableEntries \in Nat
    BY DEF Assumptions, SlotRegionAssumption, TableEntriesAssumption
  <1>2. /\ slots \in SlotsType /\ slots.pml1_count = 1 /\ slots.free_slots = <<>>
        /\ slots.last_pml1_slot = BootSlots /\ slots.allocated = BootSlots
        /\ slots.mapped = 0 .. TableEntries - 1 /\ in_use = 0 .. BootSlots - 1
    BY <1>1 DEF Init, AfterBoot, SlotsType
  <1>3. IsFiniteSet(in_use) /\ Cardinality(in_use) = BootSlots
    <2> DEFINE b == BootSlots - 1
    <2>1. b \in Int /\ BootSlots = b + 1 /\ 0 \in Int /\ ~(0 > b)
      BY <1>1 DEF Assumptions, SlotRegionAssumption
    <2> HIDE DEF b
    <2>2. IsFiniteSet(0 .. b) /\ Cardinality(0 .. b) = IF 0 > b THEN 0 ELSE b - 0 + 1
      BY ONLY <2>1, FS_Interval
    <2>3. IsFiniteSet(0 .. b) /\ Cardinality(0 .. b) = BootSlots
      BY ONLY <2>1, <2>2
    <2>4. QED
      BY <1>2, <2>3 DEF b
  <1>4. NeverSharedSlot
    BY <1>1, <1>2 DEF NeverSharedSlot, IsInjective, Range
  <1>5. CountIsExact
    BY <1>1, <1>2 DEF CountIsExact
  <1>6. BeforeExtension(slots)
    BY <1>1, <1>2 DEF BeforeExtension
  <1>7. temp \in Tables /\ linked \in [meant : Tables, hit : Tables]
    BY DEF Init, Tables
  <1>8. SInv
    BY <1>1, <1>2, <1>3, <1>4, <1>5, <1>6, SMTT(30) DEF SInv
  <1>9. QED
    BY <1>7, <1>8 DEF IInv

\* The list of free slots without its last: what pop leaves.
LEMMA FrontFacts ==
    ASSUME NEW s \in Seq(Nat), s # <<>>
    PROVE  /\ Front(s) \in Seq(Nat) /\ Len(Front(s)) = Len(s) - 1
           /\ \A j \in 1 .. Len(s) - 1 : Front(s)[j] = s[j]
           /\ Len(s) \in Nat \ {0} /\ Last(s) = s[Len(s)] /\ Last(s) \in Nat
           /\ DOMAIN s = 1 .. Len(s) /\ DOMAIN Front(s) = 1 .. Len(s) - 1
  <1>1. Len(s) \in Nat /\ Len(s) # 0 /\ DOMAIN s = 1 .. Len(s)
    BY EmptySeq, LenProperties
  <1>2. \A j \in 1 .. Len(s) : s[j] \in Nat
    BY ElementOfSeq
  <1> DEFINE f == Front(s)
  <1>3. /\ f \in Seq(Nat)
        /\ Len(f) = IF 1 <= Len(s) - 1 THEN (Len(s) - 1) - 1 + 1 ELSE 0
        /\ \A j \in 1 .. (Len(s) - 1) - 1 + 1 : f[j] = s[1 + j - 1]
    <2>1. \A j \in 1 .. Len(s) - 1 : s[j] \in Nat
      BY <1>1, <1>2
    <2>2. f = SubSeq(s, 1, Len(s) - 1)
      BY Zenon DEF Front
    <2> HIDE DEF f
    <2>3. QED
      BY <1>1, <2>1, <2>2, SubSeqProperties
  <1> HIDE DEF f
  <1>4. /\ f \in Seq(Nat) /\ Len(f) = Len(s) - 1
        /\ \A j \in 1 .. Len(s) - 1 : f[j] = s[j]
    <2>1. Len(f) = Len(s) - 1
      <3>1. \A n \in Nat : n # 0 => (IF 1 <= n - 1 THEN (n - 1) - 1 + 1 ELSE 0) = n - 1
        OBVIOUS
      <3>2. (IF 1 <= Len(s) - 1 THEN (Len(s) - 1) - 1 + 1 ELSE 0) = Len(s) - 1
        BY ONLY <1>1, <3>1
      <3>3. Len(f) = IF 1 <= Len(s) - 1 THEN (Len(s) - 1) - 1 + 1 ELSE 0
        BY <1>3
      <3>4. QED
        BY ONLY <3>2, <3>3
    <2>2. ASSUME NEW j \in 1 .. Len(s) - 1 PROVE f[j] = s[j]
      <3>1. j \in 1 .. (Len(s) - 1) - 1 + 1 /\ 1 + j - 1 = j
        BY ONLY <1>1
      <3>2. f[j] = s[1 + j - 1]
        BY ONLY <3>1, <1>3
      <3>3. QED
        BY ONLY <3>1, <3>2
    <2>3. QED
      BY ONLY <1>3, <2>1, <2>2
  <1>5. DOMAIN f = 1 .. Len(f)
    BY ONLY <1>4, LenProperties
  <1>6. Last(s) = s[Len(s)] /\ s[Len(s)] \in Nat
    BY <1>1, <1>2 DEF Last
  <1>7. QED
    BY ONLY <1>1, <1>4, <1>5, <1>6 DEF f

\* The extension needs two tables: the inclusive range reaches into a third.
LEMMA TwoNewTables ==
    ASSUME TableEntriesAssumption, NEW s, s.pml1_count = 1
    PROVE  Cardinality(NewTables(s)) = 2 /\ NewPages(s) = TableEntries .. 2 * TableEntries
  <1>0. TableEntries \in Nat /\ TableEntries > 4
    BY DEF TableEntriesAssumption
  <1>1. NewPages(s) = TableEntries .. 2 * TableEntries
    BY <1>0 DEF NewPages
  <1>2. ASSUME NEW page \in TableEntries .. 2 * TableEntries - 1
        PROVE  page \div TableEntries = 1
    BY <1>0
  <1>3. (2 * TableEntries) \div TableEntries = 2
    BY <1>0
  <1>4. NewTables(s) = {1, 2}
    <2>1. TableEntries .. 2 * TableEntries
            = (TableEntries .. 2 * TableEntries - 1) \union {2 * TableEntries}
      BY <1>0
    <2>2. TableEntries \in TableEntries .. 2 * TableEntries - 1
      BY <1>0
    <2>3. QED
      BY <1>1, <1>2, <1>3, <2>1, <2>2, SMTT(30) DEF NewTables
  <1>5. Cardinality({1, 2}) = 2
    <2>1. IsFiniteSet({1}) /\ Cardinality({1}) = 1
      BY FS_Singleton, Zenon
    <2>2. {1, 2} = {1} \union {2} /\ 2 \notin {1}
      OBVIOUS
    <2>3. Cardinality({1} \union {2}) = Cardinality({1}) + 1
      BY <2>1, <2>2, FS_AddElement
    <2>4. QED
      BY <2>1, <2>2, <2>3
  <1>6. QED
    BY <1>1, <1>4, <1>5

(***************************************************************************)
(* NeverSharedSlot, place by place in the list of slots given back.        *)
(***************************************************************************)
Apart(free, used, last) ==
    /\ \A a, b \in DOMAIN free : free[a] = free[b] => a = b
    /\ \A a \in DOMAIN free : free[a] \notin used /\ free[a] < last
    /\ \A x \in used : x < last

LEMMA ApartIsNeverShared ==
    /\ NeverSharedSlot <=> Apart(slots.free_slots, in_use, slots.last_pml1_slot)
    /\ NeverSharedSlot' <=> Apart(slots'.free_slots, in_use', slots'.last_pml1_slot)
  BY Zenon DEF NeverSharedSlot, Apart, IsInjective, Range

(***************************************************************************)
(* alloc, in each of its three cases: a slot given back is reused; the     *)
(* next slot is taken; the next slot is taken and the region extended.     *)
(***************************************************************************)
LEMMA TakeKeeps ==
    ASSUME Assumptions, SInv, Take
    PROVE  SInv' /\ (Extends(slots) => slots'.pml1_count > slots.pml1_count)
  <1> DEFINE free == slots.free_slots
             last == slots.last_pml1_slot
             slot == SlotOf(slots)
  <1>0. /\ slots \in SlotsType /\ free \in Seq(Nat) /\ last \in Nat
        /\ slots.allocated \in Nat /\ slots.pml1_count \in Nat
        /\ TableEntries \in Nat /\ TableEntries > 4
        /\ Len(free) \in Nat /\ DOMAIN free = 1 .. Len(free)
    BY LenProperties DEF SInv, SlotsType, Assumptions, TableEntriesAssumption
  <1>1. slots' = Alloc(slots) /\ in_use' = in_use \union {slot}
    BY DEF Take
  <1>2. /\ \A a, b \in 1 .. Len(free) : free[a] = free[b] => a = b
        /\ \A a \in 1 .. Len(free) : free[a] \notin in_use
        /\ \A x \in in_use : x < last
        /\ \A a \in 1 .. Len(free) : free[a] < last
    <2>1. Apart(free, in_use, last)
      BY ApartIsNeverShared DEF SInv
    <2>2. QED
      BY ONLY <1>0, <2>1, Zenon DEF Apart
  <1>c. slots.allocated + Len(free) = last
    BY DEF SInv, CountIsExact
  <1>d. IsFiniteSet(in_use) /\ Cardinality(in_use) \in Nat /\ in_use \subseteq Nat
    BY FS_CardinalityType DEF SInv
  <1>e. \/ BeforeExtension(slots) /\ slots.allocated = Cardinality(in_use)
        \/ AfterExtension(slots) /\ slots.allocated = Cardinality(in_use) + 2
    BY DEF SInv
  <1>3. ASSUME slot \notin in_use
        PROVE  /\ IsFiniteSet(in_use')
               /\ Cardinality(in_use') = Cardinality(in_use) + 1
    <2> HIDE DEF slot
    <2> QED
      BY ONLY <1>1, <1>3, <1>d, FS_AddElement, SMTT(30)
  <1>4. CASE free # <<>>
    <2> DEFINE front == Front(free)
    <2>1. /\ front \in Seq(Nat) /\ Len(front) = Len(free) - 1
          /\ \A j \in 1 .. Len(free) - 1 : front[j] = free[j]
          /\ Len(free) \in Nat \ {0} /\ Last(free) = free[Len(free)] /\ Last(free) \in Nat
          /\ DOMAIN front = 1 .. Len(free) - 1
      BY <1>0, <1>4, FrontFacts, Zenon
    <2>2. slot = free[Len(free)]
      BY <1>4, <2>1 DEF SlotOf
    <2>3. slots' = [slots EXCEPT !.free_slots = front, !.allocated = slots.allocated + 1]
      BY <1>1, <1>4 DEF Alloc
    <2>4. /\ slots' \in SlotsType /\ slots'.free_slots = front
          /\ slots'.allocated = slots.allocated + 1 /\ slots'.last_pml1_slot = last
          /\ slots'.pml1_count = slots.pml1_count /\ slots'.mapped = slots.mapped
      <3>1. slots.allocated + 1 \in Nat
        BY <1>0
      <3> HIDE DEF front
      <3>2. QED
        BY <1>0, <2>1, <2>3, <3>1, Zenon DEF SlotsType
    <2> HIDE DEF front, slot
    <2>5. slot \in Nat /\ slot \notin in_use /\ slot < last
      BY <1>2, <2>1, <2>2, SMTT(30)
    <2>6. \A a \in 1 .. Len(free) - 1 : front[a] # slot
      <3>1. \A a \in 1 .. Len(free) - 1 :
               a \in 1 .. Len(free) /\ Len(free) \in 1 .. Len(free) /\ a # Len(free)
        BY ONLY <2>1
      <3>2. QED
        BY ONLY <3>1, <2>1, <2>2, <1>2, SMTT(30)
    <2>7. NeverSharedSlot'
      <3>0. 1 .. Len(free) - 1 \subseteq 1 .. Len(free)
        BY ONLY <2>1
      <3>1. \A a, b \in 1 .. Len(free) - 1 : front[a] = front[b] => a = b
        BY ONLY <3>0, <2>1, <1>2, Zenon
      <3>2. \A a \in 1 .. Len(free) - 1 : front[a] \notin in_use' /\ front[a] < last
        BY ONLY <3>0, <2>1, <2>6, <1>1, <1>2, Zenon DEF slot
      <3>3. \A x \in in_use' : x < last
        BY ONLY <1>1, <1>2, <2>5 DEF slot
      <3>4. QED
        <4>1. Apart(front, in_use', last)
          BY ONLY <3>1, <3>2, <3>3, <2>1, Zenon DEF Apart
        <4>2. QED
          BY ONLY <4>1, <2>4, ApartIsNeverShared, SMTT(30)
    <2>8. CountIsExact'
      <3>1. Len(slots'.free_slots) = Len(free) - 1
        BY ONLY <2>1, <2>4
      <3>2. slots'.allocated + Len(slots'.free_slots) = slots'.last_pml1_slot
        <4>1. \A a, n, l \in Nat : a + n = l => (a + 1) + (n - 1) = l
          OBVIOUS
        <4>2. (slots.allocated + 1) + (Len(free) - 1) = last
          BY ONLY <1>0, <1>c, <4>1, SMTT(30)
        <4>3. QED
          BY Zenon, <2>4, <3>1, <4>2
      <3>3. QED
        BY ONLY <3>2 DEF CountIsExact
    <2>9. /\ IsFiniteSet(in_use') /\ Cardinality(in_use') = Cardinality(in_use) + 1
          /\ in_use' \subseteq Nat
      BY <1>1, <1>3, <1>d, <2>5, Zenon DEF slot
    <2>10. \/ BeforeExtension(slots)' /\ slots'.allocated = Cardinality(in_use')
           \/ AfterExtension(slots)' /\ slots'.allocated = Cardinality(in_use') + 2
      BY ONLY <1>0, <1>d, <1>e, <2>4, <2>9 DEF BeforeExtension, AfterExtension
    <2>11. ~Extends(slots)
      BY <1>4 DEF Extends
    <2>12. QED
      BY ONLY <2>4, <2>7, <2>8, <2>9, <2>10, <2>11, SMTT(30) DEF SInv
  <1>5. CASE free = <<>>
    <2>0. slot = last /\ Len(free) = 0
      BY <1>5 DEF SlotOf
    <2>1. slot \in Nat /\ slot \notin in_use
      BY ONLY <1>0, <1>2, <2>0
    <2>2. /\ IsFiniteSet(in_use') /\ Cardinality(in_use') = Cardinality(in_use) + 1
          /\ in_use' \subseteq Nat
      BY <1>1, <1>3, <1>d, <2>1, Zenon
    <2>3. ASSUME slots'.free_slots = <<>>, slots'.last_pml1_slot \in Nat,
                 slots'.last_pml1_slot > last
          PROVE  NeverSharedSlot'
      <3>1. \A x \in in_use' : x < slots'.last_pml1_slot
        <4>1. \A x \in in_use' : x \in Nat /\ x <= last
          <5>1. \A x \in in_use' : x \in in_use \/ x = last
            BY ONLY <1>1, <2>0, Zenon
          <5>2. \A x \in in_use : x \in Nat /\ x < last
            BY ONLY <1>2, <1>d, Zenon
          <5>3. \A x, y \in Nat : x < y \/ x = y => x <= y
            OBVIOUS
          <5>4. QED
            BY ONLY <1>0, <5>1, <5>2, <5>3, Zenon
        <4>2. \A x, y, z \in Nat : x <= y /\ z > y => x < z
          OBVIOUS
        <4>3. QED
          BY ONLY <1>0, <2>3, <4>1, <4>2, Zenon
      <3>2. Apart(<<>>, in_use', slots'.last_pml1_slot)
        BY ONLY <3>1 DEF Apart
      <3>3. QED
        BY ONLY <2>3, <3>2, ApartIsNeverShared
    <2>4. CASE ~Extends(slots)
      <3>1. slots' = [slots EXCEPT !.last_pml1_slot = last + 1,
                                   !.allocated = slots.allocated + 1]
        BY <1>0, <1>1, <1>5, <2>4 DEF Alloc, SlotsType
      <3>2. /\ slots' \in SlotsType /\ slots'.free_slots = <<>>
            /\ slots'.allocated = slots.allocated + 1 /\ slots'.last_pml1_slot = last + 1
            /\ slots'.pml1_count = slots.pml1_count /\ slots'.mapped = slots.mapped
        <4>1. /\ slots'.free_slots = <<>>
              /\ slots'.allocated = slots.allocated + 1 /\ slots'.last_pml1_slot = last + 1
              /\ slots'.pml1_count = slots.pml1_count /\ slots'.mapped = slots.mapped
          BY ONLY <1>0, <1>5, <3>1 DEF SlotsType
        <4>2. slots.allocated + 1 \in Nat /\ last + 1 \in Nat
          BY ONLY <1>0
        <4>3. slots' \in SlotsType
          BY ONLY <1>0, <3>1, <4>2, Zenon DEF SlotsType
        <4>4. QED
          BY ONLY <4>1, <4>3
      <3>3. last + 1 # TableEntries - 2
        BY <1>5, <2>4 DEF Extends, ExtendAt
      <3>4. \/ BeforeExtension(slots)' /\ slots'.allocated = Cardinality(in_use')
            \/ AfterExtension(slots)' /\ slots'.allocated = Cardinality(in_use') + 2
        <4>1. CASE BeforeExtension(slots) /\ slots.allocated = Cardinality(in_use)
          <5>1. last =< TableEntries - 3
            BY ONLY <4>1 DEF BeforeExtension
          <5>2. last + 1 =< TableEntries - 3
            BY ONLY <1>0, <3>3, <5>1
          <5>3. slots'.allocated = Cardinality(in_use')
            BY ONLY <4>1, <2>2, <3>2
          <5>4. QED
            BY ONLY <4>1, <3>2, <5>2, <5>3 DEF BeforeExtension
        <4>2. CASE AfterExtension(slots) /\ slots.allocated = Cardinality(in_use) + 2
          <5>1. last >= TableEntries
            BY ONLY <4>2 DEF AfterExtension
          <5>2. last + 1 >= TableEntries
            BY ONLY <1>0, <5>1
          <5>3. slots'.allocated = Cardinality(in_use') + 2
            BY ONLY <1>d, <4>2, <2>2, <3>2, SMTT(30)
          <5>4. QED
            BY ONLY <4>2, <3>2, <5>2, <5>3 DEF AfterExtension
        <4>3. QED
          BY ONLY <1>e, <4>1, <4>2
      <3>5. NeverSharedSlot'
        BY <1>0, <2>3, <3>2
      <3>6. CountIsExact'
        BY ONLY <1>0, <1>c, <2>0, <3>2, SMTT(30) DEF CountIsExact
      <3>7. QED
        BY ONLY <2>2, <2>4, <3>2, <3>4, <3>5, <3>6, SMTT(30) DEF SInv
    <2>5. CASE Extends(slots)
      <3>1. last + 1 = TableEntries - 2 /\ BeforeExtension(slots)
            /\ slots.allocated = Cardinality(in_use)
        BY <1>0, <1>e, <2>5 DEF Extends, ExtendAt, AfterExtension
      <3> DEFINE bumped == [slots EXCEPT !.last_pml1_slot = last + 1]
                 new == NewPages(bumped)
      <3>2. bumped.pml1_count = 1 /\ bumped.mapped = 0 .. TableEntries - 1
        BY <1>0, <3>1 DEF BeforeExtension, SlotsType
      <3>3. Cardinality(NewTables(bumped)) = 2
            /\ NewPages(bumped) = TableEntries .. 2 * TableEntries
        BY <3>2, TwoNewTables, Zenon DEF Assumptions
      <3>4. slots' = [slots EXCEPT !.last_pml1_slot = last + 1 + 2,
                                   !.allocated = slots.allocated + 2 + 1,
                                   !.mapped = slots.mapped \union new,
                                   !.pml1_count = slots.pml1_count + 1]
        BY <1>0, <1>1, <1>5, <2>5, <3>3, Zenon DEF Alloc, ExtendRegion, SlotsType
      <3>a. slots.mapped \union new = 0 .. 2 * TableEntries
        BY <1>0, <3>1, <3>3, SMTT(30) DEF BeforeExtension
      <3> HIDE DEF new
      <3>5. /\ slots' \in SlotsType /\ slots'.free_slots = <<>>
            /\ slots'.allocated = slots.allocated + 3 /\ slots'.last_pml1_slot = last + 3
            /\ slots'.pml1_count = slots.pml1_count + 1
            /\ slots'.mapped = 0 .. 2 * TableEntries
        <4>1. /\ slots'.free_slots = <<>>
              /\ slots'.allocated = slots.allocated + 2 + 1
              /\ slots'.last_pml1_slot = last + 1 + 2
              /\ slots'.pml1_count = slots.pml1_count + 1
              /\ slots'.mapped = slots.mapped \union new
          BY ONLY <1>0, <1>5, <3>4, SMTT(30) DEF SlotsType
        <4>2. /\ slots.allocated + 2 + 1 \in Nat /\ last + 1 + 2 \in Nat
              /\ slots.pml1_count + 1 \in Nat
              /\ slots.allocated + 2 + 1 = slots.allocated + 3
              /\ last + 1 + 2 = last + 3
          BY ONLY <1>0, SMTT(30)
        <4>3. slots.mapped \union new \in SUBSET Nat
          BY ONLY <1>0, <3>a
        <4>4. slots' \in SlotsType
          BY ONLY <1>0, <3>4, <4>2, <4>3, Zenon DEF SlotsType
        <4>5. QED
          BY ONLY <4>1, <4>2, <4>4, <3>a, SMTT(30)
      <3>6. AfterExtension(slots)' /\ slots'.allocated = Cardinality(in_use') + 2
        BY ONLY <1>0, <1>d, <2>2, <3>1, <3>5, SMTT(30) DEF BeforeExtension, AfterExtension
      <3>7. NeverSharedSlot'
        BY <1>0, <2>3, <3>5, SMTT(30)
      <3>8. CountIsExact'
        BY ONLY <1>0, <1>c, <2>0, <3>5, SMTT(30) DEF CountIsExact
      <3>9. slots'.pml1_count > slots.pml1_count
        BY ONLY <1>0, <3>5
      <3>10. QED
        BY ONLY <2>2, <3>5, <3>6, <3>7, <3>8, <3>9, SMTT(30) DEF SInv
    <2>6. QED
      BY <2>4, <2>5
  <1>6. QED
    BY <1>4, <1>5

(***************************************************************************)
(* dealloc: a slot in use goes back on the list; the code's panic on a     *)
(* slot out of range is never reached.                                     *)
(***************************************************************************)
LEMMA ReleaseKeeps ==
    ASSUME Assumptions, SInv, NEW slot \in in_use,
           slots' = Free(slots, slot), in_use' = in_use \ {slot}
    PROVE  SInv'
  <1> DEFINE free == slots.free_slots
             last == slots.last_pml1_slot
             longer == Append(free, slot)
  <1>0. /\ slots \in SlotsType /\ free \in Seq(Nat) /\ last \in Nat
        /\ slots.allocated \in Nat /\ Len(free) \in Nat /\ slot \in Nat
        /\ IsFiniteSet(in_use) /\ in_use \subseteq Nat
        /\ DOMAIN free = 1 .. Len(free)
    BY LenProperties DEF SInv, SlotsType
  <1>1. Apart(free, in_use, last)
    BY ApartIsNeverShared DEF SInv
  <1>2. /\ IsFiniteSet(in_use \ {slot}) /\ Cardinality(in_use) \in Nat \ {0}
        /\ Cardinality(in_use \ {slot}) = Cardinality(in_use) - 1
    BY ONLY <1>0, FS_RemoveElement, FS_CardinalityType, FS_EmptySet, SMTT(30)
  <1>5. \/ BeforeExtension(slots) /\ slots.allocated = Cardinality(in_use)
        \/ AfterExtension(slots) /\ slots.allocated = Cardinality(in_use) + 2
    BY DEF SInv
  <1>3. /\ slots' = [slots EXCEPT !.allocated = slots.allocated - 1, !.free_slots = longer]
        /\ in_use' = in_use \ {slot}
    <2>1. slot < last /\ slot \notin Range(free)
      BY <1>1 DEF Apart, Range
    <2>2. slots.allocated # 0
      BY ONLY <1>0, <1>2, <1>5
    <2>3. QED
      BY Zenon, <2>1, <2>2 DEF Free, Freeable
  <1>4. /\ longer \in Seq(Nat) /\ Len(longer) = Len(free) + 1
        /\ \A a \in 1 .. Len(free) : longer[a] = free[a]
        /\ longer[Len(free) + 1] = slot
        /\ DOMAIN longer = 1 .. Len(free) + 1
    BY <1>0, AppendProperties, LenProperties
  <1> HIDE DEF longer
  <1>6. slots.allocated - 1 \in Nat
    BY ONLY <1>0, <1>2, <1>5
  <1>7. /\ slots' \in SlotsType /\ slots'.free_slots = longer
        /\ slots'.allocated = slots.allocated - 1 /\ slots'.last_pml1_slot = last
        /\ slots'.pml1_count = slots.pml1_count /\ slots'.mapped = slots.mapped
    BY ONLY <1>0, <1>3, <1>4, <1>6, Zenon DEF SlotsType
  <1>8. NeverSharedSlot'
    <2>1. \A a \in 1 .. Len(free) + 1 :
             \/ a \in 1 .. Len(free) /\ longer[a] = free[a]
             \/ a = Len(free) + 1 /\ longer[a] = slot
      <3>1. \A n \in Nat : \A a \in 1 .. n + 1 : a \in 1 .. n \/ a = n + 1
        OBVIOUS
      <3>2. \A a \in 1 .. Len(free) + 1 : a \in 1 .. Len(free) \/ a = Len(free) + 1
        BY ONLY <1>0, <3>1
      <3>3. QED
        BY Zenon, <1>4, <3>2
    <2>2. \A a \in 1 .. Len(free) : free[a] # slot /\ free[a] \notin in_use /\ free[a] < last
      BY ONLY <1>0, <1>1, Zenon DEF Apart
    <2>3. \A a, b \in 1 .. Len(free) + 1 : longer[a] = longer[b] => a = b
      BY ONLY <1>0, <1>1, <2>1, <2>2, Zenon DEF Apart
    <2>4. \A a \in 1 .. Len(free) + 1 : longer[a] \notin in_use' /\ longer[a] < last
      BY ONLY <1>1, <1>3, <2>1, <2>2, slot \in in_use, SMTT(30) DEF Apart
    <2>5. \A x \in in_use' : x < last
      BY ONLY <1>1, <1>3 DEF Apart
    <2>6. Apart(longer, in_use', last)
      BY ONLY <1>4, <2>3, <2>4, <2>5, SMTT(30) DEF Apart
    <2>7. QED
      BY ONLY <1>7, <2>6, ApartIsNeverShared
  <1>9. CountIsExact'
    <2>1. \A a, n \in Nat : (a - 1) + (n + 1) = a + n
      OBVIOUS
    <2>2. slots.allocated + Len(free) = last
      BY DEF SInv, CountIsExact
    <2>a. slots.allocated \in Nat /\ Len(free) \in Nat
      BY ONLY <1>0, Zenon
    <2>3. (slots.allocated - 1) + (Len(free) + 1) = last
      BY ONLY <2>a, <2>1, <2>2, Zenon
    <2>4. QED
      BY Zenon, <1>4, <1>7, <2>3 DEF CountIsExact
  <1>10. \/ BeforeExtension(slots)' /\ slots'.allocated = Cardinality(in_use')
         \/ AfterExtension(slots)' /\ slots'.allocated = Cardinality(in_use') + 2
    BY ONLY <1>2, <1>3, <1>5, <1>7, SMTT(30) DEF BeforeExtension, AfterExtension
  <1>11. QED
    BY ONLY <1>0, <1>2, <1>3, <1>7, <1>8, <1>9, <1>10, SMTT(30) DEF SInv

LEMMA NextIInv ==
    ASSUME Assumptions, IInv, [Next]_vars
    PROVE  IInv' /\ (linked'.hit # linked'.meant =>
                        linked' = linked \/ slots'.pml1_count > slots.pml1_count)
  <1> USE DEF IInv
  <1>0. \A table \in Tables : TempAfterAlloc(table) \in Tables
    BY DEF TempAfterAlloc, Tables
  <1>1. CASE CloneKernelTable
    BY <1>0, <1>1, TakeKeeps DEF CloneKernelTable
  <1>2. CASE CreateUnderSlot
    BY <1>0, <1>2, TakeKeeps DEF CreateUnderSlot, Tables
  <1>3. CASE CreateUnderTemp
    <2>1. SInv' /\ (Extends(slots) => slots'.pml1_count > slots.pml1_count)
      BY <1>3, TakeKeeps DEF CreateUnderTemp
    <2>2. /\ temp' = TempAfterAlloc("parent")
          /\ linked' = [meant |-> "parent", hit |-> TempAfterAlloc("parent")]
      BY <1>3 DEF CreateUnderTemp
    <2>3. "parent" \in Tables
      BY DEF Tables
    <2>4. linked'.hit # linked'.meant => Extends(slots)
      BY <2>2 DEF TempAfterAlloc
    <2>5. QED
      BY <1>0, <2>1, <2>2, <2>3, <2>4, SMTT(30)
  <1>4. CASE Walk
    BY <1>4 DEF Walk, SInv, NeverSharedSlot, CountIsExact, BeforeExtension, AfterExtension, Tables
  <1>5. CASE Release
    BY <1>5, ReleaseKeeps DEF Release
  <1>6. CASE UNCHANGED vars
    BY <1>6 DEF vars, SInv, NeverSharedSlot, CountIsExact, BeforeExtension, AfterExtension
  <1>7. QED
    BY <1>1, <1>2, <1>3, <1>4, <1>5, <1>6, SMTT(30) DEF Next

LEMMA IInvSlotsSound ==
    ASSUME Assumptions, IInv
    PROVE  SlotsSound
  <1>1. TypeOK
    BY DEF IInv, SInv, SlotsType, TypeOK
  <1>2. HandedOutIsMapped
    <2>1. Apart(slots.free_slots, in_use, slots.last_pml1_slot)
      BY ApartIsNeverShared DEF IInv, SInv
    <2>2. /\ in_use \subseteq Nat /\ slots.last_pml1_slot \in Nat
          /\ TableEntries \in Nat
          /\ BeforeExtension(slots) \/ AfterExtension(slots)
      BY DEF IInv, SInv, SlotsType, Assumptions, TableEntriesAssumption
    <2>3. SUFFICES ASSUME NEW slot \in in_use, slot <= 2 * TableEntries
                   PROVE  slot \in slots.mapped
      BY Zenon DEF HandedOutIsMapped
    <2>4. slot \in Nat /\ slot < slots.last_pml1_slot
      BY <2>1, <2>2 DEF Apart
    <2>5. QED
      BY ONLY <2>2, <2>3, <2>4 DEF BeforeExtension, AfterExtension
  <1>3. QED
    BY <1>1, <1>2 DEF IInv, SInv, SlotsSound

(***************************************************************************)
(* alloc and free never give one slot to two tables, the count of slots is *)
(* exact, and every slot handed out within the extended region is mapped,  *)
(* however many slots there are.                                           *)
(***************************************************************************)
THEOREM SlotsAreSound == ASSUME Assumptions PROVE Spec => []SlotsSound
  <1>1. Init => IInv
    BY InitIInv
  <1>2. IInv /\ [Next]_vars => IInv'
    BY NextIInv
  <1>3. IInv => SlotsSound
    BY IInvSlotsSound
  <1>4. QED
    BY <1>1, <1>2, <1>3, PTL DEF Spec

(***************************************************************************)
(* next_table_create links a new table into a table other than the one     *)
(* meant only in the call whose alloc extends the region.                  *)
(***************************************************************************)
THEOREM MislinksOnlyWhenExtending ==
    ASSUME Assumptions PROVE Spec => MislinkOnlyWhenExtending
  <1>1. Init => IInv
    BY InitIInv
  <1>2. IInv /\ [Next]_vars => IInv'
    BY NextIInv
  <1>3. IInv /\ [Next]_vars =>
           [linked'.hit # linked'.meant =>
               linked' = linked \/ slots'.pml1_count > slots.pml1_count]_vars
    BY NextIInv
  <1>4. QED
    BY <1>1, <1>2, <1>3, PTL DEF Spec, MislinkOnlyWhenExtending
=============================================================================
