--------------------------- MODULE AhciPortProofs --------------------------
(***************************************************************************)
(* Commands on a port, for controllers with any number of slots, any       *)
(* number of commands and any device that executes or fails them.          *)
(***************************************************************************)
EXTENDS AhciPort, WellFoundedInduction, TLAPS

(***************************************************************************)
(* The inductive invariant.  The slot taken is free until the command is   *)
(* issued; its table names the command from then on; while the driver      *)
(* waits, the command is still issued or has been executed.                *)
(***************************************************************************)
Executed == \E done \in executed : done.number = command.number

InSlot == tables[slot].number = command.number

IInv ==
    /\ max_slots \in Nat \ {0}
    /\ slot \in Slots
    /\ stage \in {"idle", "ready", "fill", "issue", "wait"}
    /\ command.number \in Nat
    /\ DOMAIN tables = Slots
    /\ stage \in {"fill", "issue"} => slot \notin ci
    /\ stage = "issue" => InSlot
    /\ stage = "wait" => (slot \in ci /\ InSlot) \/ Executed
    /\ stage = "idle" /\ result /\ command.number > 0 => Executed

\* get_free_slot: the lowest free slot is one of the free slots.
LEMMA MinIsElement ==
    ASSUME NEW S, S \subseteq Nat, S # {}
    PROVE  Min(S) \in S
  <1> DEFINE R == {pair \in Nat \X Nat : pair[1] < pair[2]}
  <1>1. IsWellFoundedOn(R, Nat)
    BY NatLessThanWellFounded DEF OpToRel
  <1>2. PICK x \in S : \A y \in S : ~(<<y, x>> \in R)
    <2> HIDE DEF R
    <2> QED
      BY <1>1, WFMin, Zenon
  <1>3. ASSUME NEW y \in S PROVE x <= y
    <2>1. x \in Nat /\ y \in Nat
      OBVIOUS
    <2>2. ~(y < x)
      BY <1>2, <2>1, Zenon
    <2>3. QED
      BY <2>1, <2>2
  <1>4. QED
    BY <1>3, Zenon DEF Min

LEMMA InitIInv ==
    ASSUME AhciPortAssumption, Init
    PROVE  IInv
  BY DEF AhciPortAssumption, Init, IInv, Slots, InSlot, Executed

LEMMA NextIInv ==
    ASSUME AhciPortAssumption, IInv, [Next]_vars
    PROVE  IInv'
  <1> USE DEF AhciPortAssumption, Slots, InSlot, Executed
  <1>1. CASE UNCHANGED vars
    BY <1>1 DEF IInv, vars
  <1>2. ASSUME NEW lba \in Lbas, SendCommand(lba)
        PROVE  IInv'
    BY <1>2 DEF IInv, SendCommand
  <1>3. CASE GiveUp
    BY <1>3 DEF IInv, GiveUp
  <1>4. CASE GetFreeSlot
    <2>1. Min(FreeSlots) \in FreeSlots
      BY <1>4, MinIsElement DEF GetFreeSlot, FreeSlots, IInv
    <2>2. QED
      BY <1>4, <2>1 DEF IInv, GetFreeSlot, FreeSlots
  <1>5. CASE ResetPort
    BY <1>5 DEF IInv, ResetPort
  <1>6. CASE FillTable
    BY <1>6 DEF IInv, FillTable
  <1>7. CASE Issue
    BY <1>7 DEF IInv, Issue
  <1>8. CASE AllDone
    BY <1>8 DEF IInv, AllDone
  <1>9. CASE Failed
    BY <1>9 DEF IInv, Failed
  <1>10. ASSUME NEW s \in Slots, DeviceExecutes(s)
         PROVE  IInv'
    <2>1. Executed => Executed'
      BY <1>10 DEF DeviceExecutes
    <2>2. ASSUME s = slot, InSlot PROVE Executed'
      <3> DEFINE done == [number |-> tables[s].number,
                          lba |-> SectorOf(tables[s].lba)]
      <3>1. done \in executed' /\ done.number = command'.number
        BY <1>10, <2>2 DEF DeviceExecutes
      <3>2. QED
        BY <3>1
    <2>3. QED
      BY <1>10, <2>1, <2>2 DEF IInv, DeviceExecutes
  <1>11. ASSUME NEW s \in Slots, DeviceFailsCommand(s)
         PROVE  IInv'
    BY <1>11 DEF IInv, DeviceFailsCommand
  <1>12. QED
    BY <1>1, <1>2, <1>3, <1>4, <1>5, <1>6, <1>7, <1>8, <1>9, <1>10, <1>11
       DEF Next, SendCommandGoesOn, Device

LEMMA Invariant ==
    ASSUME AhciPortAssumption
    PROVE  Spec => []IInv
  <1>1. Init => IInv
    BY InitIInv
  <1>2. IInv /\ [Next]_vars => IInv'
    BY NextIInv
  <1>3. QED
    BY <1>1, <1>2, PTL DEF Spec

(***************************************************************************)
(* send_command returns true only for a command the device has executed,   *)
(* whatever earlier commands failed or are still issued.                   *)
(***************************************************************************)
THEOREM PortTrueMeansDone ==
    ASSUME AhciPortAssumption
    PROVE  Spec => []TrueMeansDone
  <1>1. IInv => TrueMeansDone
    BY DEF IInv, TrueMeansDone, Executed
  <1>2. QED
    BY <1>1, Invariant, PTL

(***************************************************************************)
(* send_command writes no table whose command is issued: get_free_slot     *)
(* gives a free one, and a reset of the port leaves none issued.           *)
(***************************************************************************)
THEOREM PortTableNotInUse ==
    ASSUME AhciPortAssumption
    PROVE  Spec => []TableNotInUse
  <1>1. IInv => TableNotInUse
    BY DEF IInv, TableNotInUse
  <1>2. QED
    BY <1>1, Invariant, PTL
=============================================================================
