------------------------------ MODULE AhciPort -----------------------------
(***************************************************************************)
(* Commands on an AHCI port (send_command in src/ahci/port.rs): the driver *)
(* waits until the device is ready, takes a free command slot, resetting   *)
(* the port if there is none, writes the slot's table, issues the command  *)
(* and spins until the device has cleared every issued command or has      *)
(* raised an error.  One command is sent at a time: the file system holds  *)
(* its lock.                                                               *)
(*                                                                         *)
(* The device takes the issued commands in any order.  When one fails it   *)
(* raises the error bit, leaves the command issued and takes no other      *)
(* until the port is stopped and started.                                  *)
(***************************************************************************)
EXTENDS Integers, Sequences, FiniteSets, FiniteSetsExt

CONSTANTS SlotCounts,           \* how many command slots a controller may have
          Byte,                 \* values of a byte, 256 in the code
          Lbas,                 \* sectors that commands are for
          MaxCommands,          \* bound: commands sent
          DeviceFails           \* whether the device may fail a command

AhciPortAssumption ==
    /\ SlotCounts \subseteq Nat \ {0}
    /\ Byte \in Nat \ {0} /\ MaxCommands \in Nat
    /\ Lbas \subseteq 0 .. Byte^6 - 1
    /\ DeviceFails \in BOOLEAN

VARIABLES max_slots,            \* command slots of this controller
          stage,                \* where the driver is
          command,              \* the command being sent: number and sector
          slot,                 \* the slot taken for it
          tables,               \* slot -> the command in its table
          ci,                   \* commands issued, a set of slots
          tfes,                 \* the error bit of the status register
          halted,               \* the device has failed and takes no command
          executed,             \* what the device has done: number and sector
          result                \* what the last call returned

vars == <<max_slots, stage, command, slot, tables, ci, tfes, halted, executed,
          result>>

Slots == 0 .. max_slots - 1
NoTable == [number |-> 0, lba |-> <<0, 0, 0, 0, 0, 0>>]

Init ==
    /\ max_slots \in SlotCounts
    /\ stage = "idle"
    /\ command = [number |-> 0, lba |-> 0]
    /\ slot = 0
    /\ tables = [s \in Slots |-> NoTable]
    /\ ci = {}
    /\ tfes = FALSE
    /\ halted = FALSE
    /\ executed = {}
    /\ result = TRUE
----------------------------------------------------------------------------
(* A slip: one byte of the sector twice. *)
LbaByteTwice(lba) ==
    LET low  == lba % Byte^4
        high == lba \div Byte^4
    IN  <<low % Byte, (low \div Byte) % Byte, (low \div Byte) % Byte,
          high % Byte, (high \div Byte) % Byte, (high \div Byte^2) % Byte>>

(***************************************************************************)
(* The six bytes of the sector number in the command: the low word goes    *)
(* into lba0 to lba2, and the bytes of the high word into lba3 to lba5.    *)
(***************************************************************************)
LbaBytes(lba) ==
    LET low  == lba % Byte^4
        high == lba \div Byte^4
    IN  <<low % Byte, (low \div Byte) % Byte, (low \div Byte^2) % Byte,
          high % Byte, (high \div Byte) % Byte, (high \div Byte^2) % Byte>>

(* The sector a device reads out of them *)
SectorOf(bytes) ==
    bytes[1] + bytes[2] * Byte + bytes[3] * Byte^2 + bytes[4] * Byte^3
      + bytes[5] * Byte^4 + bytes[6] * Byte^5

(* The status bits are cleared first. *)
SendCommand(lba) ==
    /\ stage = "idle"
    /\ command.number < MaxCommands
    /\ command' = [number |-> command.number + 1, lba |-> lba]
    /\ tfes' = FALSE
    /\ stage' = "ready"
    /\ UNCHANGED <<max_slots, slot, tables, ci, halted, executed, result>>

(* The device was busy for all of the spins, or, with a slot taken, there   *)
(* is no table for the buffer.                                             *)
GiveUp ==
    /\ stage \in {"ready", "fill"}
    /\ stage' = "idle"
    /\ result' = FALSE
    /\ UNCHANGED <<max_slots, command, slot, tables, ci, tfes, halted,
                   executed>>

(* Slips below: slots in use taken for free, a reset that does not start   *)
(* the device, a call that does not wait, an error noticed only when       *)
(* nothing is issued.                                                      *)
AnySlot == Slots

FreeSlots == Slots \ ci

GetFreeSlot ==
    /\ stage = "ready"
    /\ FreeSlots # {}
    /\ slot' = Min(FreeSlots)
    /\ stage' = "fill"
    /\ UNCHANGED <<max_slots, command, tables, ci, tfes, halted, executed,
                   result>>

ResetWithoutStart ==
    /\ stage = "ready"
    /\ FreeSlots = {}
    /\ ci' = {}
    /\ slot' = 0
    /\ stage' = "fill"
    /\ UNCHANGED <<max_slots, command, tables, tfes, halted, executed, result>>

(* No slot is free: the port is stopped, which drops what was issued, and  *)
(* started.                                                                *)
ResetPort ==
    /\ stage = "ready"
    /\ FreeSlots = {}
    /\ ci' = {}
    /\ halted' = FALSE
    /\ slot' = 0
    /\ stage' = "fill"
    /\ UNCHANGED <<max_slots, command, tables, tfes, executed, result>>

FillTable ==
    /\ stage = "fill"
    /\ tables' = [tables EXCEPT ![slot] =
                    [number |-> command.number, lba |-> LbaBytes(command.lba)]]
    /\ stage' = "issue"
    /\ UNCHANGED <<max_slots, command, slot, ci, tfes, halted, executed,
                   result>>

Issue ==
    /\ stage = "issue"
    /\ ci' = ci \union {slot}
    /\ stage' = "wait"
    /\ UNCHANGED <<max_slots, command, slot, tables, tfes, halted, executed,
                   result>>

NotWaited ==
    /\ stage = "wait"
    /\ result' = ~ tfes
    /\ stage' = "idle"
    /\ UNCHANGED <<max_slots, command, slot, tables, ci, tfes, halted,
                   executed>>

AllDone ==
    /\ stage = "wait"
    /\ ci = {}
    /\ result' = ~ tfes
    /\ stage' = "idle"
    /\ UNCHANGED <<max_slots, command, slot, tables, ci, tfes, halted,
                   executed>>

FailedUnseen ==
    /\ stage = "wait"
    /\ ci = {}
    /\ tfes
    /\ result' = FALSE
    /\ stage' = "idle"
    /\ UNCHANGED <<max_slots, command, slot, tables, ci, tfes, halted,
                   executed>>

Failed ==
    /\ stage = "wait"
    /\ ci # {}
    /\ tfes
    /\ result' = FALSE
    /\ stage' = "idle"
    /\ UNCHANGED <<max_slots, command, slot, tables, ci, tfes, halted,
                   executed>>

(* The device *)
DeviceExecutes(s) ==
    /\ s \in ci
    /\ ~ halted
    /\ ci' = ci \ {s}
    /\ executed' = executed \union {[number |-> tables[s].number,
                                     lba |-> SectorOf(tables[s].lba)]}
    /\ UNCHANGED <<max_slots, stage, command, slot, tables, tfes, halted,
                   result>>

DeviceFailsCommand(s) ==
    /\ DeviceFails
    /\ s \in ci
    /\ ~ halted
    /\ halted' = TRUE
    /\ tfes' = TRUE
    /\ UNCHANGED <<max_slots, stage, command, slot, tables, ci, executed,
                   result>>

Device == \E s \in Slots : DeviceExecutes(s) \/ DeviceFailsCommand(s)

SendCommandGoesOn == GiveUp \/ GetFreeSlot \/ ResetPort \/ FillTable \/ Issue
                     \/ AllDone \/ Failed

Next == (\E lba \in Lbas : SendCommand(lba)) \/ SendCommandGoesOn \/ Device

Spec == Init /\ [][Next]_vars

(* The processor runs the driver, and the device answers. *)
Fairness == WF_vars(SendCommandGoesOn) /\ WF_vars(Device)

FairSpec == Spec /\ Fairness
----------------------------------------------------------------------------
(* The driver's place and the registers. *)
TypeOK ==
    /\ stage \in {"idle", "ready", "fill", "issue", "wait"}
    /\ slot \in Slots
    /\ ci \subseteq Slots
    /\ {tfes, halted, result} \subseteq BOOLEAN
    /\ command.number \in 0 .. MaxCommands

(* A call that returns true has had its command executed, although it only *)
(* looks at registers that earlier commands have written to as well.       *)
TrueMeansDone ==
    stage = "idle" /\ result /\ command.number > 0 =>
        \E done \in executed : done.number = command.number

(* A table that the device may still read is not written: the slot taken   *)
(* has no command issued (get_free_slot, also after a failed command).     *)
TableNotInUse == stage \in {"fill", "issue"} => slot \notin ci

(* The device works on the sector that was asked for, up to sector         *)
(* 2^24 - 1 (8 GiB).                                                       *)
SectorAsAsked ==
    command.lba < Byte^3 => \A done \in executed :
        done.number = command.number => done.lba = command.lba

(* On a controller with one slot every call returns: the next call after a *)
(* failed command finds no free slot and resets the port.                  *)
CommandReturns == (stage = "ready" /\ max_slots = 1) ~> stage = "idle"

(* A call returns, unless a command failed before it: the failed one stays *)
(* issued, and the next call waits for both.                               *)
ReturnsUntilFailure ==
    (stage = "ready" /\ ~ halted) ~> stage = "idle"
=============================================================================
