------------------------------ MODULE MCDevices ----------------------------
(***************************************************************************)
(* The drivers for TLC: PCI, the probe of the disk ports, the region table *)
(* of a disk command, the commands on a port, the tick clock with its      *)
(* sleeps, reading the real-time clock, and the calendar.  They share no   *)
(* state, so one of them runs in a behaviour and the others stay as they   *)
(* began.                                                                  *)
(***************************************************************************)
EXTENDS Integers, Sequences, FiniteSets

CONSTANTS LastBus, LastDevice, LastFunction, Classes, Width, Sizes,
          PortCount,
          PAGE_SIZE, HBA_PRDT_MAX_BYTE_COUNT, HBA_PRDT_ENTRY_COUNT,
          Pages, Frames,
          SlotCounts, Byte, Lbas, MaxCommands, DeviceFails,
          Period, Durations, MaxDuration, MaxNow,
          SecondsPerMinute, MinutesPerHour, MaxClock,
          LastYear

VARIABLES active,
          config, bus, devices, window, registers, original, todo, probed, size,
          implemented, disks, i, pi, ports,
          translation, start, count, virt_addr, bytes_remaining, entries,
          buffer_phys, entry_size, table_stage,
          max_slots, stage, command, slot, tables, ci, tfes, halted, executed,
          result,
          now, TICKS, latched, sleep, slept,
          clock, mode, updating, updated, reading, datetime, began, shown,
          year, month, day, elapsed

Bus      == INSTANCE Pci
Probe    == INSTANCE AhciProbe
Table    == INSTANCE Prdt WITH stage <- table_stage
Port     == INSTANCE AhciPort
Ticks    == INSTANCE Clock
RealTime == INSTANCE Rtc WITH result <- shown
Civil    == INSTANCE Calendar

ASSUME DevicesAssumption ==
    /\ Bus!PciAssumption
    /\ Probe!AhciProbeAssumption
    /\ Table!PrdtAssumption
    /\ Port!AhciPortAssumption
    /\ Ticks!ClockAssumption
    /\ RealTime!RtcAssumption
    /\ Civil!CalendarAssumption

pci_vars   == <<config, bus, devices, window, registers, original, todo, probed, size>>
probe_vars == <<implemented, disks, i, pi, ports>>
table_vars == <<translation, start, count, virt_addr, bytes_remaining, entries,
                buffer_phys, entry_size, table_stage>>
port_vars  == <<max_slots, stage, command, slot, tables, ci, tfes, halted,
                executed, result>>
disk_vars  == <<probe_vars, table_vars, port_vars>>
ticks_vars == <<now, TICKS, latched, sleep, slept>>
rtc_vars   == <<clock, mode, updating, updated, reading, datetime, began, shown>>
civil_vars == <<year, month, day, elapsed>>
time_vars  == <<ticks_vars, rtc_vars, civil_vars>>
vars == <<active, pci_vars, disk_vars, time_vars>>

(* One of the initial states, for a part that does not run *)
Init ==
    /\ active \in {"bus", "window", "probe", "table", "port", "ticks", "rtc", "civil"}
    /\ active # "bus" => config = [f \in Bus!Functions |-> Bus!Absent]
    /\ active # "window" =>
         /\ window = [flags |-> 0, bits |-> 4]
         /\ registers = [command |-> 3, bar |-> 0, next |-> 0]
    /\ active # "probe" => implemented = {} /\ disks = {}
    /\ active # "table" =>
         translation = [p \in Pages |-> -1] /\ start = 0 /\ count = 0
    /\ active # "port" => max_slots = 1
    /\ active # "rtc" =>
         /\ clock = 0
         /\ mode = [binary |-> TRUE, hours24 |-> TRUE]
         /\ updating = FALSE
    /\ Bus!Init
    /\ Probe!Init
    /\ Table!Init
    /\ Port!Init
    /\ Ticks!Init
    /\ RealTime!Init
    /\ Civil!Init

Next ==
    /\ UNCHANGED active
    /\ \/ /\ \/ active = "bus" /\ Bus!EnumeratePci
             \/ active = "window" /\ Bus!Access
          /\ UNCHANGED <<disk_vars, time_vars>>
       \/ /\ \/ active = "probe" /\ Probe!Next /\ UNCHANGED <<table_vars, port_vars>>
             \/ active = "table" /\ Table!Next /\ UNCHANGED <<probe_vars, port_vars>>
             \/ active = "port" /\ Port!Next /\ UNCHANGED <<probe_vars, table_vars>>
          /\ UNCHANGED <<pci_vars, time_vars>>
       \/ /\ \/ active = "ticks" /\ Ticks!Next /\ UNCHANGED <<rtc_vars, civil_vars>>
             \/ active = "rtc" /\ RealTime!Next /\ UNCHANGED <<ticks_vars, civil_vars>>
             \/ active = "civil" /\ Civil!Next /\ UNCHANGED <<ticks_vars, rtc_vars>>
          /\ UNCHANGED <<pci_vars, disk_vars>>

(* fill_prdt_entries and send_command are run by the processor, with no    *)
(* wait but for the device, which answers.                                 *)
Fairness ==
    /\ WF_table_vars(active = "table" /\ Table!Next)
    /\ WF_port_vars(active = "port" /\ Port!SendCommandGoesOn)
    /\ WF_port_vars(active = "port" /\ Port!Device)

Spec == Init /\ [][Next]_vars /\ Fairness
----------------------------------------------------------------------------
(* The devices are found and set up: enumerate_pci finds the functions     *)
(* behind a function 0, in order; probe_bar_size moves no window that is   *)
(* decoded, puts every register back, and finds the size; probe_ports      *)
(* finds the disk on the lowest port first, and every disk when no empty   *)
(* port precedes one.                                                      *)
DevicesSetUp ==
    /\ active = "bus" => Bus!FunctionsFound
    /\ active = "window" => Bus!ProbeSound
    /\ active = "probe" =>
         Probe!TypeOK /\ Probe!FirstDiskFound /\ Probe!FoundBeforeEmptyPorts

(* fill_prdt_entries: types; the table names every byte of the buffer once, *)
(* in order, and no entry ends early.                                      *)
TableIsBuffer ==
    active = "table" =>
        Table!TypeOK /\ Table!TableIsBuffer /\ Table!EntriesAreLongest

(* send_command returns true only for a command the device has executed.   *)
TrueMeansDone == active = "port" => Port!TrueMeansDone

(* get_free_slot gives no slot whose table the device may still read.      *)
TableNotInUse == active = "port" => Port!TableNotInUse

(* send_command: types; the device works on the sector asked for if it     *)
(* lies below 2^24.                                                        *)
PortSound == active = "port" => Port!TypeOK /\ Port!SectorAsAsked

(* The disk driver comes back: fill_prdt_entries ends, with a table or     *)
(* without; send_command returns on a controller with one slot, and on any *)
(* as long as no command has failed before.                                *)
DriverReturns ==
    /\ active = "table" => Table!Ends
    /\ Port!CommandReturns
    /\ Port!ReturnsUntilFailure


(* read_unix_time returns a second that the chip showed while it was read, *)
(* but for hour 12 of a 12-hour clock; days_from_civil, which it uses,     *)
(* counts the days from the first of January 1970.                         *)
TimeAsShown ==
    /\ active = "rtc" => RealTime!TimeAsShown
    /\ active = "civil" => Civil!DaysCounted
=============================================================================
