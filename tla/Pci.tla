--------------------------------- MODULE Pci -------------------------------
(***************************************************************************)
(* PCI (src/arch/x86_64/acpi/pci.rs): the search for functions bus by bus, *)
(* and probe_bar_size, which writes ones to a base address register to see *)
(* which bits the device keeps, and puts everything back.                  *)
(*                                                                         *)
(* A register has Width bits instead of 32.  The device ignores writes to  *)
(* the bits below its size and to the flags, which are the low four bits.  *)
(***************************************************************************)
EXTENDS Integers, Sequences, FiniteSets, SequencesExt

CONSTANTS LastBus, LastDevice, LastFunction, Classes,
          Width,                \* bits of a register
          Sizes                 \* log2 of the sizes of windows

PciAssumption ==
    /\ {LastBus, LastDevice, LastFunction} \subseteq Nat
    /\ Width \in Nat /\ Width > 4
    /\ Sizes \subseteq 4 .. 2 * Width - 1

VARIABLES config,               \* function -> its class, or absent
          bus, devices,         \* enumerate_pci: the next bus, PciDevices
          window,               \* the device's window: flags and log2 size
          registers,            \* command, bar and the bar after it
          original,             \* what they held
          todo, probed, size    \* probe_bar_size: accesses left, and results

vars == <<config, bus, devices, window, registers, original, todo, probed, size>>

Absent == "absent"
Functions == (0 .. LastBus) \X (0 .. LastDevice) \X (0 .. LastFunction)
Present(b, d, f) == config[<<b, d, f>>] # Absent
----------------------------------------------------------------------------
(* enumerate_device: the functions of a device, none without the first *)
EnumerateDevice(b, d) ==
    IF ~ Present(b, d, 0) THEN <<>>
    ELSE SelectSeq([f \in 1 .. LastFunction + 1 |-> <<b, d, f - 1>>],
                   LAMBDA x : Present(x[1], x[2], x[3]))

(* A slip: a device whose second function is missing is passed over. *)
EnumerateWholeBus(b) ==
    IF ~ Present(b, 0, 0) THEN <<>>
    ELSE FlattenSeq([d \in 1 .. LastDevice + 1 |->
            IF Present(b, d - 1, LastFunction) THEN EnumerateDevice(b, d - 1) ELSE <<>>])

(* enumerate_bus: its devices, none without the first *)
EnumerateBus(b) ==
    IF ~ Present(b, 0, 0) THEN <<>>
    ELSE FlattenSeq([d \in 1 .. LastDevice + 1 |-> EnumerateDevice(b, d - 1)])

(* get_device: the first of the class *)
GetDevice(class) ==
    LET at == {i \in DOMAIN devices : config[devices[i]] = class}
    IN  IF at = {} THEN Absent ELSE devices[CHOOSE i \in at : \A j \in at : i <= j]

EnumeratePci ==
    /\ bus <= LastBus
    /\ devices' = devices \o EnumerateBus(bus)
    /\ bus' = bus + 1
    /\ UNCHANGED <<config, window, registers, original, todo, probed, size>>
----------------------------------------------------------------------------
Ones == 2 ^ Width - 1

(* What a register holds of a value written to it: the bits from the size  *)
(* on, of the low or the high half, and the flags.                         *)
Kept(value, bits) == value - (value % 2 ^ bits)
Capped(bits) == IF bits < 0 THEN 0 ELSE IF bits > Width THEN Width ELSE bits
Stored(register, value) ==
    CASE register = "command" -> value
      [] register = "bar" -> Kept(value, Capped(window.bits)) + window.flags
      [] register = "next" -> IF window.flags = 4 THEN Kept(value, Capped(window.bits - Width))
                                                  ELSE value

IsIo(value) == value % 2 = 1
MemType(value) == (value \div 2) % 4

To(register, value) == [to |-> register, value |-> value]
Read == To("none", 0)

(* A slip: decoding is left on. *)
DecodingLeftOn(command) == command

DecodingOff(command) == command - (command % 4)

(* probe_bar_size as the accesses it makes *)
ProbeBarSize ==
    LET command  == registers.command
        bar      == registers.bar
        restored == To("command", command)
    IN  <<To("command", DecodingOff(command))>>
          \o (CASE bar = 0 -> <<>>
                [] bar # 0 /\ (IsIo(bar) \/ MemType(bar) = 0) ->
                     <<To("bar", Ones), Read, To("bar", bar)>>
                [] bar # 0 /\ ~ IsIo(bar) /\ MemType(bar) = 2 ->
                     <<To("bar", Ones), To("next", Ones), Read,
                       To("bar", bar), To("next", registers.next)>>
                [] OTHER -> <<>>)
          \o <<restored>>

(* The size from what was read back; 0 stands for None.  The size of an IO *)
(* window keeps the bits above the register's width.                       *)
SizeOf(bar, low, high) ==
    LET space == 2 ^ (2 * Width)
        mask  == CASE IsIo(bar) -> low - (low % 4)
                   [] MemType(bar) = 0 -> low - (low % 16)
                   [] OTHER -> high * 2 ^ Width + low - (low % 16)
    IN  CASE mask = 0 -> 0
          [] mask # 0 /\ IsIo(bar) -> space - mask
          [] mask # 0 /\ ~ IsIo(bar) /\ MemType(bar) = 0 -> (space - mask) % 2 ^ Width
          [] OTHER -> space - mask

Access ==
    /\ todo # <<>>
    /\ todo' = Tail(todo)
    /\ IF Head(todo) = Read
         THEN /\ probed' = TRUE
              /\ size' = SizeOf(original.bar, registers.bar, registers.next)
              /\ UNCHANGED registers
         ELSE /\ registers' = [registers EXCEPT ![Head(todo).to] =
                                  Stored(Head(todo).to, Head(todo).value)]
              /\ UNCHANGED <<probed, size>>
    /\ UNCHANGED <<config, bus, devices, window, original>>

(* A device's window: an IO window (flag 1), memory below 2^Width (0) or   *)
(* anywhere (4), at a multiple of its size.                                *)
Windows ==
    {w \in [flags : {0, 1, 4}, bits : Sizes] : w.flags # 4 => w.bits < Width}

Init ==
    /\ config \in [Functions -> Classes \union {Absent}]
    /\ bus = 0 /\ devices = <<>>
    /\ window \in Windows
    /\ registers \in {[command |-> c, bar |-> Kept(a, Capped(window.bits)) + window.flags,
                       next |-> IF window.flags = 4
                                  THEN Kept(a, Capped(window.bits - Width)) ELSE a] :
                          c \in {3, 7}, a \in {0, Ones}}
    /\ original = registers
    /\ todo = ProbeBarSize
    /\ probed = FALSE /\ size = 0

Next == EnumeratePci \/ Access

Spec == Init /\ [][Next]_vars
----------------------------------------------------------------------------
Before(x, y) ==
    \E i \in 1 .. 3 : x[i] < y[i] /\ \A j \in 1 .. i - 1 : x[j] = y[j]

(* enumerate_pci lists every function whose device has a function 0 on a   *)
(* bus that has a device 0, once and in order, so that get_device answers  *)
(* with the lowest one of a class.                                         *)
FunctionsFound ==
    bus > LastBus =>
        LET behind == {x \in Functions : /\ config[x] # Absent
                                         /\ Present(x[1], x[2], 0)
                                         /\ Present(x[1], 0, 0)}
        IN  /\ ToSet(devices) = behind
            /\ \A i, j \in DOMAIN devices : i < j => Before(devices[i], devices[j])
            /\ \A c \in Classes : \A x \in behind :
                  config[x] = c => GetDevice(c) = x \/ Before(GetDevice(c), x)

(* probe_bar_size never moves a window that the device decodes, leaves     *)
(* every register as it was, and finds the size of a memory window, and of *)
(* an IO window but for the bits above the register.                       *)
ProbeSound ==
    /\ registers.bar # original.bar \/ registers.next # original.next
         => registers.command % 4 = 0
    /\ todo = <<>> =>
         /\ registers = original
         /\ probed = (original.bar # 0)
         /\ probed => size % 2 ^ (IF window.flags = 1 THEN Width ELSE 2 * Width)
                        = 2 ^ window.bits
=============================================================================
