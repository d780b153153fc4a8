----------------------------- MODULE AhciProbe -----------------------------
(***************************************************************************)
(* Finding the disks of an AHCI controller (probe_ports in                 *)
(* src/ahci/mod.rs): bit i of the register pi says whether port i is       *)
(* implemented.  The register is shifted down one bit a round, except in   *)
(* the rounds that end early because the port has no disk.                 *)
(***************************************************************************)
EXTENDS Integers, Sequences, FiniteSets, FiniteSetsExt

CONSTANT PortCount

AhciProbeAssumption == PortCount \in Nat \ {0}

VARIABLES implemented,          \* ports that the controller implements
          disks,                \* those with a SATA or SATAPI device
          i,                    \* the round
          pi,                   \* the bits set in the shifted register
          ports                 \* the ports set up, in order

vars == <<implemented, disks, i, pi, ports>>

Ports == 0 .. PortCount - 1

(* A port that is not implemented reads as one without a device. *)
Init ==
    /\ implemented \in SUBSET Ports
    /\ disks \in SUBSET implemented
    /\ i = 0
    /\ pi = implemented
    /\ ports = <<>>

Shifted(bits) == {b - 1 : b \in bits \ {0}}

(* Slips below: a round without a port does not shift, the probe ends with *)
(* the first disk.                                                         *)
NotShifted ==
    /\ i < PortCount
    /\ 0 \notin pi
    /\ i' = i + 1
    /\ UNCHANGED <<implemented, disks, pi, ports>>

NotImplemented ==
    /\ i < PortCount
    /\ 0 \notin pi
    /\ pi' = Shifted(pi)
    /\ i' = i + 1
    /\ UNCHANGED <<implemented, disks, ports>>

(* `continue`, before the shift *)
NoDisk ==
    /\ i < PortCount
    /\ 0 \in pi
    /\ i \notin disks
    /\ i' = i + 1
    /\ UNCHANGED <<implemented, disks, pi, ports>>

SetUpFirst ==
    /\ i < PortCount
    /\ 0 \in pi
    /\ i \in disks
    /\ ports' = Append(ports, i)
    /\ pi' = Shifted(pi)
    /\ i' = PortCount
    /\ UNCHANGED <<implemented, disks>>

SetUp ==
    /\ i < PortCount
    /\ 0 \in pi
    /\ i \in disks
    /\ ports' = Append(ports, i)
    /\ pi' = Shifted(pi)
    /\ i' = i + 1
    /\ UNCHANGED <<implemented, disks>>

Next == NotImplemented \/ NoDisk \/ SetUp

Spec == Init /\ [][Next]_vars
----------------------------------------------------------------------------
Found == {ports[n] : n \in DOMAIN ports}
Done == i = PortCount

(* The round and the ports found so far. *)
TypeOK ==
    /\ i \in 0 .. PortCount
    /\ pi \subseteq Ports
    /\ Found \subseteq disks
    /\ Len(ports) = Cardinality(Found)

(* The disk on the lowest port, the one the file system is mounted from,   *)
(* is found and comes first, whatever the empty ports before it did to the *)
(* register.                                                               *)
FirstDiskFound == Done /\ disks # {} => ports # <<>> /\ ports[1] = Min(disks)

(* When all ports with nothing on them lie behind the last disk, every     *)
(* disk is found: a round that ends early only harms later ones.           *)
FoundBeforeEmptyPorts ==
    Done /\ (\A p \in implemented \ disks, d \in disks : p > d) =>
        Found = disks
=============================================================================
