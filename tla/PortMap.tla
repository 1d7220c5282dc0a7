------------------------------ MODULE PortMap ------------------------------
(***************************************************************************)
(* hardware/io.c: which device owns each I/O port of the Z80, how the map  *)
(* is built at start-up and changed by the monitor, and what a read or a   *)
(* write of a port does, for the z80ctrl registers in full and for the     *)
(* other internal devices as "they answer".                                *)
(***************************************************************************)
EXTENDS Integers

CONSTANTS
  Ports,     \* port addresses
  Defaults,  \* default_ports: [some ports -> internal devices]
  TmsPort,   \* the data port at which tms_detect may find a TMS9918A
  Chips,     \* numbers of the GPIO expanders that are fitted, of 1 .. 7
  Regs,      \* their registers
  Data       \* values of a uint8_t

\* Internal devices come before EXT_UNKNOWN in device_type, external ones after.
Z8c == {"z8cdev", "z8creg", "z8cdlo", "z8cdhi"}
Internal == {"none", "other"} \cup Z8c
External == {"extern", "tmsram", "tmsreg"}
Devices == Internal \cup External

ASSUME PortAssumption ==
  /\ Defaults \in [DOMAIN Defaults -> Internal \ {"none"}]
  /\ DOMAIN Defaults \subseteq Ports
  /\ TmsPort \in Ports /\ TmsPort + 1 \in Ports
  /\ Chips \subseteq 1 .. 7 /\ 0 \in Data /\ Regs \subseteq Data

VARIABLES
  boot,      \* iorq_init: "off" before it, "scanned", or "blind" without the bus
  present,   \* the ports at which external hardware answers a read
  readPort,  \* read_port[]
  writePort, \* write_port[]
  dev,       \* z8c_dev
  reg,       \* z8c_reg
  gpio,      \* the registers of the expanders
  bus        \* who put data on the bus in the last step

mapVars == <<boot, present, readPort, writePort, dev, reg, gpio, bus>>

MapInit ==
  /\ boot = "off"
  /\ present \in SUBSET Ports
  /\ readPort = [p \in Ports |-> "none"]
  /\ writePort = [p \in Ports |-> "none"]
  /\ dev = 0 /\ reg = 0
  /\ gpio \in [Chips -> [Regs -> Data]]
  /\ bus = {}

-----------------------------------------------------------------------------
(* iorq_init *)

Scanned == [p \in Ports |-> IF p \in present THEN "extern" ELSE "none"]

\* A default applies only to a port that nobody uses.
WithAllDefaults(map) ==     \* mistake for BootKeepsExternal
  [p \in Ports |-> IF p \in DOMAIN Defaults THEN Defaults[p] ELSE map[p]]
WithDefaults(map) ==
  [p \in Ports |-> IF p \in DOMAIN Defaults /\ map[p] = "none"
                   THEN Defaults[p] ELSE map[p]]

WithTms(map) ==
  [map EXCEPT ![TmsPort] = "tmsram", ![TmsPort + 1] = "tmsreg"]

\* The map stays as it is, all unassigned, if bus_init did not get the bus.
IorqInit ==
  /\ boot = "off"
  /\ \/ boot' = "scanned" /\ readPort' = WithDefaults(Scanned)
     \/ /\ {TmsPort, TmsPort + 1} \subseteq present
        /\ boot' = "scanned" /\ readPort' = WithTms(WithDefaults(Scanned))
     \/ boot' = "blind" /\ UNCHANGED readPort
  /\ writePort' = readPort'
  /\ bus' = {}
  /\ UNCHANGED <<present, dev, reg, gpio>>

-----------------------------------------------------------------------------
(* iorq_assign *)

Modes == {"r", "w", "rw"}

AssignRefusesNothing(p, device) == FALSE    \* mistake for OneReadDriver
AssignRefuses(p, device) == readPort[p] \in External /\ device \in Internal

\* The owner is looked at only when the read side changes.
IorqAssign(p, mode, device) ==
  /\ boot # "off"
  /\ IF mode # "w" /\ AssignRefuses(p, device)
     THEN UNCHANGED <<readPort, writePort>>
     ELSE /\ readPort' = IF mode = "w" THEN readPort
                         ELSE [readPort EXCEPT ![p] = device]
          /\ writePort' = IF mode = "r" THEN writePort
                          ELSE [writePort EXCEPT ![p] = device]
  /\ bus' = {}
  /\ UNCHANGED <<boot, present, dev, reg, gpio>>

-----------------------------------------------------------------------------
(* iorq_dispatch and the functions in device_read and device_write *)

z8c_setlo(value) ==
  IF dev \in Chips /\ reg \in Regs
  THEN gpio' = [gpio EXCEPT ![dev][reg] = value]
  ELSE UNCHANGED gpio

\* The table calls z8c_setlo for a read, with no argument: the value is
\* whatever its register holds.
ReadFunction(device) ==
  IF device = "z8cdlo" THEN \E value \in Data : z8c_setlo(value)
                       ELSE UNCHANGED gpio

\* ... and z8c_getlo for a write, which changes nothing.
WriteFunction(device, value) ==
  /\ dev' = IF device = "z8cdev" THEN value ELSE dev
  /\ reg' = IF device = "z8creg" THEN value ELSE reg

Outside(p) == IF p \in present THEN {"external"} ELSE {}

\* An internal device with a read function drives the bus.
IoRead(p) ==
  /\ boot # "off"
  /\ ReadFunction(readPort[p])
  /\ bus' = Outside(p) \cup
            (IF readPort[p] \in Internal \ {"none"} THEN {"internal"} ELSE {})
  /\ UNCHANGED <<boot, present, readPort, writePort, dev, reg>>

IoWrite(p, value) ==
  /\ boot # "off"
  /\ WriteFunction(writePort[p], value)
  /\ bus' = {}
  /\ UNCHANGED <<boot, present, readPort, writePort, gpio>>

MapNext ==
  \/ IorqInit
  \/ \E p \in Ports, mode \in Modes, device \in Devices :
       IorqAssign(p, mode, device)
  \/ \E p \in Ports : IoRead(p)
  \/ \E p \in Ports, value \in Data : IoWrite(p, value)

MapSpec == MapInit /\ [][MapNext]_mapVars

-----------------------------------------------------------------------------
(* Properties *)

\* Every variable has its type.
MapTypeOK ==
  /\ boot \in {"off", "scanned", "blind"} /\ present \subseteq Ports
  /\ readPort \in [Ports -> Devices] /\ writePort \in [Ports -> Devices]
  /\ dev \in Data /\ reg \in Data
  /\ gpio \in [Chips -> [Regs -> Data]]
  /\ bus \subseteq {"internal", "external"}

\* An internal device and external hardware never answer the same read, no
\* matter what the monitor assigned in between, if the ports were scanned.
OneReadDriver == boot = "scanned" => bus # {"internal", "external"}

\* What start-up found is not overruled by a default, on either side.
BootKeepsExternal ==
  [][boot' = "scanned" /\ boot = "off" =>
       \A p \in present : readPort'[p] \in External
                          /\ writePort'[p] = readPort'[p]]_mapVars

=============================================================================
