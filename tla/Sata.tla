-------------------------------- MODULE Sata --------------------------------
(***************************************************************************)
(* The AHCI driver: sata_init finds a port and starts its command engine,  *)
(* ahci_send_rw_command puts one sector command into a free slot, rings    *)
(* the doorbell and polls.  One caller at a time uses it.                  *)
(***************************************************************************)
EXTENDS FiniteSetsExt, Naturals

CONSTANTS
    CommandSlots,   \* the 32 slots of a port
    Ports,          \* the ports the controller implements
    MaxFailures     \* bound: commands that fail

VARIABLES
    device,     \* sata_init: device.initialized and sata_port (0: none)
    ci,         \* the slots whose bit is set in the command-issue register
    halted,     \* the device has stopped fetching commands after an error
    failures    \* how many commands have failed

sataVars == <<device, ci, halted, failures>>

SataInit ==
    /\ device = [initialized |-> FALSE, port |-> 0]
    /\ ci = {} /\ halted = FALSE /\ failures = 0

\* find_ahci: whether the PCI bus has a controller.
find_ahci == BOOLEAN

\* ahci_port_init of every port with a disk behind it: the ports whose pages
\* could be allocated.
ahci_port_init == SUBSET Ports

\* sata_init: the last of the ports stays in sata_port.  A reset clears the
\* registers.
sata_init ==
    /\ \E found \in find_ahci, ready \in ahci_port_init :
          device' = [initialized |-> found,
                     port |-> IF found /\ ready # {} THEN Max(ready) ELSE device.port]
    /\ ci' = {} /\ halted' = FALSE
    /\ UNCHANGED failures

\* The machine stops: what sata_init remembers is gone.
SataOff == device' = [initialized |-> FALSE, port |-> 0] /\ UNCHANGED <<ci, halted, failures>>

Usable == device.initialized /\ device.port # 0

\* find_cmdslot
FreeSlots == CommandSlots \ ci
find_cmdslot == Min(FreeSlots)

\* The device carries the command out and clears the bit of its slot.
Succeeds == Usable /\ FreeSlots # {} /\ ~halted /\ UNCHANGED sataVars

\* No device, no port, no slot, or the port stays busy for all the polls: -1 at once.
Refused ==
    /\ \/ ~Usable
       \/ FreeSlots = {}
       \/ failures < MaxFailures
    /\ failures' = IF Usable /\ FreeSlots # {} THEN failures + 1 ELSE failures
    /\ UNCHANGED <<device, ci, halted>>

\* A task file error: -1, the bit of the slot stays set and nothing restarts
\* the engine.
Aborts ==
    /\ Usable /\ FreeSlots # {} /\ ~halted /\ failures < MaxFailures
    /\ ci' = ci \cup {find_cmdslot}
    /\ halted' \in BOOLEAN
    /\ failures' = failures + 1
    /\ UNCHANGED device

\* A sector command that returns 0 (ok), or -1.
Command(ok) == IF ok THEN Succeeds ELSE Refused \/ Aborts

=============================================================================
