---------------------------- MODULE AxidmaDriver ----------------------------
(***************************************************************************)
(* The kernel driver that offers the AXI DMA's registers as a UIO device   *)
(* (src/modules/axidma/axidma.c): its loading and removal, the sysfs files *)
(* that configure it and register it, its interrupt handler, and the       *)
(* programs that open it.                                                  *)
(*                                                                         *)
(* A store takes in_use_mutex only to read in_use, which nothing sets:     *)
(* axidma_open and axidma_release are not in axidma_uio_info.  The rest of *)
(* the store runs without a lock, one statement with an effect on shared   *)
(* state per step.  The handler runs beside the stores, one access of the  *)
(* DMA's status registers per step.                                        *)
(*                                                                         *)
(* Operators that no action uses are the faults that a property is tested  *)
(* against: each stands before the definition it would replace.            *)
(***************************************************************************)
EXTENDS Naturals

CONSTANTS
    Writers,     \* threads that write to the file enable
    Bases,       \* values of axidma_phys_base that are in range
    Lines,       \* values of axidma_irq_line that are in range
    DmaLine,     \* the line that the DMA's interrupt is on
    NoIrq,       \* what irq_create_fwspec_mapping returns when it fails
    Unmapped,    \* the value of axidma_virt that stands for NULL
    Failures,    \* kernel calls that may fail
    MaxUsers,    \* bound on the open file descriptors
    MaxDevices   \* bound on the devices registered when a store begins

ASSUME AxidmaAssumption ==
    /\ Unmapped \notin Bases /\ NoIrq \notin Lines /\ DmaLine \in Lines
    /\ Failures \subseteq {"sysfs", "irq", "mapping", "register", "ioremap"}
    /\ MaxUsers \in Nat /\ MaxDevices \in Nat

VARIABLES
    module,       \* "out", "init", "in", "exiting", or "failing" to load
    files,        \* how many sysfs files there are
    pc, tmp,      \* the place of each writer's store, and the value it has
                  \* parsed and not yet looked at
    enable,       \* axidma_enable
    phys_base,    \* axidma_phys_base
    irq_line,     \* axidma_irq_line
    info,         \* axidma_uio_info: mem[0].addr and irq
    devices,      \* UIO devices registered with axidma_uio_info
    virt,         \* axidma_virt: the base it maps, or Unmapped
    live,         \* whether what axidma_virt points at is mapped
    users,        \* open file descriptors of the devices
    handler,      \* the place of the interrupt handler, or "out"
    sr,           \* the channels with interrupt bits set in their DMASR
    owed,         \* history: an interrupt has been raised that no event of
                  \* the UIO device has reported
    fault,        \* a kernel call on something already released
    astray        \* history: what the driver has no way back from

storeVars == <<pc, tmp>>
configVars == <<enable, phys_base, irq_line, info>>
deviceVars == <<devices, virt, live, fault>>
irqVars == <<handler, sr, owed>>
loadVars == <<module, files, users>>

vars == <<loadVars, storeVars, configVars, deviceVars, irqVars, astray>>

Channels == {"MM2S", "S2MM"}

(* The sysfs files, in the order they are made. *)
FileOrder == <<"enable", "phys_base", "irq_line">>
Exists(f) == \E i \in 1..files : FileOrder[i] = f

Idle == \A w \in Writers : pc[w] = "idle"

NothingLeft == devices = 0 /\ ~live

Init == /\ module = "out" /\ files = 0 /\ users = 0
        /\ pc = [w \in Writers |-> "idle"] /\ tmp = [w \in Writers |-> 0]
        /\ enable = 0 /\ phys_base \in Bases /\ irq_line \in Lines
        /\ info = [addr |-> Unmapped, irq |-> NoIrq]
        /\ devices = 0 /\ virt = Unmapped /\ live = FALSE /\ fault = FALSE
        /\ handler = "out" /\ sr = {} /\ owed = FALSE
        /\ astray = {}

-----------------------------------------------------------------------------
(* axidma_init: static variables have their initial values and the struct  *)
(* device is registered.  The module is loaded again only where it has     *)
(* left nothing behind.  A failed device_register changes nothing.         *)
AxidmaInit ==
    /\ module = "out" /\ NothingLeft /\ ~fault
    /\ module' = "init"
    /\ enable' = 0 /\ phys_base' \in Bases /\ irq_line' \in Lines
    /\ info' = [addr |-> Unmapped, irq |-> NoIrq]
    /\ virt' = Unmapped /\ astray' = {}
    /\ UNCHANGED <<files, users, storeVars, devices, live, fault, irqVars>>

(* One sysfs_create_file: a file can be written to as soon as it exists. *)
CreateFile ==
    /\ module = "init"
    /\ files' = files + 1
    /\ module' = IF files' = 3 THEN "in" ELSE "init"
    /\ UNCHANGED <<users, storeVars, configVars, deviceVars, irqVars, astray>>

(* The struct device is unregistered; what a store has registered through  *)
(* the files made so far is not.                                           *)
CreateFileFails ==
    /\ module = "init" /\ "sysfs" \in Failures
    /\ module' = "failing"
    /\ astray' = IF Idle /\ NothingLeft THEN astray ELSE astray \cup {"init"}
    /\ UNCHANGED <<files, users, storeVars, configVars, deviceVars, irqVars>>

-----------------------------------------------------------------------------
(* Programs: open and close of the UIO device file.  An open takes a       *)
(* reference on a module that is not on its way out.                       *)

UserOpen == /\ module \in {"init", "in"} /\ devices > 0 /\ users < MaxUsers
            /\ users' = users + 1
            /\ UNCHANGED <<module, files, storeVars, configVars, deviceVars,
                           irqVars, astray>>

UserClose == /\ users > 0
             /\ users' = users - 1
             /\ UNCHANGED <<module, files, storeVars, configVars, deviceVars,
                            irqVars, astray>>

-----------------------------------------------------------------------------
(* sysfs stores: those of phys_base and irq_line are one assignment, made  *)
(* by any thread at any time; those of enable take several steps.          *)

(* A device being registered at the old base gets the new one's mapping. *)
PhysBaseStore(base) ==
    /\ Exists("phys_base")
    /\ phys_base' = base
    /\ astray' = IF \E v \in Writers : pc[v] \in {"register", "ioremap"}
                 THEN astray \cup {"moved"} ELSE astray
    /\ UNCHANGED <<loadVars, storeVars, enable, irq_line, info, deviceVars, irqVars>>

IrqLineStore(line) ==
    /\ Exists("irq_line")
    /\ irq_line' = line
    /\ UNCHANGED <<loadVars, storeVars, enable, phys_base, info, deviceVars,
                   irqVars, astray>>

EnableStore(w, n) ==
    /\ Exists("enable") /\ pc[w] = "idle"
    /\ n = 1 => devices < MaxDevices
    /\ tmp' = [tmp EXCEPT ![w] = n]
    /\ pc' = [pc EXCEPT ![w] = "enable"]
    /\ astray' = astray \cup (IF Idle THEN {} ELSE {"overlap"})
                        \cup (IF module = "exiting" THEN {"exit"} ELSE {})
                        \cup (IF module = "failing" THEN {"init"} ELSE {})
    /\ UNCHANGED <<loadVars, configVars, deviceVars, irqVars>>

Goto(w, l) == pc' = [pc EXCEPT ![w] = l]

(* The error returns of enable_store, with what was done left as it is. *)
Abandon(w) == Goto(w, "idle") /\ enable' = 0

(* axidma_enable is not looked at. *)
BranchAlways(w) ==
    /\ pc[w] = "enable"
    /\ Goto(w, IF tmp[w] = 1 THEN "irq" ELSE "unregister")
    /\ tmp' = [tmp EXCEPT ![w] = 0]
    /\ UNCHANGED <<loadVars, configVars, deviceVars, irqVars, astray>>

Branch(w) ==
    /\ pc[w] = "enable"
    /\ Goto(w, IF tmp[w] = enable THEN (IF tmp[w] = 1 THEN "on" ELSE "off")
               ELSE IF tmp[w] = 1 THEN "irq" ELSE "unregister")
    /\ tmp' = [tmp EXCEPT ![w] = 0]
    /\ UNCHANGED <<loadVars, configVars, deviceVars, irqVars, astray>>

(* The device is registered at the address of the time before. *)
FindIrqOldAddr(w) ==
    /\ pc[w] = "irq"
    /\ \/ "irq" \in Failures /\ Abandon(w) /\ UNCHANGED info
       \/ /\ Goto(w, "register")
          /\ info' = [addr |-> IF info.addr = Unmapped THEN phys_base ELSE info.addr,
                      irq |-> irq_line]
          /\ UNCHANGED enable
    /\ UNCHANGED <<loadVars, tmp, phys_base, irq_line, deviceVars, irqVars, astray>>

(* The result of irq_create_fwspec_mapping is stored unseen. *)
FindIrq(w) ==
    /\ pc[w] = "irq"
    /\ \/ "irq" \in Failures /\ Abandon(w) /\ UNCHANGED info
       \/ /\ Goto(w, "register")
          /\ \E virq \in {irq_line} \cup (IF "mapping" \in Failures THEN {NoIrq} ELSE {}) :
               info' = [addr |-> phys_base, irq |-> virq]
          /\ UNCHANGED enable
    /\ UNCHANGED <<loadVars, tmp, phys_base, irq_line, deviceVars, irqVars, astray>>

(* uio_register_device requests the interrupt, when there is one. *)
Register(w) ==
    /\ pc[w] = "register"
    /\ \/ "register" \in Failures /\ Abandon(w) /\ UNCHANGED devices
       \/ Goto(w, "ioremap") /\ devices' = devices + 1 /\ UNCHANGED enable
    /\ UNCHANGED <<loadVars, tmp, phys_base, irq_line, info, virt, live, fault,
                   irqVars, astray>>

Ioremap(w) ==
    /\ pc[w] = "ioremap"
    /\ \/ /\ "ioremap" \in Failures
          /\ Abandon(w)
          /\ virt' = Unmapped /\ UNCHANGED live
          /\ astray' = astray \cup {"ioremap"}
       \/ /\ Goto(w, "on")
          /\ virt' = phys_base /\ live' = TRUE
          /\ UNCHANGED <<enable, astray>>
    /\ UNCHANGED <<loadVars, tmp, phys_base, irq_line, info, devices, fault, irqVars>>

Enabled(w) ==
    /\ pc[w] = "on"
    /\ enable' = 1 /\ Goto(w, "idle")
    /\ UNCHANGED <<loadVars, tmp, phys_base, irq_line, info, deviceVars, irqVars, astray>>

(* uio_unregister_device releases the interrupt and the device that the    *)
(* last uio_register_device stored in axidma_uio_info.  Releasing the      *)
(* interrupt waits for a handler that is running.                          *)
UioUnregister ==
    /\ handler = "out"
    /\ fault' = (fault \/ devices = 0)
    /\ devices' = IF devices = 0 THEN 0 ELSE devices - 1

(* The device stays registered. *)
UnregisterNothing(w) ==
    /\ pc[w] = "unregister"
    /\ Goto(w, "iounmap")
    /\ UNCHANGED <<loadVars, tmp, configVars, deviceVars, irqVars, astray>>

Unregister(w) ==
    /\ pc[w] = "unregister"
    /\ UioUnregister
    /\ Goto(w, "iounmap")
    /\ UNCHANGED <<loadVars, tmp, configVars, virt, live, irqVars, astray>>

Iounmap(w) ==
    /\ pc[w] = "iounmap"
    /\ fault' = (fault \/ ~live)
    /\ live' = FALSE /\ Goto(w, "clear")
    /\ UNCHANGED <<loadVars, tmp, configVars, devices, virt, irqVars, astray>>

(* axidma_virt keeps the address of the mapping that is gone. *)
ClearVirtNot(w) ==
    /\ pc[w] = "clear"
    /\ Goto(w, "off")
    /\ UNCHANGED <<loadVars, tmp, configVars, deviceVars, irqVars, astray>>

ClearVirt(w) ==
    /\ pc[w] = "clear"
    /\ virt' = Unmapped /\ Goto(w, "off")
    /\ UNCHANGED <<loadVars, tmp, configVars, devices, live, fault, irqVars, astray>>

Disabled(w) ==
    /\ pc[w] = "off"
    /\ enable' = 0 /\ Goto(w, "idle")
    /\ UNCHANGED <<loadVars, tmp, phys_base, irq_line, info, deviceVars, irqVars, astray>>

-----------------------------------------------------------------------------
(* The DMA and axidma_irq_handler.                                         *)

(* A channel completes or fails, whoever started it and whoever is there   *)
(* to hear of it.                                                          *)
DmaInterrupt(ch) ==
    /\ ch \notin sr
    /\ sr' = sr \cup {ch} /\ owed' = TRUE
    /\ UNCHANGED <<loadVars, storeVars, configVars, deviceVars, handler, astray>>

HandlerUnchanged == UNCHANGED <<loadVars, storeVars, configVars, deviceVars, astray>>

(* The line is shared: another device's interrupt calls the handler too.   *)
(* Without a mapping it returns IRQ_NONE, having changed nothing.          *)
ReadMm2s ==
    /\ handler = "out"
    /\ devices > 0 /\ info.irq # NoIrq /\ virt # Unmapped
    /\ handler' = IF "MM2S" \in sr THEN "ack_mm2s" ELSE "read_s2mm"
    /\ UNCHANGED <<sr, owed>> /\ HandlerUnchanged

(* The status registers are cleared even when they showed nothing. *)
ReadS2mmAcks ==
    /\ handler = "read_s2mm"
    /\ handler' = IF "S2MM" \in sr THEN "ack_mm2s" ELSE "out"
    /\ sr' = IF "S2MM" \in sr THEN sr ELSE {}
    /\ UNCHANGED owed /\ HandlerUnchanged

(* Only the other channel's register is looked at. *)
ReadS2mmNot ==
    /\ handler = "read_s2mm"
    /\ handler' = "out"
    /\ UNCHANGED <<sr, owed>> /\ HandlerUnchanged

ReadS2mm ==
    /\ handler = "read_s2mm"
    /\ handler' = IF "S2MM" \in sr THEN "ack_mm2s" ELSE "out"
    /\ UNCHANGED <<sr, owed>> /\ HandlerUnchanged

AckMm2s ==
    /\ handler = "ack_mm2s"
    /\ sr' = sr \ {"MM2S"} /\ handler' = "ack_s2mm"
    /\ UNCHANGED owed /\ HandlerUnchanged

AckS2mm ==
    /\ handler = "ack_s2mm"
    /\ sr' = sr \ {"S2MM"} /\ handler' = "handled"
    /\ UNCHANGED owed /\ HandlerUnchanged

(* IRQ_HANDLED: the UIO core counts an event and wakes the readers. *)
Handled ==
    /\ handler = "handled"
    /\ handler' = "out" /\ owed' = (sr # {})
    /\ UNCHANGED sr /\ HandlerUnchanged

Handling == ReadS2mm \/ AckMm2s \/ AckS2mm \/ Handled

(* The DMA holds its line up for as long as it has interrupt bits set. *)
Interrupt == sr # {} /\ info.irq = DmaLine /\ ReadMm2s

-----------------------------------------------------------------------------
(* axidma_exit. *)

(* An open file descriptor holds the module; a store in progress does not. *)
ExitBegins ==
    /\ module = "in" /\ users = 0
    /\ module' = "exiting"
    /\ astray' = IF Idle THEN astray ELSE astray \cup {"exit"}
    /\ UNCHANGED <<files, users, storeVars, configVars, virt, irqVars>>

(* What is registered is left registered. *)
ExitUnregisterNothing == ExitBegins /\ UNCHANGED <<devices, live, fault>>

ExitUnregister ==
    /\ ExitBegins
    /\ IF enable = 1 THEN UioUnregister /\ live' = FALSE
                     ELSE UNCHANGED <<devices, live, fault>>

(* kobject_put removes the files and waits for stores in progress. *)
RemoveFiles ==
    /\ module \in {"exiting", "failing"} /\ Idle
    /\ module' = "out" /\ files' = 0
    /\ UNCHANGED <<users, storeVars, configVars, deviceVars, irqVars, astray>>

Step(w) == \/ \E n \in 0..1 : EnableStore(w, n)
           \/ Branch(w) \/ FindIrq(w) \/ Register(w) \/ Ioremap(w) \/ Enabled(w)
           \/ Unregister(w) \/ Iounmap(w) \/ ClearVirt(w) \/ Disabled(w)

Next == \/ AxidmaInit \/ CreateFile \/ CreateFileFails
        \/ ExitUnregister \/ RemoveFiles
        \/ UserOpen \/ UserClose
        \/ \E base \in Bases : PhysBaseStore(base)
        \/ \E line \in Lines : IrqLineStore(line)
        \/ \E w \in Writers : Step(w)
        \/ \E ch \in Channels : DmaInterrupt(ch)
        \/ ReadMm2s \/ Handling

Spec == Init /\ [][Next]_vars

(* The kernel calls the handlers of a line that is up, and a handler that  *)
(* has begun goes on.                                                      *)
FairSpec == Spec /\ WF_vars(Interrupt) /\ WF_vars(Handling)

-----------------------------------------------------------------------------
(* Properties. *)

(* A registered device has its interrupt requested, so the handler may run *)
(* at once: its code is there, the registers it will read are NULL or      *)
(* mapped, and those it is reading stay mapped.  A failed ioremap ends     *)
(* this (its device stays registered when the mapping of a later one is    *)
(* taken away), as do two stores of enable at once, a module that fails to *)
(* load while one runs, and a removal during one.                          *)
HandlerSafe ==
    astray \subseteq {"moved"} =>
        /\ devices > 0 => module # "out" /\ (virt # Unmapped => live)
        /\ handler # "out" => devices > 0 /\ live

(* Nothing is unregistered or unmapped twice, failures of ioremap and of   *)
(* loading included, as long as the stores of enable come one by one and   *)
(* the module is not removed in the middle of one.                         *)
NoFault == astray \cap {"overlap", "exit"} = {} => ~fault

(* Between stores axidma_enable tells the truth: when it is set there is   *)
(* one device, and the handler's mapping is of the registers user programs *)
(* are given (unless phys_base was changed while the device was being      *)
(* registered); when it is clear nothing is left registered or mapped.     *)
EnableIsTrue ==
    /\ Idle /\ module \in {"init", "in"}
    /\ astray \cap {"overlap", "ioremap"} = {}
    => IF enable = 0 THEN NothingLeft
       ELSE devices = 1 /\ live /\ (virt = info.addr \/ "moved" \in astray)

(* Between stores axidma_virt is NULL or mapped, whatever has failed: the  *)
(* handler's test of it is enough.                                         *)
NeverDangling ==
    Idle /\ module \in {"init", "in"} /\ "overlap" \notin astray =>
        (virt # Unmapped <=> live)

(* "Make sure we really clean everything up": the module leaves no device  *)
(* and no mapping behind, unless ioremap had failed, two stores of enable  *)
(* had overlapped, or one was running while it was loaded or removed.      *)
ExitClean == module = "out" /\ astray \subseteq {"moved"} => NothingLeft

(* The handler reads two registers and then clears both, and the DMA may   *)
(* raise an interrupt anywhere between: one that no event has reported is  *)
(* still in a status register, or was cleared by a handler that is about   *)
(* to report it.                                                           *)
NoInterruptLost == owed => sr # {} \/ handler \in {"ack_s2mm", "handled"}

Listening == /\ enable = 1 /\ devices = 1 /\ virt # Unmapped
             /\ info.irq = DmaLine /\ astray = {}

(* After an interrupt of the DMA comes an event that the readers of the    *)
(* device see, as long as it is enabled on the right line.                 *)
InterruptDelivered == owed /\ Listening ~> handler = "handled" \/ ~Listening
=============================================================================
