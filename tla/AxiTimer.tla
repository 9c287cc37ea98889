------------------------------ MODULE AxiTimer ------------------------------
(***************************************************************************)
(* The UIO tutorial's driver of the AXI timer (extra_info/uio):            *)
(* axitimer_module.c, its loading, removal and interrupt handler, and      *)
(* axitimer_user.c, the program that sets the timer and waits for its      *)
(* interrupts.  Program and handler write the same register, TCSR, without *)
(* a lock between them; every access of it is a step.                      *)
(*                                                                         *)
(* Of TCSR the model keeps INT and, as mode, the other bits: those the     *)
(* program writes are "off" (disable), "load" and "run" (one_int_per_sec). *)
(* Writing INT as one clears it.                                           *)
(*                                                                         *)
(* Operators that no action uses are the faults that a property is tested  *)
(* against: each stands before the definition it would replace.            *)
(***************************************************************************)
EXTENDS Naturals

CONSTANTS
    Failures,   \* kernel calls that may fail while the module is loaded
    Reads       \* how many interrupts the program waits for

ASSUME TimerAssumption ==
    /\ Failures \subseteq {"device", "controller", "irq", "uio"}
    /\ Reads \in Nat \ {0}

VARIABLES
    module,     \* the place of our_init and our_exit, "out" or "in"
    mapped,     \* virt is mapped
    device,     \* axitimer_dev is registered
    uio,        \* axi_timer is registered
    tcsr,       \* the timer's register: mode and INT
    handler,    \* the place of axitimer_irq, or "out", and the mode its
                \* read-modify-write has read
    event,      \* an event the program has not read
    pc,         \* the place of the program, or "none"
    reads,      \* the program's i
    ticks,      \* history: periods gone by since the program started the
                \* timer, at most Reads
    start,      \* history: "clean" when the timer was at rest at the open
    overwrote,  \* history: the handler's read-modify-write has undone a
                \* write of the program
    fault,      \* something was released that was not held
    astray      \* history: which failure the driver's error paths mishandle

kernelVars == <<module, mapped, device, uio, fault, astray>>
programVars == <<pc, reads, start>>
vars == <<kernelVars, tcsr, handler, event, programVars, ticks, overwrote>>

NoRun == [at |-> "out", mode |-> "off"]

Init == /\ module = "out" /\ mapped = FALSE /\ device = FALSE /\ uio = FALSE
        /\ tcsr \in [mode : {"off", "load", "run"}, int : BOOLEAN]
        /\ handler = NoRun /\ event = FALSE
        /\ pc = "none" /\ reads = 0 /\ ticks = 0 /\ start = "clean"
        /\ overwrote = FALSE /\ fault = FALSE /\ astray = "no"

-----------------------------------------------------------------------------
(* our_init.  Its goto's lead to iounmap and return rc. *)

Place(from, to) == module = from /\ module' = to
LoadUnchanged == UNCHANGED <<handler, event, programVars, ticks, overwrote>>

(* ioremap and *virt = 0, which leaves INT as it is.  A failed ioremap     *)
(* changes nothing.  Loaded again only where nothing has been left.        *)
Remap ==
    /\ Place("out", "remapped")
    /\ ~mapped /\ ~device /\ ~uio /\ ~fault
    /\ mapped' = TRUE /\ tcsr' = [tcsr EXCEPT !.mode = "off"]
    /\ astray' = "no"
    /\ UNCHANGED <<device, uio, fault>> /\ LoadUnchanged

DeviceRegister ==
    /\ \/ Place("remapped", "registered") /\ device' = TRUE /\ UNCHANGED mapped
       \/ /\ "device" \in Failures
          /\ Place("remapped", "out") /\ mapped' = FALSE /\ UNCHANGED device
    /\ UNCHANGED <<uio, tcsr, fault, astray>> /\ LoadUnchanged

(* Without an interrupt controller or its domain, rc is still 0 from       *)
(* device_register: the module is in.  Without an interrupt it is not, and *)
(* the struct device stays registered.                                     *)
FindIrq ==
    /\ \/ Place("registered", "found") /\ UNCHANGED <<mapped, astray>>
       \/ /\ "controller" \in Failures
          /\ Place("registered", "in") /\ mapped' = FALSE /\ astray' = "controller"
       \/ /\ "irq" \in Failures
          /\ Place("registered", "out") /\ mapped' = FALSE /\ astray' = "irq"
    /\ UNCHANGED <<device, uio, tcsr, fault>> /\ LoadUnchanged

(* Its error path leaves the struct device registered. *)
UioRegisterKeepsDevice ==
    /\ \/ Place("found", "in") /\ uio' = TRUE /\ UNCHANGED mapped
       \/ "uio" \in Failures /\ Place("found", "out") /\ mapped' = FALSE /\ UNCHANGED uio
    /\ UNCHANGED <<device, tcsr, fault, astray>> /\ LoadUnchanged

UioRegister ==
    /\ \/ Place("found", "in") /\ uio' = TRUE /\ UNCHANGED <<device, mapped>>
       \/ /\ "uio" \in Failures
          /\ Place("found", "out") /\ device' = FALSE /\ mapped' = FALSE
          /\ UNCHANGED uio
    /\ UNCHANGED <<tcsr, fault, astray>> /\ LoadUnchanged

-----------------------------------------------------------------------------
(* our_exit.  An open file holds the module; releasing the interrupt waits *)
(* for a handler that is running.                                          *)

MayExit == module = "in" /\ pc = "none"

(* The registers are unmapped while the interrupt is still requested. *)
ExitUnmapsFirst ==
    /\ MayExit
    /\ module' = "exiting"
    /\ fault' = (fault \/ ~mapped) /\ mapped' = FALSE
    /\ UNCHANGED <<uio, device, tcsr, astray>> /\ LoadUnchanged

ExitUio ==
    /\ MayExit /\ handler.at = "out"
    /\ module' = "exiting"
    /\ fault' = (fault \/ ~uio) /\ uio' = FALSE
    /\ UNCHANGED <<mapped, device, tcsr, astray>> /\ LoadUnchanged

ExitRest ==
    /\ Place("exiting", "out")
    /\ device' = FALSE /\ mapped' = FALSE
    /\ fault' = (fault \/ ~mapped)
    /\ UNCHANGED <<uio, tcsr, astray>> /\ LoadUnchanged

-----------------------------------------------------------------------------
(* The timer and axitimer_irq.                                             *)

(* The period is over.  The interrupt is raised again while INT is set. *)
Tick ==
    /\ tcsr.mode = "run"
    /\ tcsr' = [tcsr EXCEPT !.int = TRUE]
    /\ ticks' = IF pc = "read" /\ ticks < Reads THEN ticks + 1 ELSE ticks
    /\ UNCHANGED <<kernelVars, handler, event, programVars, overwrote>>

(* The line is shared, so the handler may be called without an interrupt   *)
(* of the timer: it then returns IRQ_NONE.                                 *)
ReadStatus ==
    /\ uio /\ handler.at = "out" /\ tcsr.int
    /\ handler' = [handler EXCEPT !.at = "modify"]
    /\ UNCHANGED <<kernelVars, tcsr, event, programVars, ticks, overwrote>>

(* virt[0] |= T0INT_MASK, a read and a write. *)
ModifyReads ==
    /\ handler.at = "modify"
    /\ handler' = [at |-> "write", mode |-> tcsr.mode]
    /\ UNCHANGED <<kernelVars, tcsr, event, programVars, ticks, overwrote>>

(* INT is written as zero. *)
ModifyWritesNoClear ==
    /\ handler.at = "write"
    /\ tcsr' = [tcsr EXCEPT !.mode = handler.mode]
    /\ handler' = [handler EXCEPT !.at = "handled"]
    /\ overwrote' = (overwrote \/ tcsr.mode # handler.mode)
    /\ UNCHANGED <<kernelVars, event, programVars, ticks>>

ModifyWrites ==
    /\ handler.at = "write"
    /\ tcsr' = [mode |-> handler.mode, int |-> FALSE]
    /\ handler' = [handler EXCEPT !.at = "handled"]
    /\ overwrote' = (overwrote \/ tcsr.mode # handler.mode)
    /\ UNCHANGED <<kernelVars, event, programVars, ticks>>

(* IRQ_HANDLED: the UIO core counts the event. *)
Handled ==
    /\ handler.at = "handled"
    /\ handler' = NoRun /\ event' = TRUE
    /\ UNCHANGED <<kernelVars, tcsr, programVars, ticks, overwrote>>

Handling == ModifyReads \/ ModifyWrites \/ Handled

(* The timer holds the line up while INT and ENI are set. *)
Interrupt == tcsr.mode = "run" /\ ReadStatus

-----------------------------------------------------------------------------
(* main of axitimer_user.c. *)

ProgramUnchanged == UNCHANGED <<kernelVars, handler>>

Goes(from, to) == pc = from /\ pc' = to

(* open: what is counted before it is not the program's. *)
Open ==
    /\ uio /\ module = "in"
    /\ Goes("none", "opened")
    /\ event' = FALSE /\ reads' = 0 /\ ticks' = 0 /\ overwrote' = FALSE
    /\ start' = IF tcsr.mode # "run" /\ ~tcsr.int /\ handler = NoRun
                THEN "clean" ELSE "running"
    /\ UNCHANGED tcsr /\ ProgramUnchanged

(* mmap; without it the program goes to cleanup, where there is nothing to *)
(* do but close.                                                           *)
Mmap ==
    /\ Goes("opened", "disable") \/ Goes("opened", "close")
    /\ UNCHANGED <<event, reads, start, tcsr, ticks, overwrote>> /\ ProgramUnchanged

WritesTcsr(value, int) ==
    /\ tcsr' = [mode |-> value, int |-> tcsr.int /\ int = 0]
    /\ UNCHANGED <<event, reads, start, overwrote>> /\ ProgramUnchanged

Disable == Goes("disable", "load") /\ WritesTcsr("off", 1) /\ UNCHANGED ticks

(* TLR and the load bit. *)
Load == Goes("load", "run") /\ WritesTcsr("load", 0) /\ UNCHANGED ticks

(* The load bit is left set: the timer stands. *)
RunLoading == Goes("run", "read") /\ WritesTcsr("load", 0) /\ ticks' = 0

Run == Goes("run", "read") /\ WritesTcsr("run", 0) /\ ticks' = 0

(* read: there has been an event since the last one, or the open. *)
Read ==
    /\ pc = "read" /\ event
    /\ event' = FALSE /\ reads' = reads + 1
    /\ pc' = IF reads' = Reads THEN "cleanup" ELSE "read"
    /\ UNCHANGED <<tcsr, start, ticks, overwrote>> /\ ProgramUnchanged

Cleanup == Goes("cleanup", "close") /\ WritesTcsr("off", 1) /\ UNCHANGED ticks

Close ==
    /\ Goes("close", "none")
    /\ UNCHANGED <<event, reads, start, tcsr, ticks, overwrote>> /\ ProgramUnchanged

(* A signal: the kernel unmaps and closes, the timer runs on. *)
Killed ==
    /\ pc \notin {"none", "close"} /\ pc' = "none"
    /\ reads' = 0
    /\ UNCHANGED <<event, start, tcsr, ticks, overwrote>> /\ ProgramUnchanged

Program == \/ Open \/ Mmap \/ Disable \/ Load \/ Run \/ Read
           \/ Cleanup \/ Close \/ Killed

Next == \/ Remap \/ DeviceRegister \/ FindIrq \/ UioRegister
        \/ ExitUio \/ ExitRest
        \/ Tick \/ ReadStatus \/ Handling
        \/ Program

(* Time passes, the kernel calls the handlers of a line that is up and     *)
(* wakes the reader.                                                       *)
Spec == /\ Init /\ [][Next]_vars
        /\ WF_vars(Tick) /\ WF_vars(Interrupt) /\ WF_vars(Handling) /\ WF_vars(Read)

-----------------------------------------------------------------------------
(* Properties. *)

(* The interrupt is requested only while virt is mapped, and a handler     *)
(* that runs has its registers until it is done: the handler reads them    *)
(* without a test.                                                         *)
HandlerSafe == uio \/ handler.at # "out" => mapped /\ module \in {"in", "exiting"}

(* Nothing is released that is not held, and a module that is out has left *)
(* nothing behind, whichever step of loading failed; except that without   *)
(* an interrupt controller our_init reports success with nothing           *)
(* registered, and that without an interrupt it leaves the struct device.  *)
ReleasedOnce ==
    /\ astray # "controller" => ~fault
    /\ module = "out" /\ astray = "no" => ~mapped /\ ~device /\ ~uio

(* Every interrupt the program has waited for is a period of the timer it  *)
(* started, each period counted once, as long as the timer was at rest     *)
(* when the program opened the device: one left running by a program that  *)
(* was killed may interrupt before it is disabled.                         *)
ReadsAreTicks == pc = "read" /\ start = "clean" => reads <= ticks

(* The program gets its interrupts, unless the handler has undone one of   *)
(* its writes: it can turn off a timer just started, and the read then     *)
(* blocks for ever.                                                        *)
ReadReturns ==
    \A n \in 0..Reads - 1 :
        pc = "read" /\ reads = n ~> pc # "read" \/ reads # n \/ overwrote
=============================================================================
