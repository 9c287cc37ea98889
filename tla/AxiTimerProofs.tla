--------------------------- MODULE AxiTimerProofs ---------------------------
(***************************************************************************)
(* Proofs about AxiTimer, for any number of interrupts waited for and      *)
(* whichever kernel calls fail.                                            *)
(***************************************************************************)
EXTENDS AxiTimer, TLAPS

Modes == {"off", "load", "run"}

Registers == [mode : Modes, int : BOOLEAN]
Handlers == [at : {"out", "modify", "write", "handled"}, mode : Modes]

Typed == /\ tcsr \in Registers /\ handler \in Handlers
         /\ event \in BOOLEAN /\ reads \in Nat /\ ticks \in 0..Reads

(* What our_init and our_exit have taken and not given back, at each of    *)
(* their places.                                                           *)
Holdings ==
    /\ module \in {"out", "remapped", "registered", "found", "in", "exiting"}
    /\ astray \in {"no", "irq", "controller"}
    /\ module \in {"remapped", "registered", "found"} => astray = "no"
    /\ module \in {"in", "exiting"} => astray # "irq"
    /\ mapped <=> module # "out" /\ astray # "controller"
    /\ uio <=> module = "in" /\ astray # "controller"
    /\ module = "remapped" \/ (module = "out" /\ astray = "no") => ~device
    /\ astray # "controller" => ~fault

(* A handler runs only while its interrupt is requested. *)
HandlerHeld == handler.at # "out" => uio

LoadInv == Typed /\ Holdings /\ HandlerHeld

(* The program's loop counts from 0 to Reads. *)
LoopInv == /\ pc \in {"opened", "disable", "load", "run"} => reads = 0
           /\ pc = "read" => reads < Reads

One(b) == IF b THEN 1 ELSE 0

(* Events on their way to the program: in the timer, in a handler that has *)
(* cleared the timer's bit, and in the UIO core.                           *)
Underway == One(tcsr.int) + One(handler.at = "handled") + One(event)

(* A program that found the timer at rest: before it starts it nothing is  *)
(* under way, and then no more than the timer has ticked.                  *)
CountInv ==
    /\ pc \in {"opened", "disable", "load", "run"} /\ start = "clean" =>
         tcsr.mode # "run" /\ ~tcsr.int /\ handler.at = "out" /\ ~event
    /\ pc = "read" /\ start = "clean" =>
         /\ handler.at \in {"modify", "write"} => tcsr.int
         /\ ticks = Reads \/ reads + Underway <= ticks

ReadInv == Typed /\ LoopInv /\ CountInv

-----------------------------------------------------------------------------
(* Types. *)

LEMMA TypedInit == Init => Typed
<1> SUFFICES ASSUME Init PROVE Typed
    OBVIOUS
<1>1. tcsr \in Registers /\ handler \in Handlers
      BY DEF Init, Registers, Handlers, Modes, NoRun
<1>2. event \in BOOLEAN
      BY DEF Init
<1>3. reads \in Nat /\ ticks \in 0..Reads
      BY TimerAssumption DEF Init
<1> QED BY <1>1, <1>2, <1>3 DEF Typed

LEMMA RegisterTyped == Typed /\ [Next]_vars => tcsr' \in Registers
<1> SUFFICES ASSUME tcsr \in Registers, handler \in Handlers, [Next]_vars
             PROVE  tcsr' \in Registers
    BY DEF Typed
<1>1. CASE Remap
      BY <1>1 DEF Remap, Registers, Modes
<1>2. CASE Tick
      BY <1>2 DEF Tick, Registers
<1>3. CASE ModifyWrites
      BY <1>3 DEF ModifyWrites, Registers, Handlers
<1>4. ASSUME NEW value \in Modes, NEW int \in 0..1, WritesTcsr(value, int)
      PROVE  tcsr' \in Registers
      BY <1>4 DEF WritesTcsr, Registers
<1>5. CASE Disable \/ Load \/ Run \/ Cleanup
      BY <1>4, <1>5 DEF Disable, Load, Run, Cleanup, Modes
<1>6. CASE UNCHANGED tcsr
      BY <1>6
<1> QED BY <1>1, <1>2, <1>3, <1>5, <1>6
        DEF Next, Program, vars, DeviceRegister, FindIrq, UioRegister, ExitUio,
            ExitRest, ReadStatus, Handling, ModifyReads, Handled, Open, Mmap,
            Read, Close, Killed

LEMMA HandlerTyped == Typed /\ [Next]_vars => handler' \in Handlers
<1> SUFFICES ASSUME tcsr \in Registers, handler \in Handlers, [Next]_vars
             PROVE  handler' \in Handlers
    BY DEF Typed
<1>1. CASE ReadStatus
      BY <1>1 DEF ReadStatus, Handlers
<1>2. CASE ModifyReads
      BY <1>2 DEF ModifyReads, Handlers, Registers
<1>3. CASE ModifyWrites
      BY <1>3 DEF ModifyWrites, Handlers
<1>4. CASE Handled
      BY <1>4 DEF Handled, Handlers, NoRun, Modes
<1>5. CASE UNCHANGED handler
      BY <1>5
<1> QED BY <1>1, <1>2, <1>3, <1>4, <1>5
        DEF Next, Program, vars, Remap, DeviceRegister, FindIrq, UioRegister,
            ExitUio, ExitRest, LoadUnchanged, Tick, Handling, Open, Mmap, Disable,
            Load, Run, Read, Cleanup, Close, Killed, WritesTcsr, ProgramUnchanged

LEMMA CountersTyped ==
    Typed /\ [Next]_vars => event' \in BOOLEAN /\ reads' \in Nat /\ ticks' \in 0..Reads
<1> SUFFICES ASSUME event \in BOOLEAN, reads \in Nat, ticks \in 0..Reads, [Next]_vars
             PROVE  event' \in BOOLEAN /\ reads' \in Nat /\ ticks' \in 0..Reads
    BY DEF Typed
<1>1. CASE Tick
      BY <1>1, TimerAssumption DEF Tick, programVars
<1>2. CASE Handled
      BY <1>2 DEF Handled, programVars
<1>3. CASE Open
  <2>1. event' \in BOOLEAN
        BY <1>3 DEF Open
  <2>2. reads' \in Nat /\ ticks' \in 0..Reads
        BY <1>3, TimerAssumption DEF Open
  <2> QED BY <2>1, <2>2
<1>4. CASE Disable \/ Load \/ Run \/ Cleanup
      BY <1>4, TimerAssumption DEF Disable, Load, Run, Cleanup, WritesTcsr
<1>5. CASE Read
  <2>1. event' \in BOOLEAN
        BY <1>5 DEF Read
  <2>2. reads' \in Nat /\ ticks' \in 0..Reads
        BY <1>5 DEF Read
  <2> QED BY <2>1, <2>2
<1>6. CASE Killed
      BY <1>6 DEF Killed
<1>7. CASE UNCHANGED <<event, reads, ticks>>
      BY <1>7
<1> QED BY <1>1, <1>2, <1>3, <1>4, <1>5, <1>6, <1>7
        DEF Next, Program, vars, Remap, DeviceRegister, FindIrq, UioRegister,
            ExitUio, ExitRest, LoadUnchanged, ReadStatus, Handling, ModifyReads,
            ModifyWrites, Mmap, Close, programVars

LEMMA TypedStep == Typed /\ [Next]_vars => Typed'
BY RegisterTyped, HandlerTyped, CountersTyped DEF Typed

-----------------------------------------------------------------------------
(* Loading and removal. *)

LEMMA LoadStep == LoadInv /\ [Next]_vars => LoadInv'
<1> SUFFICES ASSUME LoadInv, [Next]_vars PROVE Holdings' /\ HandlerHeld'
    BY TypedStep DEF LoadInv
<1> USE DEF LoadInv, Holdings, HandlerHeld
<1>1. CASE Remap
      BY <1>1 DEF Remap, Place, LoadUnchanged
<1>2. CASE DeviceRegister
  <2>1. CASE module = "remapped" /\ module' = "registered" /\ UNCHANGED mapped
        BY <1>2, <2>1 DEF DeviceRegister, LoadUnchanged
  <2>2. CASE module = "remapped" /\ module' = "out" /\ mapped' = FALSE /\ UNCHANGED device
        BY <1>2, <2>2 DEF DeviceRegister, LoadUnchanged
  <2> QED BY <1>2, <2>1, <2>2 DEF DeviceRegister, Place
<1>3. CASE FindIrq
      BY <1>3 DEF FindIrq, Place, LoadUnchanged
<1>4. CASE UioRegister
      BY <1>4 DEF UioRegister, Place, LoadUnchanged
<1>5. CASE ExitUio
      BY <1>5 DEF ExitUio, MayExit, LoadUnchanged
<1>6. CASE ExitRest
      BY <1>6 DEF ExitRest, Place, LoadUnchanged
<1>7. CASE Tick
      BY <1>7 DEF Tick, kernelVars
<1>8. CASE ReadStatus
      BY <1>8 DEF ReadStatus, kernelVars
<1>9. CASE Handling
      BY <1>9 DEF Handling, ModifyReads, ModifyWrites, Handled, kernelVars, NoRun
<1>10. CASE Program
  <2>1. UNCHANGED <<kernelVars, handler>>
        BY <1>10 DEF Program, Open, Mmap, Disable, Load, Run, Read, Cleanup, Close,
                     Killed, WritesTcsr, ProgramUnchanged
  <2> QED BY <2>1 DEF kernelVars
<1>11. CASE UNCHANGED vars
      BY <1>11 DEF vars, kernelVars
<1> QED BY <1>1, <1>2, <1>3, <1>4, <1>5, <1>6, <1>7, <1>8, <1>9, <1>10, <1>11 DEF Next

LEMMA LoadCorrect == Spec => []LoadInv
<1>1. Init => LoadInv
      BY TypedInit DEF Init, LoadInv, Holdings, HandlerHeld, NoRun
<1> QED BY <1>1, LoadStep, PTL DEF Spec

(* axitimer_irq has its registers whenever it may run or is running,       *)
(* through every failure of our_init and through our_exit.                 *)
THEOREM HandlerHasRegisters == Spec => []HandlerSafe
<1>1. LoadInv => HandlerSafe
      BY DEF LoadInv, Holdings, HandlerHeld, HandlerSafe
<1> QED BY <1>1, LoadCorrect, PTL

(* our_init and our_exit give back what they took, once, except on the two *)
(* error paths that ReleasedOnce names.                                    *)
THEOREM LoadingReleases == Spec => []ReleasedOnce
<1>1. LoadInv => ReleasedOnce
      BY DEF LoadInv, Holdings, ReleasedOnce
<1> QED BY <1>1, LoadCorrect, PTL

-----------------------------------------------------------------------------
(* The program. *)

LEMMA LoopStep == Typed /\ LoopInv /\ [Next]_vars => LoopInv'
<1> SUFFICES ASSUME Typed, LoopInv, [Next]_vars PROVE LoopInv'
    OBVIOUS
<1> USE TimerAssumption DEF LoopInv
<1>1. CASE Open \/ Mmap
      BY <1>1 DEF Open, Mmap, Goes
<1>2. CASE Disable \/ Load \/ Run \/ Cleanup
      BY <1>2 DEF Disable, Load, Run, Cleanup, WritesTcsr, Goes
<1>3. CASE Read
      BY <1>3 DEF Read, Typed
<1>4. CASE Close \/ Killed
      BY <1>4 DEF Close, Killed, Goes
<1>5. CASE UNCHANGED programVars
      BY <1>5 DEF programVars
<1>6. Program \/ UNCHANGED programVars
      BY DEF Next, vars, Remap, DeviceRegister, FindIrq, UioRegister, ExitUio,
             ExitRest, LoadUnchanged, Tick, ReadStatus, Handling, ModifyReads,
             ModifyWrites, Handled
<1> QED BY <1>1, <1>2, <1>3, <1>4, <1>5, <1>6 DEF Program

LEMMA CountStep == ReadInv /\ [Next]_vars => CountInv'
<1> SUFFICES ASSUME ReadInv, [Next]_vars PROVE CountInv'
    OBVIOUS
<1> USE TimerAssumption DEF ReadInv, Typed, LoopInv, CountInv, Underway, One, Modes
<1>1. CASE Remap
      BY <1>1 DEF Remap, LoadUnchanged, programVars
<1>2. CASE Tick
      BY <1>2 DEF Tick, programVars
<1>3. CASE ReadStatus
      BY <1>3 DEF ReadStatus, programVars
<1>4. CASE ModifyReads
      BY <1>4 DEF ModifyReads, programVars
<1>5. CASE ModifyWrites
      BY <1>5 DEF ModifyWrites, programVars
<1>6. CASE Handled
      BY <1>6 DEF Handled, programVars, NoRun
<1>7. CASE Open
      BY <1>7 DEF Open, Goes, ProgramUnchanged, NoRun
<1>8. CASE Mmap
      BY <1>8 DEF Mmap, Goes, ProgramUnchanged
<1>9. CASE Disable \/ Load
      BY <1>9 DEF Disable, Load, WritesTcsr, Goes, ProgramUnchanged
<1>10. CASE Run
      BY <1>10 DEF Run, WritesTcsr, Goes, ProgramUnchanged
<1>11. CASE Read
      BY <1>11 DEF Read, ProgramUnchanged
<1>12. CASE Cleanup \/ Close \/ Killed
      BY <1>12 DEF Cleanup, Close, Killed, WritesTcsr, Goes
<1>13. CASE UNCHANGED <<programVars, tcsr, handler, event, ticks>>
      BY <1>13 DEF programVars
<1> QED BY <1>1, <1>2, <1>3, <1>4, <1>5, <1>6, <1>7, <1>8, <1>9, <1>10, <1>11,
           <1>12, <1>13
        DEF Next, Program, Handling, vars, DeviceRegister, FindIrq, UioRegister,
            ExitUio, ExitRest, LoadUnchanged

(* A program that finds the timer at rest never counts more interrupts     *)
(* than its timer has had periods, however handler, program and timer      *)
(* interleave: the bit, the handler and the event count hold each tick at  *)
(* most once.                                                              *)
THEOREM CountsTicks == Spec => []ReadsAreTicks
<1>1. Init => ReadInv
      BY TypedInit DEF Init, ReadInv, LoopInv, CountInv
<1>2. ReadInv /\ [Next]_vars => ReadInv'
      BY TypedStep, LoopStep, CountStep DEF ReadInv
<1>3. ReadInv => ReadsAreTicks
      BY TimerAssumption DEF ReadInv, Typed, LoopInv, CountInv, Underway, One, ReadsAreTicks
<1> QED BY <1>1, <1>2, <1>3, PTL DEF Spec
=============================================================================
