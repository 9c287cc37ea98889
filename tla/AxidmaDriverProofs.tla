------------------------- MODULE AxidmaDriverProofs -------------------------
(***************************************************************************)
(* Proofs of the invariants of AxidmaDriver, for any number of writers,    *)
(* bases, lines, users and devices, and whichever kernel calls fail.       *)
(***************************************************************************)
EXTENDS AxidmaDriver, TLAPS

Places == {"idle", "enable", "irq", "register", "ioremap", "on", "unregister",
           "iounmap", "clear", "off"}

Typed ==
    /\ pc \in [Writers -> Places] /\ tmp \in [Writers -> 0..1]
    /\ enable \in 0..1 /\ phys_base \in Bases
    /\ files \in Nat /\ devices \in Nat

(* The stores of enable come one by one, or the mark says so. *)
OneStore ==
    "overlap" \notin astray =>
        \A v, w \in Writers : pc[v] # "idle" /\ pc[w] # "idle" => v = w

(* When the module is in, nothing has gone wrong with its loading or       *)
(* removal; when it is out, its files are gone.                            *)
Loading ==
    /\ module \in {"out", "init", "in", "exiting", "failing"}
    /\ module = "out" => files = 0 /\ Idle
    /\ module \in {"init", "in"} => "exit" \notin astray /\ "init" \notin astray
    /\ module = "exiting" /\ "exit" \notin astray => Idle

(* The stores alone determine what is registered and mapped. *)
Regular == /\ module \in {"init", "in", "failing"}
           /\ "overlap" \notin astray /\ "exit" \notin astray

Resting == \A w \in Writers : pc[w] \in {"idle", "enable"}

(* What is mapped, by the place of the store. *)
Mapping ==
    Regular =>
        /\ Resting => /\ live <=> enable = 1
                      /\ virt # Unmapped <=> enable = 1
                      /\ enable = 1 => devices > 0
        /\ \A w \in Writers : pc[w] \notin {"idle", "enable"} =>
             /\ live <=> pc[w] \in {"on", "unregister", "iounmap"}
             /\ virt # Unmapped <=> pc[w] \in {"on", "unregister", "iounmap", "clear"}
             /\ pc[w] \in {"ioremap", "on", "unregister"} => devices > 0
             /\ pc[w] \in {"irq", "register", "ioremap"} => enable = 0

(* The handler's mapping is of the registers the device was given. *)
Addressing ==
    Regular /\ "moved" \notin astray =>
        /\ live => virt = info.addr
        /\ \A w \in Writers : pc[w] \in {"register", "ioremap"} => info.addr = phys_base

(* How many devices there are, as long as no ioremap has failed. *)
Counting ==
    Regular /\ "ioremap" \notin astray =>
        /\ Resting => devices = enable
        /\ \A w \in Writers :
             /\ pc[w] \in {"ioremap", "on", "unregister"} => devices = 1
             /\ pc[w] \in {"irq", "register", "iounmap", "clear", "off"} => devices = 0

(* A module on its way out, without a mark, has let go of everything. *)
Quiet ==
    module \in {"exiting", "failing", "out"} /\ astray \subseteq {"moved"} =>
        Idle /\ NothingLeft

(* A handler runs for a registered device, with its registers mapped. *)
HandlerHeld ==
    /\ handler # "out" => devices > 0
    /\ handler # "out" /\ astray \subseteq {"moved"} => live

StoreInv == Typed /\ OneStore /\ Loading /\ Mapping /\ Counting /\ Addressing

DriverInv == StoreInv /\ Quiet /\ HandlerHeld /\ NoFault

-----------------------------------------------------------------------------
(* What the invariant implies. *)

LEMMA InvImplies ==
    DriverInv => HandlerSafe /\ EnableIsTrue /\ NeverDangling /\ ExitClean
<1> SUFFICES ASSUME DriverInv
             PROVE  HandlerSafe /\ EnableIsTrue /\ NeverDangling /\ ExitClean
    OBVIOUS
<1> USE DEF DriverInv, StoreInv
<1>1. ExitClean
      BY DEF ExitClean, Quiet, Loading
<1>2. NeverDangling
      BY DEF NeverDangling, Mapping, Loading, Regular, Resting, Idle
<1>3. EnableIsTrue
      BY DEF EnableIsTrue, NothingLeft, Mapping, Counting, Addressing, Loading,
             Regular, Resting, Idle, Typed
<1>4. HandlerSafe
  <2> SUFFICES ASSUME astray \subseteq {"moved"}, devices > 0
               PROVE  module # "out" /\ (virt # Unmapped => live)
      BY DEF HandlerSafe, HandlerHeld
  <2>1. module \in {"init", "in"}
        BY DEF Quiet, Loading, NothingLeft
  <2>2. Regular /\ "ioremap" \notin astray
        BY <2>1 DEF Regular
  <2>3. CASE Resting
        BY <2>1, <2>2, <2>3 DEF Mapping
  <2>4. CASE ~Resting
    <3>1. PICK w \in Writers : pc[w] \notin {"idle", "enable"}
          BY <2>4 DEF Resting
    <3>2. pc[w] \notin {"iounmap", "clear", "off"}
          BY <2>2, <3>1 DEF Counting
    <3> QED BY <2>1, <2>2, <3>1, <3>2 DEF Mapping, Typed, Places
  <2> QED BY <2>3, <2>4
<1> QED BY <1>1, <1>2, <1>3, <1>4

-----------------------------------------------------------------------------
(* Steps of a store of enable. *)

(* The writer goes to another place; the marks stay or ioremap joins them. *)
Moves(w, l) ==
    /\ pc[w] # "idle" /\ Goto(w, l) /\ tmp' \in [Writers -> 0..1]
    /\ astray' \in {astray, astray \cup {"ioremap"}}
    /\ UNCHANGED <<module, files, phys_base>>

(* While the stores come one by one, the writer that moves is alone.       *)
LEMMA MoverAlone ==
    ASSUME StoreInv, NEW w \in Writers, NEW l \in Places, Moves(w, l), Regular'
    PROVE  /\ Regular
           /\ pc'[w] = l
           /\ \A v \in Writers \ {w} : pc[v] = "idle" /\ pc'[v] = "idle"
<1>1. Regular
      BY DEF Regular, Moves
<1>2. \A v \in Writers : pc[v] # "idle" => v = w
      BY <1>1 DEF StoreInv, OneStore, Regular, Moves
<1> QED BY <1>1, <1>2 DEF Moves, Goto, StoreInv, Typed

LEMMA MoverLeaves ==
    ASSUME StoreInv, NEW w \in Writers, NEW l \in Places, Moves(w, l),
           enable' \in 0..1, devices' \in Nat
    PROVE  Typed' /\ OneStore' /\ Loading'
<1> USE DEF StoreInv, Moves
<1>1. pc' \in [Writers -> Places]
      BY DEF Typed, Goto
<1>2. Typed'
      BY <1>1 DEF Typed
<1>3. \A v \in Writers : pc'[v] # "idle" => pc[v] # "idle"
      BY DEF Goto, Typed
<1>4. OneStore'
      BY <1>3 DEF OneStore
<1>5. Loading'
      BY <1>3 DEF Loading, Idle
<1> QED BY <1>2, <1>4, <1>5

(* What is left to show of a step of w to l, of w alone. *)
Settled(w, l) ==
    Regular /\ Regular' =>
        /\ live' <=> IF l = "idle" THEN enable' = 1
                     ELSE l \in {"on", "unregister", "iounmap"}
        /\ virt' # Unmapped <=> IF l = "idle" THEN enable' = 1
                     ELSE l \in {"on", "unregister", "iounmap", "clear"}
        /\ l \in {"ioremap", "on", "unregister"} \/ (l = "idle" /\ enable' = 1) => devices' > 0
        /\ l \in {"irq", "register", "ioremap"} => enable' = 0
        /\ "ioremap" \notin astray' =>
             devices' = IF l = "idle" THEN enable'
                        ELSE IF l \in {"ioremap", "on", "unregister"} THEN 1 ELSE 0
        /\ "moved" \notin astray' =>
             /\ live' => virt' = info'.addr
             /\ l \in {"register", "ioremap"} => info'.addr = phys_base'

LEMMA MoverSettles ==
    ASSUME StoreInv, NEW w \in Writers, NEW l \in Places \ {"enable"}, Moves(w, l),
           Settled(w, l), enable' \in 0..1, devices' \in Nat
    PROVE  StoreInv'
<1>1. Typed' /\ OneStore' /\ Loading'
      BY MoverLeaves
<1>2. ASSUME Regular' PROVE Mapping' /\ Counting' /\ Addressing'
  <2>1. /\ Regular /\ pc'[w] = l
        /\ \A v \in Writers \ {w} : pc'[v] = "idle"
        BY <1>2, MoverAlone
  <2>2. Resting' <=> l = "idle"
        BY <2>1 DEF Resting
  <2>3. Mapping'
        BY <1>2, <2>1, <2>2 DEF Mapping, Settled
  <2>4. Counting'
        BY <1>2, <2>1, <2>2 DEF Counting, Settled
  <2>5. Addressing'
        BY <1>2, <2>1 DEF Addressing, Settled
  <2> QED BY <2>3, <2>4, <2>5
<1>3. ~Regular' => Mapping' /\ Counting' /\ Addressing'
      BY DEF Mapping, Counting, Addressing
<1> QED BY <1>1, <1>2, <1>3 DEF StoreInv

LEMMA BranchStep == ASSUME StoreInv, NEW w \in Writers, Branch(w) PROVE StoreInv'
<1> DEFINE l == IF tmp[w] = enable THEN (IF tmp[w] = 1 THEN "on" ELSE "off")
                ELSE IF tmp[w] = 1 THEN "irq" ELSE "unregister"
<1> USE DEF StoreInv, Typed
<1>1. Moves(w, l)
      BY DEF Branch, Moves, loadVars, configVars
<1>2. UNCHANGED <<enable, virt, live, devices, info, astray, phys_base>>
      BY DEF Branch, configVars, deviceVars
<1>3. Settled(w, l)
  <2> SUFFICES ASSUME Regular PROVE Settled(w, l)
      BY DEF Settled
  <2>1. Resting
        BY DEF Branch, Resting, Regular, OneStore
  <2> QED BY <1>2, <2>1 DEF Branch, Settled, Mapping, Counting, Addressing
<1>4. l \in Places \ {"enable"}
      BY DEF Places
<1> QED BY <1>1, <1>2, <1>3, <1>4, MoverSettles

LEMMA FindIrqStep == ASSUME StoreInv, NEW w \in Writers, FindIrq(w) PROVE StoreInv'
<1> USE DEF StoreInv, Typed, FindIrq, Places
<1>1. CASE Abandon(w) /\ UNCHANGED info
  <2>1. Moves(w, "idle")
        BY <1>1 DEF Abandon, Moves, loadVars
  <2>2. Settled(w, "idle")
        BY <1>1 DEF Abandon, Settled, Mapping, Counting, Addressing, deviceVars
  <2> QED BY <1>1, <2>1, <2>2, MoverSettles DEF Abandon, deviceVars
<1>2. CASE Goto(w, "register") /\ UNCHANGED enable /\ info'.addr = phys_base
  <2>1. Moves(w, "register")
        BY <1>2 DEF Moves, loadVars
  <2>2. Settled(w, "register")
        BY <1>2 DEF Settled, Mapping, Counting, deviceVars
  <2> QED BY <1>2, <2>1, <2>2, MoverSettles DEF deviceVars
<1> QED BY <1>1, <1>2

LEMMA RegisterStep == ASSUME StoreInv, NEW w \in Writers, Register(w) PROVE StoreInv'
<1> USE DEF StoreInv, Typed, Register, Places
<1>1. CASE Abandon(w) /\ UNCHANGED devices
  <2>1. Moves(w, "idle")
        BY <1>1 DEF Abandon, Moves, loadVars
  <2>2. Settled(w, "idle")
        BY <1>1 DEF Abandon, Settled, Mapping, Counting, Addressing
  <2> QED BY <1>1, <2>1, <2>2, MoverSettles DEF Abandon
<1>2. CASE Goto(w, "ioremap") /\ devices' = devices + 1 /\ UNCHANGED enable
  <2>1. Moves(w, "ioremap")
        BY <1>2 DEF Moves, loadVars
  <2>2. Settled(w, "ioremap")
        BY <1>2 DEF Settled, Mapping, Counting, Addressing
  <2> QED BY <1>2, <2>1, <2>2, MoverSettles
<1> QED BY <1>1, <1>2

LEMMA IoremapStep == ASSUME StoreInv, NEW w \in Writers, Ioremap(w) PROVE StoreInv'
<1> USE DEF StoreInv, Typed, Ioremap, Places
<1>1. CASE /\ Abandon(w) /\ virt' = Unmapped /\ UNCHANGED live
           /\ astray' = astray \cup {"ioremap"}
  <2>1. Moves(w, "idle")
        BY <1>1 DEF Abandon, Moves, loadVars
  <2>2. Settled(w, "idle")
        BY <1>1 DEF Abandon, Settled, Mapping
  <2> QED BY <1>1, <2>1, <2>2, MoverSettles DEF Abandon
<1>2. CASE /\ Goto(w, "on") /\ virt' = phys_base /\ live' = TRUE
           /\ UNCHANGED <<enable, astray>>
  <2>1. Moves(w, "on")
        BY <1>2 DEF Moves, loadVars
  <2>2. virt' # Unmapped
        BY <1>2, AxidmaAssumption
  <2>3. Settled(w, "on")
    <3> SUFFICES ASSUME Regular, Regular' PROVE Settled(w, "on")
        BY DEF Settled
    <3>1. devices' > 0 /\ ("ioremap" \notin astray' => devices' = 1)
          BY <1>2 DEF Counting, Mapping
    <3>2. "moved" \notin astray' => virt' = info'.addr
          BY <1>2 DEF Addressing
    <3> QED BY <1>2, <2>2, <3>1, <3>2 DEF Settled
  <2> QED BY <1>2, <2>1, <2>3, MoverSettles
<1> QED BY <1>1, <1>2

LEMMA EnabledStep == ASSUME StoreInv, NEW w \in Writers, Enabled(w) PROVE StoreInv'
<1> USE DEF StoreInv, Typed, Enabled, Places
<1>1. Moves(w, "idle")
      BY DEF Moves, loadVars
<1>2. Settled(w, "idle")
      BY DEF Settled, Mapping, Counting, Addressing, deviceVars
<1> QED BY <1>1, <1>2, MoverSettles DEF deviceVars

LEMMA UnregisterStep == ASSUME StoreInv, NEW w \in Writers, Unregister(w) PROVE StoreInv'
<1> USE DEF StoreInv, Typed, Unregister, Places, UioUnregister
<1>1. Moves(w, "iounmap")
      BY DEF Moves, loadVars, configVars
<1>2. Settled(w, "iounmap")
      BY DEF Settled, Mapping, Counting, Addressing, configVars, deviceVars
<1> QED BY <1>1, <1>2, MoverSettles DEF configVars, deviceVars

LEMMA IounmapStep == ASSUME StoreInv, NEW w \in Writers, Iounmap(w) PROVE StoreInv'
<1> USE DEF StoreInv, Typed, Iounmap, Places
<1>1. Moves(w, "clear")
      BY DEF Moves, loadVars, configVars
<1>2. Settled(w, "clear")
      BY DEF Settled, Mapping, Counting, Addressing, configVars, deviceVars
<1> QED BY <1>1, <1>2, MoverSettles DEF configVars, deviceVars

LEMMA ClearVirtStep == ASSUME StoreInv, NEW w \in Writers, ClearVirt(w) PROVE StoreInv'
<1> USE DEF StoreInv, Typed, ClearVirt, Places
<1>1. Moves(w, "off")
      BY DEF Moves, loadVars, configVars
<1>2. Settled(w, "off")
      BY DEF Settled, Mapping, Counting, Addressing, configVars, deviceVars
<1> QED BY <1>1, <1>2, MoverSettles DEF configVars, deviceVars

LEMMA DisabledStep == ASSUME StoreInv, NEW w \in Writers, Disabled(w) PROVE StoreInv'
<1> USE DEF StoreInv, Typed, Disabled, Places
<1>1. Moves(w, "idle")
      BY DEF Moves, loadVars, configVars
<1>2. Settled(w, "idle")
      BY DEF Settled, Mapping, Counting, Addressing, configVars, deviceVars
<1> QED BY <1>1, <1>2, MoverSettles DEF configVars, deviceVars

(* The stores go on from where they are when a store of enable begins: the *)
(* other stores rest, or the marks say that they overlap.                  *)
LEMMA EnableStoreStep ==
    ASSUME StoreInv, NEW w \in Writers, NEW n \in 0..1, EnableStore(w, n)
    PROVE  StoreInv'
<1> USE DEF StoreInv, EnableStore
<1>1. /\ UNCHANGED <<module, files, enable, phys_base, info, devices, virt, live>>
      /\ astray \subseteq astray'
      BY DEF loadVars, configVars, deviceVars
<1>2. Typed'
      BY <1>1 DEF Typed, Places
<1>3. ASSUME "overlap" \notin astray' PROVE Idle
      BY <1>3
<1>4. \A v \in Writers \ {w} : pc'[v] = pc[v]
      BY DEF Typed
<1>5. OneStore'
      BY <1>3, <1>4 DEF OneStore, Idle
<1>6. Loading'
  <2>1. module # "out"
        BY DEF Loading, Exists
  <2> QED BY <1>1, <2>1 DEF Loading
<1>7. ASSUME Regular' PROVE Mapping' /\ Counting' /\ Addressing'
  <2>1. Regular /\ Idle
        BY <1>1, <1>3, <1>7 DEF Regular
  <2>2. pc'[w] = "enable" /\ \A v \in Writers \ {w} : pc'[v] = "idle"
        BY <1>4, <2>1 DEF Idle, Typed
  <2>3. Resting /\ Resting'
        BY <2>1, <2>2 DEF Resting, Idle
  <2>4. Mapping' /\ Counting'
        BY <1>1, <2>1, <2>2, <2>3 DEF Mapping, Counting
  <2>5. Addressing'
        BY <1>1, <2>1, <2>2 DEF Addressing
  <2> QED BY <2>4, <2>5
<1> QED BY <1>2, <1>5, <1>6, <1>7 DEF Mapping, Counting, Addressing

-----------------------------------------------------------------------------
(* The other steps. *)

coreVars == <<pc, tmp, enable, phys_base, info, devices, virt, live, module, files, astray>>

LEMMA CoreUnchanged == StoreInv /\ UNCHANGED coreVars => StoreInv'
<1> SUFFICES ASSUME StoreInv, UNCHANGED coreVars PROVE StoreInv'
    OBVIOUS
<1>1. Typed' /\ OneStore' /\ Loading'
      BY DEF StoreInv, coreVars, Typed, OneStore, Loading, Idle
<1>2. Mapping' /\ Counting' /\ Addressing'
      BY DEF StoreInv, coreVars, Mapping, Counting, Addressing, Regular, Resting
<1> QED BY <1>1, <1>2 DEF StoreInv

LEMMA AxidmaInitStep == StoreInv /\ AxidmaInit => StoreInv'
<1> SUFFICES ASSUME StoreInv, AxidmaInit PROVE StoreInv'
    OBVIOUS
<1> USE DEF StoreInv, AxidmaInit, storeVars
<1>1. Idle /\ UNCHANGED <<pc, tmp>>
      BY DEF Loading
<1>2. Typed'
      BY DEF Typed
<1>3. OneStore' /\ Loading'
      BY <1>1 DEF OneStore, Loading, Idle
<1>4. Resting' /\ \A w \in Writers : pc'[w] = "idle"
      BY <1>1 DEF Resting, Idle
<1>5. devices' = 0 /\ live' = FALSE /\ virt' = Unmapped /\ enable' = 0
      BY DEF NothingLeft, deviceVars
<1>6. Mapping' /\ Counting' /\ Addressing'
      BY <1>4, <1>5 DEF Mapping, Counting, Addressing
<1> QED BY <1>2, <1>3, <1>6

LEMMA LoadStep == StoreInv /\ (CreateFile \/ CreateFileFails) => StoreInv'
<1> SUFFICES ASSUME StoreInv, CreateFile \/ CreateFileFails PROVE StoreInv'
    OBVIOUS
<1> USE DEF StoreInv, CreateFile, CreateFileFails
<1>1. /\ UNCHANGED <<pc, tmp, enable, phys_base, info, devices, virt, live>>
      /\ astray' \in {astray, astray \cup {"init"}}
      BY DEF storeVars, configVars, deviceVars
<1>2. module = "init" /\ module' \in {"init", "in", "failing"}
      OBVIOUS
<1>3. Typed' /\ OneStore'
      BY <1>1 DEF Typed, OneStore
<1>4. Loading'
      BY <1>1, <1>2 DEF Loading
<1>5. Regular' => Regular
      BY <1>1, <1>2 DEF Regular
<1>6. Mapping' /\ Counting' /\ Addressing'
      BY <1>1, <1>5 DEF Mapping, Counting, Addressing, Resting
<1> QED BY <1>3, <1>4, <1>6

LEMMA PhysBaseStep ==
    ASSUME StoreInv, NEW base \in Bases, PhysBaseStore(base) PROVE StoreInv'
<1> USE DEF StoreInv, PhysBaseStore
<1>1. /\ UNCHANGED <<pc, tmp, enable, info, devices, virt, live, module, files>>
      /\ astray' \in {astray, astray \cup {"moved"}}
      BY DEF storeVars, loadVars, deviceVars
<1>2. Typed' /\ OneStore' /\ Loading'
      BY <1>1 DEF Typed, OneStore, Loading, Idle
<1>3. Regular' => Regular
      BY <1>1 DEF Regular
<1>4. Mapping' /\ Counting'
      BY <1>1, <1>3 DEF Mapping, Counting, Resting
<1>5. Addressing'
      BY <1>1, <1>3 DEF Addressing
<1> QED BY <1>2, <1>4, <1>5

(* The module is not in any more: only the marks and the files matter.     *)
LEMMA ExitStep == StoreInv /\ (ExitUnregister \/ RemoveFiles) => StoreInv'
<1> SUFFICES ASSUME StoreInv, ExitUnregister \/ RemoveFiles PROVE StoreInv'
    OBVIOUS
<1> USE DEF StoreInv, ExitUnregister, ExitBegins, RemoveFiles
<1>1. UNCHANGED <<pc, tmp, enable, phys_base>> /\ module' \in {"exiting", "out"}
      BY DEF storeVars, configVars
<1>2. Typed'
      BY <1>1 DEF Typed, UioUnregister, deviceVars
<1>3. OneStore' /\ Loading'
      BY <1>1 DEF OneStore, Loading, Idle
<1>4. Mapping' /\ Counting' /\ Addressing'
      BY <1>1 DEF Mapping, Counting, Addressing, Regular
<1> QED BY <1>2, <1>3, <1>4

HandlerStep == ReadMm2s \/ Handling

LEMMA StoreStep == StoreInv /\ [Next]_vars => StoreInv'
<1> SUFFICES ASSUME StoreInv, [Next]_vars PROVE StoreInv'
    OBVIOUS
<1>1. CASE AxidmaInit \/ CreateFile \/ CreateFileFails \/ ExitUnregister \/ RemoveFiles
      BY <1>1, AxidmaInitStep, LoadStep, ExitStep
<1>2. ASSUME NEW base \in Bases, PhysBaseStore(base) PROVE StoreInv'
      BY <1>2, PhysBaseStep
<1>3. ASSUME NEW w \in Writers, Step(w) PROVE StoreInv'
      BY <1>3, EnableStoreStep, BranchStep, FindIrqStep, RegisterStep, IoremapStep,
         EnabledStep, UnregisterStep, IounmapStep, ClearVirtStep, DisabledStep
         DEF Step
<1>4. CASE UNCHANGED coreVars
      BY <1>4, CoreUnchanged
<1>5. UserOpen \/ UserClose => UNCHANGED coreVars
      BY DEF UserOpen, UserClose, coreVars, storeVars, configVars, deviceVars
<1>6. (\E line \in Lines : IrqLineStore(line)) => UNCHANGED coreVars
      BY DEF IrqLineStore, coreVars, loadVars, storeVars, deviceVars
<1>7. (\E ch \in Channels : DmaInterrupt(ch)) \/ HandlerStep => UNCHANGED coreVars
      BY DEF DmaInterrupt, HandlerStep, ReadMm2s, Handling, ReadS2mm, AckMm2s, AckS2mm,
             Handled, HandlerUnchanged, coreVars, loadVars, storeVars, configVars, deviceVars
<1>8. UNCHANGED vars => UNCHANGED coreVars
      BY DEF vars, coreVars, loadVars, storeVars, configVars, deviceVars
<1> QED BY <1>1, <1>2, <1>3, <1>4, <1>5, <1>6, <1>7, <1>8 DEF Next, HandlerStep

-----------------------------------------------------------------------------
(* Removal, the handler, and faults. *)

(* The statements of a store that touch what is registered or mapped.      *)
StoreStatement(w) ==
    \/ Branch(w) \/ FindIrq(w) \/ Register(w) \/ Ioremap(w) \/ Enabled(w)
    \/ Unregister(w) \/ Iounmap(w) \/ ClearVirt(w) \/ Disabled(w)

LEMMA StatementRuns ==
    ASSUME NEW w \in Writers, StoreStatement(w)
    PROVE  /\ pc[w] # "idle" /\ astray \subseteq astray'
           /\ UNCHANGED <<module, files, users, handler, sr, owed>>
BY DEF StoreStatement, Branch, FindIrq, Register, Ioremap, Enabled, Unregister,
       Iounmap, ClearVirt, Disabled, loadVars, irqVars

(* What no step but those of loading, removal and stores changes. *)
heldVars == <<pc, module, devices, live, fault>>

LEMMA Bystanders ==
    ASSUME [Next]_vars
    PROVE  \/ AxidmaInit \/ CreateFile \/ CreateFileFails
           \/ ExitUnregister \/ RemoveFiles
           \/ \E w \in Writers, n \in 0..1 : EnableStore(w, n)
           \/ \E w \in Writers : StoreStatement(w)
           \/ ReadMm2s
           \/ /\ UNCHANGED heldVars /\ astray \subseteq astray'
              /\ handler' # "out" => handler # "out"
<1>1. CASE UserOpen \/ UserClose
      BY <1>1 DEF UserOpen, UserClose, heldVars, storeVars, deviceVars, irqVars
<1>2. CASE \E base \in Bases : PhysBaseStore(base)
      BY <1>2 DEF PhysBaseStore, heldVars, loadVars, storeVars, deviceVars, irqVars
<1>3. CASE \E line \in Lines : IrqLineStore(line)
      BY <1>3 DEF IrqLineStore, heldVars, loadVars, storeVars, deviceVars, irqVars
<1>4. CASE \E ch \in Channels : DmaInterrupt(ch)
      BY <1>4 DEF DmaInterrupt, heldVars, loadVars, storeVars, deviceVars
<1>5. CASE Handling
      BY <1>5 DEF Handling, ReadS2mm, AckMm2s, AckS2mm, Handled, HandlerUnchanged,
                  heldVars, loadVars, storeVars, deviceVars
<1>6. CASE UNCHANGED vars
      BY <1>6 DEF vars, heldVars, loadVars, storeVars, deviceVars, irqVars
<1> QED BY <1>1, <1>2, <1>3, <1>4, <1>5, <1>6 DEF Next, Step, StoreStatement

LEMMA QuietStep == DriverInv /\ [Next]_vars => Quiet'
<1> SUFFICES ASSUME DriverInv, [Next]_vars,
                    module' \in {"exiting", "failing", "out"}, astray' \subseteq {"moved"}
             PROVE  (Idle /\ NothingLeft)'
    BY DEF Quiet
<1> USE DEF DriverInv, StoreInv
<1>1. CASE AxidmaInit \/ CreateFile
      BY <1>1 DEF AxidmaInit, CreateFile
<1>2. CASE CreateFileFails
      BY <1>2 DEF CreateFileFails, Idle, NothingLeft, storeVars, deviceVars
<1>3. CASE ExitUnregister
  <2>1. /\ Idle /\ module = "in" /\ astray \subseteq {"moved"} /\ UNCHANGED pc
        BY <1>3 DEF ExitUnregister, ExitBegins, storeVars
  <2>2. Regular /\ Resting /\ "ioremap" \notin astray
        BY <2>1 DEF Regular, Resting, Idle
  <2>3. devices = enable /\ (live <=> enable = 1)
        BY <2>2 DEF Mapping, Counting
  <2> QED BY <1>3, <2>1, <2>3
          DEF ExitUnregister, UioUnregister, Idle, NothingLeft, Typed
<1>4. CASE RemoveFiles
      BY <1>4 DEF RemoveFiles, Quiet, Idle, NothingLeft, storeVars, deviceVars
<1>5. ASSUME NEW w \in Writers, NEW n \in 0..1, EnableStore(w, n) PROVE FALSE
      BY <1>5 DEF EnableStore, Loading, Exists, loadVars
<1>6. ASSUME NEW w \in Writers, StoreStatement(w) PROVE FALSE
      BY <1>6, StatementRuns DEF Quiet, Idle
<1>7. CASE ReadMm2s \/ (UNCHANGED heldVars /\ astray \subseteq astray')
  <2>1. UNCHANGED <<module, pc, devices, live>> /\ astray \subseteq astray'
        BY <1>7 DEF ReadMm2s, HandlerUnchanged, heldVars, loadVars, storeVars, deviceVars
  <2>2. Idle /\ NothingLeft
        BY <2>1 DEF Quiet
  <2> QED BY <2>1, <2>2 DEF Idle, NothingLeft
<1> QED BY <1>1, <1>2, <1>3, <1>4, <1>5, <1>6, <1>7, Bystanders

LEMMA HandlerHeldStep == DriverInv /\ [Next]_vars => HandlerHeld'
<1> SUFFICES ASSUME DriverInv, [Next]_vars, handler' # "out"
             PROVE  devices' > 0 /\ (astray' \subseteq {"moved"} => live')
    BY DEF HandlerHeld
<1> USE DEF DriverInv, StoreInv
<1>1. CASE AxidmaInit
      BY <1>1 DEF AxidmaInit, NothingLeft, HandlerHeld, deviceVars, irqVars
<1>2. CASE CreateFile \/ CreateFileFails \/ RemoveFiles
      BY <1>2 DEF CreateFile, CreateFileFails, RemoveFiles, HandlerHeld, deviceVars, irqVars
<1>3. CASE ExitUnregister
      BY <1>3 DEF ExitUnregister, ExitBegins, UioUnregister, HandlerHeld, irqVars
<1>4. CASE ReadMm2s
      BY <1>4, InvImplies DEF ReadMm2s, HandlerSafe, HandlerUnchanged, deviceVars
<1>5. ASSUME NEW w \in Writers, NEW n \in 0..1, EnableStore(w, n)
      PROVE  devices' > 0 /\ (astray' \subseteq {"moved"} => live')
      BY <1>5 DEF EnableStore, HandlerHeld, deviceVars, irqVars
<1>6. ASSUME NEW w \in Writers, StoreStatement(w)
      PROVE  devices' > 0 /\ (astray' \subseteq {"moved"} => live')
  <2>1. /\ pc[w] # "idle" /\ astray \subseteq astray' /\ handler # "out" /\ devices > 0
        BY <1>6, StatementRuns DEF HandlerHeld
  <2>2. CASE Branch(w) \/ FindIrq(w) \/ Enabled(w) \/ ClearVirt(w) \/ Disabled(w)
        BY <2>1, <2>2 DEF Branch, FindIrq, Enabled, ClearVirt, Disabled, HandlerHeld,
                          deviceVars
  <2>3. CASE Register(w) \/ Ioremap(w)
        BY <2>1, <2>3 DEF Register, Ioremap, HandlerHeld, Typed
  <2>4. CASE Unregister(w)
        BY <2>1, <2>4 DEF Unregister, UioUnregister
  <2>5. CASE Iounmap(w)
    <3>1. devices' > 0
          BY <2>1, <2>5 DEF Iounmap
    <3>2. ASSUME astray' \subseteq {"moved"} PROVE FALSE
      <4>1. Regular /\ "ioremap" \notin astray
            BY <2>1, <3>2 DEF Quiet, Idle, Loading, Regular
      <4> QED BY <2>1, <2>5, <4>1 DEF Iounmap, Counting
    <3> QED BY <3>1, <3>2
  <2> QED BY <1>6, <2>2, <2>3, <2>4, <2>5 DEF StoreStatement
<1>7. CASE UNCHANGED heldVars /\ astray \subseteq astray' /\ handler # "out"
      BY <1>7 DEF heldVars, HandlerHeld
<1> QED BY <1>1, <1>2, <1>3, <1>4, <1>5, <1>6, <1>7, Bystanders

LEMMA NoFaultStep == DriverInv /\ [Next]_vars => NoFault'
<1> SUFFICES ASSUME DriverInv, [Next]_vars,
                    "overlap" \notin astray', "exit" \notin astray'
             PROVE  ~fault'
    BY DEF NoFault
<1> USE DEF DriverInv, StoreInv
<1>0. astray \subseteq astray' => ~fault
      BY DEF NoFault
<1>1. CASE AxidmaInit
  <2>1. ~fault /\ fault' = fault
        BY <1>1 DEF AxidmaInit
  <2> QED BY <2>1
<1>2. CASE CreateFile \/ CreateFileFails \/ RemoveFiles \/ ReadMm2s
  <2>1. astray \subseteq astray' /\ fault' = fault
        BY <1>2 DEF CreateFile, CreateFileFails, RemoveFiles, ReadMm2s, HandlerUnchanged,
                    deviceVars
  <2> QED BY <1>0, <2>1
<1>3. CASE ExitUnregister
  <2>1. Idle /\ module = "in" /\ astray \subseteq astray'
        BY <1>3 DEF ExitUnregister, ExitBegins
  <2>2. enable = 1 => devices # 0
        BY <2>1 DEF Regular, Resting, Idle, Mapping
  <2>3. ~fault
        BY <1>0, <2>1
  <2>4. CASE enable = 1
    <3>1. fault' = (fault \/ devices = 0)
          BY <1>3, <2>4 DEF ExitUnregister, UioUnregister
    <3> QED BY <2>2, <2>3, <2>4, <3>1, Zenon
  <2>5. CASE enable # 1
    <3>1. fault' = fault
          BY <1>3, <2>5 DEF ExitUnregister
    <3> QED BY <2>3, <3>1
  <2> QED BY <2>4, <2>5
<1>4. ASSUME NEW w \in Writers, NEW n \in 0..1, EnableStore(w, n)
      PROVE  fault' = fault /\ astray \subseteq astray'
      BY <1>4 DEF EnableStore, deviceVars
<1>5. ASSUME NEW w \in Writers, StoreStatement(w)
      PROVE  ~fault'
  <2>1. pc[w] # "idle" /\ astray \subseteq astray'
        BY <1>5, StatementRuns
  <2>2. Regular
        BY <2>1 DEF Loading, Idle, Regular
  <2>3. ~fault
        BY <1>0, <2>1
  <2>4. CASE Unregister(w)
    <3>1. pc[w] = "unregister" /\ fault' = (fault \/ devices = 0)
          BY <2>4 DEF Unregister, UioUnregister
    <3>2. devices # 0
          BY <2>2, <3>1 DEF Mapping
    <3> QED BY <2>3, <3>1, <3>2, Zenon
  <2>5. CASE Iounmap(w)
    <3>1. pc[w] = "iounmap" /\ fault' = (fault \/ ~live)
          BY <2>5 DEF Iounmap
    <3>2. live
          BY <2>2, <3>1 DEF Mapping
    <3> QED BY <2>3, <3>1, <3>2, Zenon
  <2>6. CASE \/ Branch(w) \/ FindIrq(w) \/ Register(w) \/ Ioremap(w) \/ Enabled(w)
             \/ ClearVirt(w) \/ Disabled(w)
    <3>1. fault' = fault
          BY <2>6 DEF Branch, FindIrq, Register, Ioremap, Enabled, ClearVirt,
                      Disabled, deviceVars
    <3> QED BY <2>3, <3>1
  <2> QED BY <1>5, <2>4, <2>5, <2>6 DEF StoreStatement
<1>6. CASE UNCHANGED heldVars /\ astray \subseteq astray'
  <2>1. fault' = fault
        BY <1>6 DEF heldVars
  <2> QED BY <1>0, <1>6, <2>1
<1> QED BY <1>0, <1>1, <1>2, <1>3, <1>4, <1>5, <1>6, Bystanders

-----------------------------------------------------------------------------
(* Theorems. *)

LEMMA DriverInit == Init => DriverInv
<1> SUFFICES ASSUME Init PROVE DriverInv
    OBVIOUS
<1> USE DEF Init
<1>1. Idle /\ Resting /\ \A w \in Writers : pc[w] = "idle"
      BY DEF Idle, Resting
<1>2. Typed
      BY DEF Typed, Places
<1>3. OneStore /\ Loading
      BY <1>1 DEF OneStore, Loading
<1>4. Mapping /\ Addressing /\ Counting
      BY DEF Mapping, Addressing, Counting, Regular
<1>5. Quiet /\ HandlerHeld /\ NoFault
      BY <1>1 DEF Quiet, HandlerHeld, NoFault, NothingLeft
<1> QED BY <1>2, <1>3, <1>4, <1>5 DEF DriverInv, StoreInv

LEMMA DriverCorrect == Spec => []DriverInv
<1>1. DriverInv /\ [Next]_vars => DriverInv'
      BY StoreStep, QuietStep, HandlerHeldStep, NoFaultStep DEF DriverInv
<1> QED BY <1>1, DriverInit, PTL DEF Spec

(* Whenever the handler may run it finds NULL or a mapping, and while it   *)
(* runs its registers stay mapped, until something has gone astray.        *)
THEOREM HandlerAlwaysSafe == Spec => []HandlerSafe
BY DriverCorrect, InvImplies, PTL

(* axidma_enable tells what is registered and mapped, between stores.      *)
THEOREM EnableTellsTruth == Spec => []EnableIsTrue
BY DriverCorrect, InvImplies, PTL

(* axidma_virt never points at a mapping that is gone, between stores.     *)
THEOREM VirtNeverDangles == Spec => []NeverDangling
BY DriverCorrect, InvImplies, PTL

(* Removal, and a failure to load, leave nothing behind.                   *)
THEOREM ExitLeavesNothing == Spec => []ExitClean
BY DriverCorrect, InvImplies, PTL

(* Nothing is unregistered or unmapped twice, failures of ioremap and of   *)
(* loading included.                                                       *)
THEOREM NothingReleasedTwice == Spec => []NoFault
<1>1. DriverInv => NoFault
      BY DEF DriverInv
<1> QED BY <1>1, DriverCorrect, PTL

(* The handler's reads and writes of the status registers lose no          *)
(* interrupt, whenever the DMA raises one.                                 *)
THEOREM InterruptsKept == Spec => []NoInterruptLost
<1>1. Init => NoInterruptLost
      BY DEF Init, NoInterruptLost
<1>2. NoInterruptLost /\ [Next]_vars => NoInterruptLost'
  <2> SUFFICES ASSUME NoInterruptLost, [Next]_vars PROVE NoInterruptLost'
      OBVIOUS
  <2> USE DEF NoInterruptLost
  <2>1. CASE \E ch \in Channels : DmaInterrupt(ch)
        BY <2>1 DEF DmaInterrupt
  <2>2. CASE ReadMm2s \/ Handling
        BY <2>2 DEF ReadMm2s, Handling, ReadS2mm, AckMm2s, AckS2mm, Handled
  <2>3. CASE UNCHANGED irqVars
        BY <2>3 DEF irqVars
  <2>4. (\E w \in Writers : Step(w)) => UNCHANGED irqVars
        BY DEF Step, EnableStore, Branch, FindIrq, Register, Ioremap, Enabled,
               Unregister, Iounmap, ClearVirt, Disabled
  <2> QED BY <2>1, <2>2, <2>3, <2>4
          DEF Next, vars, AxidmaInit, CreateFile, CreateFileFails, ExitUnregister,
              ExitBegins, RemoveFiles, UserOpen, UserClose, PhysBaseStore, IrqLineStore
<1> QED BY <1>1, <1>2, PTL DEF Spec
=============================================================================
