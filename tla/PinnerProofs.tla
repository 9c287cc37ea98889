---------------------------- MODULE PinnerProofs ----------------------------
(***************************************************************************)
(* Proofs about Pinner, for every set of files, threads, pages and         *)
(* addresses, and for every environment the constants describe.            *)
(***************************************************************************)
EXTENDS Pinner, FiniteSetTheorems, TLAPS

-----------------------------------------------------------------------------
(* Types. *)

(* The part of TypeOK that every step changes, and the rest. *)
CallTyped == /\ call \in [Threads -> Call]
             /\ \A t \in Threads : PointersSet(call[t])

RestTyped == /\ module \in {"out", "in", "exiting"}
             /\ opened \subseteq Files
             /\ users \subseteq Files
             /\ umagic \in [Files -> UMagics \cup {None}]
             /\ mutex \in Threads \cup {None}
             /\ pins \in [Pins -> Pinning]
             /\ pinning_list \in [Files -> Seq(Pins)]
             /\ refs \in [Pages -> Int]
             /\ fault \in Faults

(* What a search finds is a pinning. *)
LEMMA FoundArePins ==
    ASSUME RestTyped
    PROVE  /\ \A f \in Files : First(f) \subseteq Pins
           /\ \A q \in Pins : pins[q].owner \in Files => After(q) \subseteq Pins
<1>1. \A f \in Files : pinning_list[f] \in Seq(Pins)
    BY DEF RestTyped
<1> QED
    BY <1>1 DEF First, After

LEMMA TypeParts == TypeOK <=> CallTyped /\ RestTyped
BY DEF TypeOK, CallTyped, RestTyped

(* One call record is replaced by another well-formed one. *)
LEMMA CallUpdate ==
    ASSUME CallTyped, NEW t \in Threads, NEW c \in Call, PointersSet(c),
           call' = [call EXCEPT ![t] = c]
    PROVE  CallTyped'
BY DEF CallTyped

(* Any thread's pc may move to a place whose pointers are set. *)
LEMMA GotoTyped ==
    ASSUME CallTyped, NEW t \in Threads, NEW l \in PCs, Goto(t, l),
           l \in UsesPin => call[t].pin \in Pins,
           l \in UsesFile => call[t].file \in Files
    PROVE  CallTyped'
<1> DEFINE c == [call[t] EXCEPT !.pc = l]
<1>1. c \in Call /\ PointersSet(c)
    BY DEF CallTyped, Call, PointersSet
<1>2. call' = [call EXCEPT ![t] = c]
    BY DEF Goto, CallTyped
<1> QED
    BY <1>1, <1>2, CallUpdate

LEMMA FinishTyped ==
    ASSUME CallTyped, NEW t \in Threads, NEW r \in Codes, Finish(t, r)
    PROVE  CallTyped'
<1> DEFINE c == [call[t] EXCEPT !.pc = "return", !.pages = {},
                              !.want = None, !.ret = r]
<1>1. c \in Call /\ PointersSet(c)
    BY DEF CallTyped, Call, PointersSet, PCs, UsesPin, UsesFile
<1>2. call' = [call EXCEPT ![t] = c]
    BY DEF Finish, CallTyped
<1> QED
    BY <1>1, <1>2, CallUpdate

LEMMA BeginTyped ==
    ASSUME CallTyped, NEW t \in Threads, NEW o \in Ops, NEW f \in Files \cup {None},
           NEW l \in PCs, NEW S \in SUBSET Pages, Begin(t, o, f, l, S),
           l \notin UsesPin, l \in UsesFile => f \in Files
    PROVE  CallTyped'
<1> DEFINE c == [pc |-> l, op |-> o, file |-> f, pin |-> None, pages |-> S,
                 want |-> None, ret |-> "0"]
<1>1. c \in Call /\ PointersSet(c)
    BY DEF Call, PointersSet, Codes
<1>2. call' = [call EXCEPT ![t] = c]
    BY DEF Begin
<1> QED
    BY <1>1, <1>2, CallUpdate

(* A call refused before it did anything. *)
LEMMA RefusedTyped ==
    ASSUME CallTyped, NEW t \in Threads, NEW o \in Ops, NEW f \in Files,
           NEW r \in Codes,
           call' = [call EXCEPT ![t] = [IdleCall EXCEPT !.pc = "return", !.op = o,
                                                        !.file = f, !.ret = r]]
    PROVE  CallTyped'
<1> DEFINE c == [IdleCall EXCEPT !.pc = "return", !.op = o, !.file = f, !.ret = r]
<1>1. c \in Call /\ PointersSet(c)
    BY DEF IdleCall, Call, PointersSet, PCs, UsesPin, UsesFile
<1> QED
    BY <1>1, CallUpdate

(* A well-formed record is its fields. *)
LEMMA Fields ==
    ASSUME CallTyped, NEW t \in Threads
    PROVE  /\ call[t] = [pc |-> call[t].pc, op |-> call[t].op, file |-> call[t].file,
                         pin |-> call[t].pin, pages |-> call[t].pages,
                         want |-> call[t].want, ret |-> call[t].ret]
           /\ call[t].pc \in PCs /\ call[t].op \in Ops
           /\ call[t].file \in Files \cup {None}
           /\ call[t].pin \in Pins \cup {None}
           /\ call[t].pages \in SUBSET Pages /\ call[t].ret \in Codes
           /\ call[t].want \in Magics \cup {None}
           /\ call[t].pc \in UsesPin => call[t].pin \in Pins
           /\ call[t].pc \in UsesFile => call[t].file \in Files
BY DEF CallTyped, Call, PointersSet

(* A list without one of its entries. *)
LEMMA RemoveAtIsSeq ==
    ASSUME NEW S, NEW l \in Seq(S), NEW i \in 1..Len(l)
    PROVE  /\ RemoveAt(l, i) \in Seq(S)
           /\ Len(RemoveAt(l, i)) = Len(l) - 1
           /\ \A j \in 1..(Len(l) - 1) :
                 RemoveAt(l, i)[j] = IF j < i THEN l[j] ELSE l[j + 1]
<1> DEFINE a == SubSeq(l, 1, i - 1)
           b == SubSeq(l, i + 1, Len(l))
<1>1. a \in Seq(S) /\ Len(a) = i - 1 /\ \A j \in 1..(i - 1) : a[j] = l[j]
    OBVIOUS
<1>2. b \in Seq(S) /\ Len(b) = Len(l) - i /\ \A j \in 1..(Len(l) - i) : b[j] = l[j + i]
    OBVIOUS
<1>3. RemoveAt(l, i) = a \o b
    BY DEF RemoveAt
<1> HIDE DEF a, b
<1>4. i \in 1..Len(l) /\ Len(l) \in Nat
    OBVIOUS
<1>5. Len(a \o b) = Len(l) - 1
  <2>0. a \in Seq(S) /\ b \in Seq(S)
    BY <1>1, <1>2
  <2>1. Len(a \o b) = Len(a) + Len(b)
    BY <2>0
  <2> QED
    BY <1>1, <1>2, <1>4, <2>1
<1>6. ASSUME NEW j \in 1..(Len(l) - 1)
      PROVE  (a \o b)[j] = IF j < i THEN l[j] ELSE l[j + 1]
  <2>1. CASE j < i
    BY <1>1, <1>2, <1>4, <2>1
  <2>2. CASE ~ j < i
    <3>1. (a \o b)[j] = b[j - (i - 1)]
      BY <1>1, <1>2, <1>4, <2>2
    <3>2. j - (i - 1) \in 1..(Len(l) - i) /\ (j - (i - 1)) + i = j + 1
      BY <1>4, <2>2
    <3> QED
      BY <1>2, <2>2, <3>1, <3>2
  <2> QED
    BY <2>1, <2>2
<1>7. a \o b \in Seq(S)
  <2>1. a \in Seq(S) /\ b \in Seq(S)
    BY <1>1, <1>2
  <2> QED
    BY <2>1
<1>8. \A j \in 1..(Len(l) - 1) : (a \o b)[j] = IF j < i THEN l[j] ELSE l[j + 1]
  BY <1>6
<1> QED
  <2> HIDE DEF a, b
  <2> QED
    BY <1>3, <1>5, <1>7, <1>8

LEMMA TypeInit == Init => TypeOK
<1> SUFFICES ASSUME Init PROVE TypeOK
    OBVIOUS
<1>1. IdleCall \in Call /\ PointersSet(IdleCall)
    BY DEF IdleCall, Call, PCs, Ops, Codes, PointersSet, UsesPin, UsesFile
<1>2. FreePin \in Pinning
    BY DEF FreePin, Pinning, PinStates
<1> QED
    BY <1>1, <1>2 DEF Init, TypeOK, Faults

LEMMA TypeEntry ==
    ASSUME TypeOK, NEW t \in Threads, Entry(t)
    PROVE  TypeOK'
<1>0. CallTyped /\ RestTyped
  BY TypeParts
<1> SUFFICES CallTyped' /\ RestTyped'
  BY DEF TypeOK, CallTyped, RestTyped
<1> USE DEF PCs, Ops, Codes, UsesPin, UsesFile
<1>1. CASE ExitEntry(t)
  <2>1. RestTyped'
    BY <1>0, <1>1 DEF ExitEntry, RestTyped
  <2>2. CallTyped'
    BY <1>0, <1>1, BeginTyped DEF ExitEntry
  <2> QED
    BY <2>1, <2>2
<1>2. ASSUME NEW f \in Files, OpenEntry(t, f)
      PROVE CallTyped' /\ RestTyped'
  <2>1. CASE \E m \in UMagics :
               /\ umagic' = [umagic EXCEPT ![f] = m]
               /\ pinning_list' = [pinning_list EXCEPT ![f] = <<>>]
               /\ Begin(t, "open", f, "open_lock", {})
    <3>1. pinning_list' \in [Files -> Seq(Pins)]
      <4>1. <<>> \in Seq(Pins)
        OBVIOUS
      <4> QED
        BY <1>0, <2>1, <4>1 DEF RestTyped
    <3>2. umagic' \in [Files -> UMagics \cup {None}]
      BY <1>0, <2>1 DEF RestTyped
    <3>3. CallTyped'
      BY <1>0, <2>1, BeginTyped
    <3> QED
      BY <1>0, <1>2, <3>1, <3>2, <3>3 DEF OpenEntry, RestTyped
  <2>2. CASE /\ call' = [call EXCEPT ![t] = [IdleCall EXCEPT !.pc = "return",
                              !.op = "open", !.file = f, !.ret = "ENOMEM"]]
             /\ UNCHANGED <<umagic, pinning_list>>
    <3>1. CallTyped'
      BY <1>0, <2>2, RefusedTyped
    <3>2. RestTyped'
      BY <1>0, <1>2, <2>2 DEF OpenEntry, RestTyped
    <3> QED
      BY <3>1, <3>2
  <2> QED
    BY <1>2, <2>1, <2>2 DEF OpenEntry
<1>3. ASSUME NEW f \in Files, CloseEntry(t, f)
      PROVE CallTyped' /\ RestTyped'
  BY <1>0, <1>3, BeginTyped DEF CloseEntry, RestTyped
<1>4. ASSUME NEW f \in Files, CallGone(f)
      PROVE CallTyped' /\ RestTyped'
  BY <1>0, <1>4 DEF CallGone, Crash, CallTyped, RestTyped, Faults
<1>5. ASSUME NEW f \in Files, NEW r \in Codes, WriteRejected(t, f, r)
      PROVE CallTyped' /\ RestTyped'
  BY <1>0, <1>5, RefusedTyped DEF WriteRejected, RestTyped
<1>6. ASSUME NEW f \in Files, NEW buf \in SUBSET Pages, WritePin(t, f, buf)
      PROVE CallTyped' /\ RestTyped'
  <2>1. RestTyped'
    BY <1>0, <1>6 DEF WritePin, RestTyped
  <2>2. CallTyped'
    BY <1>0, <1>6, BeginTyped, RefusedTyped DEF WritePin
  <2> QED
    BY <2>1, <2>2
<1>7. ASSUME NEW f \in Files, NEW o \in HandleOps, WriteHandle(t, f, o)
      PROVE CallTyped' /\ RestTyped'
  BY <1>0, <1>7, BeginTyped DEF WriteHandle, HandleOps, RestTyped
<1> QED
    BY <1>1, <1>2, <1>3, <1>4, <1>5, <1>6, <1>7 DEF Entry

LEMMA TypeStep ==
    ASSUME TypeOK, NEW t \in Threads, Step(t)
    PROVE  TypeOK'
<1>0. CallTyped /\ RestTyped
  BY TypeParts
<1> SUFFICES CallTyped' /\ RestTyped'
  BY DEF TypeOK, CallTyped, RestTyped
<1>c. call[t] \in Call /\ PointersSet(call[t])
  BY <1>0 DEF CallTyped
<1> USE DEF PCs, Ops, Codes, UsesPin, UsesFile, PointersSet
<1>1. CASE OpenLock(t)
  BY <1>0, <1>1, <1>c, GotoTyped DEF OpenLock, RestTyped
<1>2. CASE OpenAdd(t)
  BY <1>0, <1>2, <1>c, FinishTyped DEF OpenAdd, RestTyped
<1>3. CASE GetUserPages(t)
  <2>1. CallTyped'
    BY <1>0, <1>3, <1>c, GotoTyped DEF GetUserPages
  <2>2. RestTyped'
    BY <1>0, <1>3 DEF GetUserPages, GetAll, RestTyped
  <2> QED
    BY <2>1, <2>2
<1>4. CASE GetUserPagesShort(t)
  <2>1. CASE Crash("wild_put")
    BY <1>0, <2>1 DEF Crash, RestTyped, CallTyped, Faults
  <2>2. ASSUME NEW missing \in SUBSET call[t].pages,
               NEW stale \in [missing -> Pages \cup {None}],
               refs' = AfterPuts(missing, stale),
               Finish(t, "EAGAIN"),
               UNCHANGED <<module, opened, users, umagic, mutex, pins,
                           pinning_list, fault>>
        PROVE  CallTyped' /\ RestTyped'
    <3>1. missing \subseteq Pages
      BY <1>c DEF Call
    <3>2. ASSUME NEW g \in Pages
          PROVE  Cardinality({m \in missing : stale[m] = g}) \in Int
      <4>1. {m \in missing : stale[m] = g} \subseteq Pages
        BY <3>1
      <4> QED
        BY <4>1, FiniteAssumption, FS_Subset, FS_CardinalityType DEF FiniteAssumption
    <3>3. refs' \in [Pages -> Int]
      BY <1>0, <2>2, <3>2 DEF RestTyped, AfterPuts
    <3> QED
      BY <1>0, <2>2, <3>3, FinishTyped DEF RestTyped
  <2> QED
    BY <1>4, <2>1, <2>2 DEF GetUserPagesShort
<1>5. CASE NewPinning(t)
  <2>1. BarePin \in Pinning
    BY DEF BarePin, FreePin, Pinning, PinStates
  <2>2. ASSUME NEW q \in Pins,
               pins' = [pins EXCEPT ![q] = BarePin],
               call' = [call EXCEPT ![t] = [call[t] EXCEPT !.pc = "fill", !.pin = q]],
               UNCHANGED refs
        PROVE  CallTyped' /\ RestTyped'
    <3> DEFINE c == [call[t] EXCEPT !.pc = "fill", !.pin = q]
    <3>1. call[t].file \in Files
      BY <1>0, <1>5, Fields DEF NewPinning
    <3>2. c \in Call /\ PointersSet(c)
      BY <1>c, <3>1 DEF Call
    <3>3. CallTyped'
      BY <1>0, <2>2, <3>2, CallUpdate
    <3>4. pins' \in [Pins -> Pinning]
      BY <1>0, <2>1, <2>2 DEF RestTyped
    <3> QED
      BY <1>0, <1>5, <2>2, <3>3, <3>4 DEF NewPinning, RestTyped
  <2>3. CASE PutAll(call[t].pages) /\ Finish(t, "ENOMEM") /\ UNCHANGED pins
    <3>1. CallTyped'
      BY <1>0, <2>3, FinishTyped
    <3>2. refs' \in [Pages -> Int]
      BY <1>0, <2>3 DEF PutAll, RestTyped
    <3> QED
      BY <1>0, <1>5, <2>3, <3>1, <3>2 DEF NewPinning, RestTyped
  <2> QED
    BY <1>5, <2>2, <2>3 DEF NewPinning
<1>6. CASE FillSglist(t)
  <2>1. call[t].pin \in Pins /\ call[t].file \in Files /\ call[t].pages \in SUBSET Pages
    BY <1>0, <1>6, Fields DEF FillSglist
  <2>2. CASE /\ pins' = [pins EXCEPT ![call[t].pin] =
                          [BarePin EXCEPT !.state = "live",
                             !.pages = call[t].pages, !.held = call[t].pages]]
             /\ call' = [call EXCEPT ![t] = [call[t] EXCEPT !.pc = "list_add",
                                                            !.pages = {}]]
    <3> DEFINE c == [call[t] EXCEPT !.pc = "list_add", !.pages = {}]
               d == [BarePin EXCEPT !.state = "live",
                       !.pages = call[t].pages, !.held = call[t].pages]
    <3>1. c \in Call /\ PointersSet(c)
      BY <1>c, <2>1 DEF Call
    <3>2. d \in Pinning
      BY <2>1 DEF BarePin, FreePin, Pinning, PinStates
    <3>4. pins' \in [Pins -> Pinning]
      BY <1>0, <2>1, <2>2, <3>2 DEF RestTyped
    <3> QED
      BY <1>0, <1>6, <2>2, <3>1, <3>4, CallUpdate DEF FillSglist, RestTyped
  <2>3. CASE /\ call' = [call EXCEPT ![t] = [call[t] EXCEPT !.pc = "free_put",
                                              !.pages = {}, !.ret = "ENOMEM"]]
             /\ UNCHANGED pins
    <3> DEFINE c == [call[t] EXCEPT !.pc = "free_put", !.pages = {}, !.ret = "ENOMEM"]
    <3>1. c \in Call /\ PointersSet(c)
      BY <1>c, <2>1 DEF Call
    <3> QED
      BY <1>0, <1>6, <2>3, <3>1, CallUpdate DEF FillSglist, RestTyped
  <2> QED
    BY <1>6, <2>2, <2>3 DEF FillSglist
<1>18. CASE ListAdd(t)
  <2>1. call[t].pin \in Pins /\ call[t].file \in Files
    BY <1>0, <1>18, Fields DEF ListAdd
  <2>2. CallTyped'
    BY <1>0, <1>18, <2>1, GotoTyped DEF ListAdd
  <2>3. PICK m \in Magics : pins' = [pins EXCEPT ![call[t].pin] =
             [pins[call[t].pin] EXCEPT !.owner = call[t].file, !.magic = m]]
    BY <1>18 DEF ListAdd
  <2> DEFINE d == [pins[call[t].pin] EXCEPT !.owner = call[t].file, !.magic = m]
  <2>6. d \in Pinning
    BY <1>0, <2>1 DEF RestTyped, Pinning
  <2>4. pins' \in [Pins -> Pinning]
    BY <1>0, <2>1, <2>3, <2>6 DEF RestTyped
  <2>5. pinning_list' \in [Files -> Seq(Pins)]
    <3>1. <<call[t].pin>> \o pinning_list[call[t].file] \in Seq(Pins)
      BY <1>0, <2>1 DEF RestTyped
    <3> QED
      BY <1>0, <1>18, <3>1 DEF ListAdd, RestTyped
  <2> QED
    BY <1>0, <1>18, <2>2, <2>4, <2>5 DEF ListAdd, RestTyped
<1>7. CASE Deliver(t)
  <2>1. call[t].pin \in Pins /\ call[t].file \in Files
    BY <1>0, <1>7, Fields DEF Deliver
  <2>2. RestTyped'
    BY <1>0, <1>7 DEF Deliver, RestTyped
  <2>3. CASE Finish(t, "0")
    BY <1>0, <2>2, <2>3, FinishTyped
  <2>4. ASSUME NEW r \in {"ENOMEM", "EAGAIN"},
               call' = [call EXCEPT ![t] = [call[t] EXCEPT !.pc = "free_put",
                                                           !.ret = r]]
        PROVE  CallTyped'
    <3> DEFINE c == [call[t] EXCEPT !.pc = "free_put", !.ret = r]
    <3>1. c \in Call /\ PointersSet(c)
      BY <1>c, <2>1 DEF Call
    <3> QED
      BY <1>0, <2>4, <3>1, CallUpdate
  <2> QED
    BY <1>7, <2>2, <2>3, <2>4 DEF Deliver
<1>8. CASE Lookup(t)
  <2>1. call[t].file \in Files
    BY <1>0, <1>8, Fields DEF Lookup
  <2>2. RestTyped'
    BY <1>0, <1>8 DEF Lookup, RestTyped
  <2>3. ASSUME NEW r \in Codes, Finish(t, r)
        PROVE  CallTyped'
    BY <1>0, <2>3, FinishTyped
  <2>4. ASSUME NEW h \in Handles, NEW q \in First(call[t].file),
               call' = [call EXCEPT ![t] = [call[t] EXCEPT !.pc = "walk",
                                                !.pin = q, !.want = h.pin]]
        PROVE  CallTyped'
    <3> DEFINE c == [call[t] EXCEPT !.pc = "walk", !.pin = q, !.want = h.pin]
    <3>1. q \in Pins /\ h.pin \in Magics
      BY <1>0, <2>1, FoundArePins DEF Handles
    <3>2. c \in Call /\ PointersSet(c)
      BY <1>c, <2>1, <3>1 DEF Call
    <3> QED
      BY <1>0, <2>4, <3>2, CallUpdate
  <2> QED
    BY <1>8, <2>2, <2>3, <2>4 DEF Lookup
<1>19. CASE Walk(t)
  <2>1. call[t].file \in Files /\ call[t].pin \in Pins
    BY <1>0, <1>19, Fields DEF Walk
  <2>2. RestTyped'
    BY <1>0, <1>19 DEF Walk, RestTyped
  <2>3. ASSUME Finish(t, "EINVAL") PROVE CallTyped'
    BY <1>0, <2>3, FinishTyped
  <2>4. ASSUME NEW l \in {"free_put", "sync"},
               call' = [call EXCEPT ![t] = [call[t] EXCEPT !.want = None, !.pc = l]]
        PROVE  CallTyped'
    <3> DEFINE c == [call[t] EXCEPT !.want = None, !.pc = l]
    <3>1. c \in Call /\ PointersSet(c)
      BY <1>c, <2>1 DEF Call
    <3> QED
      BY <1>0, <2>4, <3>1, CallUpdate
  <2>5. ASSUME NEW n \in After(call[t].pin),
               call' = [call EXCEPT ![t] = [call[t] EXCEPT !.pin = n]]
        PROVE  CallTyped'
    <3> DEFINE c == [call[t] EXCEPT !.pin = n]
    <3>1. pins[call[t].pin].owner \in Files
      BY <1>0, <1>19 DEF Walk, OnList, RestTyped
    <3>2. n \in Pins
      BY <1>0, <2>1, <3>1, FoundArePins
    <3>3. c \in Call /\ PointersSet(c)
      BY <1>c, <2>1, <3>2 DEF Call
    <3> QED
      BY <1>0, <2>5, <3>3, CallUpdate
  <2> QED
    BY <1>19, <2>2, <2>3, <2>4, <2>5 DEF Walk
<1>9. CASE Sync(t)
  <2>1. CallTyped'
    BY <1>0, <1>9, FinishTyped DEF Sync
  <2>2. RestTyped'
    BY <1>0, <1>9 DEF Sync, RestTyped
  <2> QED
    BY <2>1, <2>2
<1>10. CASE FreePut(t)
  <2>1. CallTyped'
    BY <1>0, <1>10, <1>c, GotoTyped DEF FreePut
  <2> DEFINE q == call[t].pin
             d == [pins[q] EXCEPT !.held = {}]
  <2>2. q \in Pins
    BY <1>0, <1>10, Fields DEF FreePut
  <2>3. d \in Pinning
    BY <1>0, <2>2 DEF RestTyped, Pinning
  <2>4. CASE PutAll(pins[q].pages) /\ pins' = [pins EXCEPT ![q] = d]
    <3>1. pins' \in [Pins -> Pinning]
      BY <1>0, <2>2, <2>3, <2>4 DEF RestTyped
    <3>2. refs' \in [Pages -> Int]
      BY <1>0, <2>4 DEF RestTyped, PutAll
    <3> QED
      BY <1>0, <1>10, <2>1, <3>1, <3>2 DEF FreePut, RestTyped
  <2>5. CASE UNCHANGED <<pins, refs>>
    BY <1>0, <1>10, <2>1, <2>5 DEF FreePut, RestTyped
  <2> QED
    BY <1>10, <2>4, <2>5 DEF FreePut
<1>20. CASE FreeSg(t)
  <2>1. CallTyped'
    BY <1>0, <1>20, <1>c, GotoTyped DEF FreeSg
  <2> DEFINE q == call[t].pin
             d == [pins[q] EXCEPT !.state = "drained", !.pages = {}]
  <2>2. q \in Pins
    BY <1>0, <1>20, Fields DEF FreeSg
  <2>3. d \in Pinning
    <3>1. pins[q] \in Pinning
      BY <1>0, <2>2 DEF RestTyped
    <3> QED
      BY <3>1 DEF Pinning, PinStates
  <2>4. pins' \in [Pins -> Pinning]
    BY <1>0, <1>20, <2>2, <2>3 DEF FreeSg, RestTyped
  <2> QED
    BY <1>0, <1>20, <2>1, <2>4 DEF FreeSg, RestTyped
<1>11. CASE FreeDel(t)
  <2>1. call[t].pin \in Pins /\ call[t].file \in Files
    BY <1>0, <1>11, Fields DEF FreeDel
  <2>2. PICK l \in {"rel_loop", "return"} :
             call' = [call EXCEPT ![t] = [call[t] EXCEPT !.pin = None, !.pc = l]]
    BY <1>11 DEF FreeDel
  <2> DEFINE c == [call[t] EXCEPT !.pin = None, !.pc = l]
  <2>3. c \in Call /\ PointersSet(c)
    BY <1>c, <2>1 DEF Call
  <2>4. CallTyped'
    BY <1>0, <2>2, <2>3, CallUpdate
  <2>5. FreePin \in Pinning
    BY DEF FreePin, Pinning, PinStates
  <2>6. pinning_list' \in [Files -> Seq(Pins)]
    <3>1. PICK f \in Files : \E i \in 1..Len(pinning_list[f]) :
             pinning_list' = [pinning_list EXCEPT ![f] = RemoveAt(pinning_list[f], i)]
      BY <1>0, <1>11 DEF FreeDel, Unlink, OnList, RestTyped
    <3>2. PICK i \in 1..Len(pinning_list[f]) :
             pinning_list' = [pinning_list EXCEPT ![f] = RemoveAt(pinning_list[f], i)]
      BY <3>1
    <3>3. RemoveAt(pinning_list[f], i) \in Seq(Pins)
      BY <1>0, <3>2, RemoveAtIsSeq DEF RestTyped
    <3> QED
      BY <1>0, <3>2, <3>3 DEF RestTyped
  <2>7. RestTyped'
    BY <1>0, <1>11, <2>1, <2>5, <2>6 DEF FreeDel, RestTyped
  <2> QED
    BY <2>4, <2>7
<1>12. CASE RelLoop(t)
  <2>1. call[t].file \in Files
    BY <1>0, <1>12, Fields DEF RelLoop
  <2>2. RestTyped'
    BY <1>0, <1>12 DEF RelLoop, RestTyped
  <2>3. CASE Goto(t, "rel_lock")
    BY <1>0, <2>1, <2>2, <2>3, GotoTyped
  <2>4. ASSUME NEW q \in Pins,
               call' = [call EXCEPT ![t] = [call[t] EXCEPT !.pc = "free_put", !.pin = q]]
        PROVE  CallTyped'
    <3> DEFINE c == [call[t] EXCEPT !.pc = "free_put", !.pin = q]
    <3>1. c \in Call /\ PointersSet(c)
      BY <1>c, <2>1 DEF Call
    <3> QED
      BY <1>0, <2>4, <3>1, CallUpdate
  <2> QED
    BY <1>0, <1>12, <2>1, <2>2, <2>3, <2>4, FoundArePins DEF RelLoop
<1>13. CASE RelLock(t)
  BY <1>0, <1>13, <1>c, GotoTyped DEF RelLock, RestTyped
<1>14. CASE RelDel(t)
  <2>1. RestTyped'
    BY <1>0, <1>14 DEF RelDel, RestTyped
  <2>2. CallTyped'
    BY <1>0, <1>14, GotoTyped, FinishTyped DEF RelDel
  <2> QED
    BY <2>1, <2>2
<1>15. CASE ExitLoop(t)
  <2>1. RestTyped'
    BY <1>0, <1>15 DEF ExitLoop, RestTyped
  <2>2. CASE Finish(t, "0")
    BY <1>0, <2>1, <2>2, FinishTyped
  <2>3. ASSUME NEW f \in Files,
               call' = [call EXCEPT ![t] = [call[t] EXCEPT !.pc = "rel_loop", !.file = f]]
        PROVE  CallTyped'
    <3> DEFINE c == [call[t] EXCEPT !.pc = "rel_loop", !.file = f]
    <3>1. c \in Call /\ PointersSet(c)
      BY <1>c DEF Call
    <3> QED
      BY <1>0, <2>3, <3>1, CallUpdate
  <2> QED
    BY <1>0, <1>15, <2>1, <2>2, <2>3 DEF ExitLoop, RestTyped
<1>16. CASE UseAfterFree(t) \/ BadListDel(t) \/ WildPut(t) \/ CodeGone(t)
  BY <1>0, <1>16 DEF UseAfterFree, BadListDel, WildPut, CodeGone, Crash, CallTyped, RestTyped, Faults
<1>17. CASE Return(t)
  <2>1. IdleCall \in Call /\ PointersSet(IdleCall)
    BY DEF IdleCall, Call
  <2> QED
    BY <1>0, <1>17, <2>1, CallUpdate DEF Return, RestTyped
<1> QED
    BY <1>1, <1>2, <1>3, <1>4, <1>5, <1>6, <1>7, <1>8, <1>9, <1>10, <1>11,
       <1>12, <1>13, <1>14, <1>15, <1>16, <1>17, <1>18, <1>19, <1>20 DEF Step

(* Every variable of the driver keeps its type, and no thread dereferences *)
(* a NULL pinning or proc_info, whoever calls what and whatever fails.     *)
THEOREM TypeCorrect == Spec => []TypeOK
<1>1. Init => TypeOK
    BY TypeInit
<1>2. TypeOK /\ [Next]_vars => TypeOK'
  <2> SUFFICES ASSUME TypeOK, [Next]_vars PROVE TypeOK'
      OBVIOUS
  <2>1. CASE PinnerInit
      BY <2>1 DEF PinnerInit, TypeOK
  <2>2. ASSUME NEW t \in Threads, Entry(t) PROVE TypeOK'
      BY <2>2, TypeEntry
  <2>3. ASSUME NEW t \in Threads, Step(t) PROVE TypeOK'
      BY <2>3, TypeStep
  <2>4. CASE UNCHANGED vars
      BY <2>4 DEF vars, TypeOK
  <2> QED
      BY <2>1, <2>2, <2>3, <2>4 DEF Next
<1> QED
    BY <1>1, <1>2, PTL DEF Spec

-----------------------------------------------------------------------------
(* users_mutex protects the list of users: UsersExclusive is inductive with *)
(* the type invariant.                                                     *)

(* The statements that run with the mutex held. *)
Holding == {"open_add", "rel_del"}

(* A step of one thread that neither takes nor releases the mutex. *)
LEMMA MutexUntouched ==
    ASSUME CallTyped, UsersExclusive, NEW t \in Threads, NEW c,
           call' = [call EXCEPT ![t] = c],
           call[t].pc \notin Holding, c.pc \notin Holding,
           UNCHANGED mutex
    PROVE  UsersExclusive'
BY DEF CallTyped, UsersExclusive, Holding

LEMMA MutexTaken ==
    ASSUME TypeOK, UsersExclusive, NEW t \in Threads, NEW l \in Holding,
           Goto(t, l), mutex = None, mutex' = t
    PROVE  UsersExclusive'
<1>1. None \notin Threads
  BY PinnerAssumption DEF PinnerAssumption
<1>2. /\ call'[t].pc = l
      /\ \A u \in Threads \ {t} : call'[u] = call[u]
  BY DEF Goto, TypeOK, Call
<1>3. \A u \in Threads \ {t} : call[u].pc \notin Holding
  BY <1>1 DEF UsersExclusive, Holding
<1> QED
  BY <1>2, <1>3 DEF UsersExclusive, Holding

LEMMA MutexReleased ==
    ASSUME CallTyped, UsersExclusive, NEW t \in Threads, NEW c,
           call' = [call EXCEPT ![t] = c],
           call[t].pc \in Holding, c.pc \notin Holding, mutex' = None
    PROVE  UsersExclusive'
<1>1. None \notin Threads
  BY PinnerAssumption DEF PinnerAssumption
<1>2. /\ call'[t] = c
      /\ \A u \in Threads \ {t} : call'[u] = call[u]
  BY DEF CallTyped
<1>3. mutex = t /\ \A u \in Threads \ {t} : call[u].pc \notin Holding
  BY DEF UsersExclusive, Holding
<1> QED
  BY <1>1, <1>2, <1>3 DEF UsersExclusive, Holding

(* The steps of a call that only move its own record. *)
LEMMA MutexGoto ==
    ASSUME CallTyped, UsersExclusive, NEW t \in Threads, NEW l, Goto(t, l),
           call[t].pc \notin Holding, l \notin Holding, UNCHANGED mutex
    PROVE  UsersExclusive'
<1> DEFINE c == [call[t] EXCEPT !.pc = l]
<1>1. c.pc = l /\ call' = [call EXCEPT ![t] = c]
  BY DEF Goto, CallTyped, Call
<1> QED
  BY <1>1, MutexUntouched

LEMMA MutexFinish ==
    ASSUME CallTyped, UsersExclusive, NEW t \in Threads, NEW r, Finish(t, r),
           call[t].pc \notin Holding, UNCHANGED mutex
    PROVE  UsersExclusive'
<1> DEFINE c == [call[t] EXCEPT !.pc = "return", !.pages = {},
                              !.want = None, !.ret = r]
<1>1. c.pc = "return" /\ call' = [call EXCEPT ![t] = c]
  BY DEF Finish, CallTyped, Call
<1> QED
  BY <1>1, MutexUntouched DEF Holding

LEMMA MutexCrash ==
    ASSUME UsersExclusive, NEW x, Crash(x)
    PROVE  UsersExclusive'
BY DEF Crash, UsersExclusive

-----------------------------------------------------------------------------
LEMMA MutexEntry ==
    ASSUME TypeOK, UsersExclusive, NEW t \in Threads, Entry(t)
    PROVE  UsersExclusive'
<1>0. CallTyped /\ call[t].pc = "idle"
  BY DEF TypeOK, CallTyped, Entry
<1>b. ASSUME NEW o, NEW f, NEW l, NEW S, l \notin Holding, Begin(t, o, f, l, S),
             UNCHANGED mutex
      PROVE  UsersExclusive'
  BY <1>0, <1>b, MutexUntouched DEF Begin, Holding
<1>d. ASSUME NEW o, NEW f, NEW r, UNCHANGED mutex,
             call' = [call EXCEPT ![t] = [IdleCall EXCEPT !.pc = "return",
                                     !.op = o, !.file = f, !.ret = r]]
      PROVE  UsersExclusive'
  <2> DEFINE c == [IdleCall EXCEPT !.pc = "return", !.op = o, !.file = f, !.ret = r]
  <2>1. c.pc = "return"
    BY DEF IdleCall
  <2> QED
    BY <1>0, <1>d, <2>1, MutexUntouched DEF Holding
<1> USE DEF Holding
<1>1. CASE ExitEntry(t)
  BY <1>1, <1>b DEF ExitEntry
<1>2. ASSUME NEW f \in Files, OpenEntry(t, f) PROVE UsersExclusive'
  <2>1. UNCHANGED mutex
    BY <1>2 DEF OpenEntry
  <2>2. CASE Begin(t, "open", f, "open_lock", {})
    BY <1>b, <2>1, <2>2
  <2>3. CASE call' = [call EXCEPT ![t] = [IdleCall EXCEPT !.pc = "return",
                              !.op = "open", !.file = f, !.ret = "ENOMEM"]]
    BY <1>d, <2>1, <2>3
  <2> QED
    BY <1>2, <2>2, <2>3 DEF OpenEntry
<1>3. ASSUME NEW f \in Files, CloseEntry(t, f) PROVE UsersExclusive'
  BY <1>3, <1>b DEF CloseEntry
<1>4. ASSUME NEW f \in Files, CallGone(f) PROVE UsersExclusive'
  BY <1>4, MutexCrash DEF CallGone
<1>5. ASSUME NEW f \in Files, NEW r \in Codes, WriteRejected(t, f, r)
      PROVE  UsersExclusive'
  BY <1>5, <1>d DEF WriteRejected
<1>6. ASSUME NEW f \in Files, NEW buf \in SUBSET Pages, WritePin(t, f, buf)
      PROVE  UsersExclusive'
  <2>1. UNCHANGED mutex
    BY <1>6 DEF WritePin
  <2>2. CASE Begin(t, "pin", f, "gup", buf)
    BY <1>b, <2>1, <2>2
  <2>3. ASSUME NEW r \in {"ENOMEM", "EINVAL"},
               call' = [call EXCEPT ![t] = [IdleCall EXCEPT !.pc = "return",
                              !.op = "pin", !.file = f, !.ret = r]]
        PROVE  UsersExclusive'
    BY <1>d, <2>1, <2>3
  <2> QED
    BY <1>6, <2>2, <2>3 DEF WritePin
<1>7. ASSUME NEW f \in Files, NEW o \in HandleOps, WriteHandle(t, f, o)
      PROVE  UsersExclusive'
  BY <1>7, <1>b DEF WriteHandle
<1> QED
  BY <1>1, <1>2, <1>3, <1>4, <1>5, <1>6, <1>7 DEF Entry

LEMMA MutexStep ==
    ASSUME TypeOK, UsersExclusive, NEW t \in Threads, Step(t)
    PROVE  UsersExclusive'
<1>0. CallTyped /\ call[t] \in Call
  BY DEF TypeOK, CallTyped
<1> USE DEF Holding
<1>1. CASE OpenLock(t)
  BY <1>1, MutexTaken DEF OpenLock
<1>2. CASE RelLock(t)
  BY <1>2, MutexTaken DEF RelLock
<1>3. CASE OpenAdd(t)
  <2> DEFINE c == [call[t] EXCEPT !.pc = "return", !.pages = {}, !.want = None,
                                !.ret = "0"]
  <2>1. c.pc = "return" /\ call' = [call EXCEPT ![t] = c]
    BY <1>0, <1>3 DEF OpenAdd, Finish, Call
  <2> QED
    BY <1>0, <1>3, <2>1, MutexReleased DEF OpenAdd
<1>4. CASE RelDel(t)
  <2>1. call[t].pc = "rel_del" /\ mutex' = None
    BY <1>4 DEF RelDel
  <2>2. CASE Goto(t, "exit_loop")
    <3> DEFINE c == [call[t] EXCEPT !.pc = "exit_loop"]
    <3>1. c.pc = "exit_loop" /\ call' = [call EXCEPT ![t] = c]
      BY <1>0, <2>2 DEF Goto, Call
    <3> HIDE DEF c
    <3> QED
      BY <1>0, <2>1, <3>1, MutexReleased
  <2>3. CASE Finish(t, "0")
    <3> DEFINE c == [call[t] EXCEPT !.pc = "return", !.pages = {}, !.want = None,
                                !.ret = "0"]
    <3>1. c.pc = "return" /\ call' = [call EXCEPT ![t] = c]
      BY <1>0, <2>3 DEF Finish, Call
    <3> HIDE DEF c
    <3> QED
      BY <1>0, <2>1, <3>1, MutexReleased
  <2> QED
    BY <1>4, <2>2, <2>3 DEF RelDel
<1>5. CASE GetUserPages(t)
  BY <1>0, <1>5, MutexGoto DEF GetUserPages
<1>6. CASE GetUserPagesShort(t)
  BY <1>0, <1>6, MutexFinish, MutexCrash DEF GetUserPagesShort
<1>7. CASE NewPinning(t)
  <2>1. ASSUME NEW q \in Pins,
               call' = [call EXCEPT ![t] = [call[t] EXCEPT !.pc = "fill", !.pin = q]]
        PROVE  UsersExclusive'
    BY <1>0, <1>7, <2>1, MutexUntouched DEF NewPinning, Call
  <2> QED
    BY <1>0, <1>7, <2>1, MutexFinish DEF NewPinning
<1>8. CASE FillSglist(t)
  <2>1. call[t].pc = "fill" /\ UNCHANGED mutex
    BY <1>8 DEF FillSglist
  <2>2. CASE call' = [call EXCEPT ![t] = [call[t] EXCEPT !.pc = "list_add",
                                                         !.pages = {}]]
    <3> DEFINE c == [call[t] EXCEPT !.pc = "list_add", !.pages = {}]
    <3>1. c.pc = "list_add" /\ call' = [call EXCEPT ![t] = c]
      BY <1>0, <2>2 DEF Call
    <3> HIDE DEF c
    <3> QED
      BY <1>0, <2>1, <3>1, MutexUntouched
  <2>3. CASE call' = [call EXCEPT ![t] = [call[t] EXCEPT !.pc = "free_put",
                                            !.pages = {}, !.ret = "ENOMEM"]]
    <3> DEFINE c == [call[t] EXCEPT !.pc = "free_put", !.pages = {},
                                    !.ret = "ENOMEM"]
    <3>1. c.pc = "free_put" /\ call' = [call EXCEPT ![t] = c]
      BY <1>0, <2>3 DEF Call
    <3> HIDE DEF c
    <3> QED
      BY <1>0, <2>1, <3>1, MutexUntouched
  <2> QED
    BY <1>8, <2>2, <2>3 DEF FillSglist
<1>9. CASE Deliver(t)
  <2>1. ASSUME NEW r,
               call' = [call EXCEPT ![t] = [call[t] EXCEPT !.pc = "free_put",
                                                           !.ret = r]]
        PROVE  UsersExclusive'
    BY <1>0, <1>9, <2>1, MutexUntouched DEF Deliver, Call
  <2> QED
    BY <1>0, <1>9, <2>1, MutexFinish DEF Deliver
<1>10. CASE Lookup(t)
  <2>1. call[t].pc = "lookup" /\ UNCHANGED mutex
    BY <1>10 DEF Lookup
  <2>2. ASSUME NEW q, NEW m,
               call' = [call EXCEPT ![t] = [call[t] EXCEPT !.pc = "walk",
                                                !.pin = q, !.want = m]]
        PROVE  UsersExclusive'
    <3> DEFINE c == [call[t] EXCEPT !.pc = "walk", !.pin = q, !.want = m]
    <3>1. c.pc = "walk" /\ call' = [call EXCEPT ![t] = c]
      BY <1>0, <2>2 DEF Call
    <3> HIDE DEF c
    <3> QED
      BY <1>0, <2>1, <3>1, MutexUntouched
  <2>3. ASSUME NEW r, Finish(t, r) PROVE UsersExclusive'
    BY <1>0, <2>1, <2>3, MutexFinish
  <2> QED
    BY <1>10, <2>2, <2>3 DEF Lookup
<1>18. CASE ListAdd(t)
  BY <1>0, <1>18, MutexGoto DEF ListAdd
<1>19. CASE Walk(t)
  <2>1. call[t].pc = "walk" /\ UNCHANGED mutex
    BY <1>19 DEF Walk
  <2>2. ASSUME NEW l \in {"free_put", "sync"},
               call' = [call EXCEPT ![t] = [call[t] EXCEPT !.want = None, !.pc = l]]
        PROVE  UsersExclusive'
    <3> DEFINE c == [call[t] EXCEPT !.want = None, !.pc = l]
    <3>1. c.pc = l /\ call' = [call EXCEPT ![t] = c]
      BY <1>0, <2>2 DEF Call
    <3> HIDE DEF c
    <3> QED
      BY <1>0, <2>1, <3>1, MutexUntouched
  <2>3. ASSUME NEW n, call' = [call EXCEPT ![t] = [call[t] EXCEPT !.pin = n]]
        PROVE  UsersExclusive'
    <3> DEFINE c == [call[t] EXCEPT !.pin = n]
    <3>1. c.pc = "walk" /\ call' = [call EXCEPT ![t] = c]
      BY <1>0, <2>1, <2>3 DEF Call
    <3> HIDE DEF c
    <3> QED
      BY <1>0, <2>1, <3>1, MutexUntouched
  <2> QED
    BY <1>0, <1>19, <2>1, <2>2, <2>3, MutexFinish DEF Walk
<1>11. CASE Sync(t)
  BY <1>0, <1>11, MutexFinish DEF Sync
<1>12. CASE FreePut(t)
  BY <1>0, <1>12, MutexGoto DEF FreePut
<1>20. CASE FreeSg(t)
  BY <1>0, <1>20, MutexGoto DEF FreeSg
<1>13. CASE FreeDel(t)
  <2> DEFINE c == [call[t] EXCEPT !.pin = None,
                  !.pc = IF call[t].op \in {"release", "exit"} THEN "rel_loop"
                         ELSE "return"]
  <2>1. c.pc \notin Holding /\ call' = [call EXCEPT ![t] = c]
    BY <1>0, <1>13 DEF FreeDel, Call
  <2> QED
    BY <1>0, <1>13, <2>1, MutexUntouched DEF FreeDel
<1>14. CASE RelLoop(t)
  <2>1. ASSUME NEW q,
               call' = [call EXCEPT ![t] = [call[t] EXCEPT !.pc = "free_put",
                                                           !.pin = q]]
        PROVE  UsersExclusive'
    BY <1>0, <1>14, <2>1, MutexUntouched DEF RelLoop, Call
  <2> QED
    BY <1>0, <1>14, <2>1, MutexGoto DEF RelLoop
<1>15. CASE ExitLoop(t)
  <2>1. ASSUME NEW f \in users,
               call' = [call EXCEPT ![t] = [call[t] EXCEPT !.pc = "rel_loop",
                                                           !.file = f]]
        PROVE  UsersExclusive'
    BY <1>0, <1>15, <2>1, MutexUntouched DEF ExitLoop, Call
  <2> QED
    BY <1>0, <1>15, <2>1, MutexFinish DEF ExitLoop
<1>16. CASE UseAfterFree(t) \/ BadListDel(t) \/ WildPut(t) \/ CodeGone(t)
  BY <1>16, MutexCrash DEF UseAfterFree, BadListDel, WildPut, CodeGone
<1>17. CASE Return(t)
  BY <1>0, <1>17, MutexUntouched DEF Return, IdleCall
<1> QED
  BY <1>1, <1>2, <1>3, <1>4, <1>5, <1>6, <1>7, <1>8, <1>9, <1>10, <1>11, <1>12,
     <1>13, <1>14, <1>15, <1>16, <1>17, <1>18, <1>19, <1>20 DEF Step

(* For any files, threads and pinnings, whatever fails and however the     *)
(* module is removed: a thread that changes the list of users through open *)
(* or release holds users_mutex, and no other thread does.                 *)
THEOREM MutexProtects == Spec => []UsersExclusive
<1>1. Init => UsersExclusive
  BY PinnerAssumption DEF Init, UsersExclusive, IdleCall, PinnerAssumption
<1>2. TypeOK /\ UsersExclusive /\ [Next]_vars => UsersExclusive'
  <2> SUFFICES ASSUME TypeOK, UsersExclusive, [Next]_vars PROVE UsersExclusive'
    OBVIOUS
  <2>1. CASE PinnerInit
    BY <2>1 DEF PinnerInit, UsersExclusive
  <2>2. ASSUME NEW t \in Threads, Entry(t) PROVE UsersExclusive'
    BY <2>2, MutexEntry
  <2>3. ASSUME NEW t \in Threads, Step(t) PROVE UsersExclusive'
    BY <2>3, MutexStep
  <2>4. CASE UNCHANGED vars
    BY <2>4 DEF vars, UsersExclusive
  <2> QED
    BY <2>1, <2>2, <2>3, <2>4 DEF Next
<1> QED
  BY <1>1, <1>2, TypeCorrect, PTL DEF Spec

=============================================================================
