------------------------- MODULE PinnerSafetyProofs -------------------------
(***************************************************************************)
(* What the pinner driver guarantees when its users keep to the rules: no  *)
(* two threads are inside calls on one file, the module is removed when    *)
(* idle, and there is memory for every scatterlist.  Every other kernel    *)
(* service may fail, and so may get_user_pages_fast where a theorem says   *)
(* so.  Without these rules the driver leaks pages, puts pages twice and   *)
(* uses freed memory: the runs of pinner_sglist_leak, pinner_double_put,   *)
(* pinner_short_put and pinner_shared_fd show how.                         *)
(***************************************************************************)
EXTENDS PinnerProofs

Orderly == ~SharedFd /\ ~RmmodBusy /\ "sglist" \notin Failures

Disciplined == Orderly /\ "gup" \notin Failures

-----------------------------------------------------------------------------
(* Lists. *)

Once(l) == \A i, j \in 1..Len(l) : l[i] = l[j] => i = j

LEMMA PrependedList ==
    ASSUME NEW S, NEW l \in Seq(S), NEW q \in S, Once(l), ~Contains(l, q)
    PROVE  /\ Once(<<q>> \o l)
           /\ \A p : Contains(<<q>> \o l, p) <=> p = q \/ Contains(l, p)
<1> DEFINE m == <<q>> \o l
<1>1. /\ Len(l) \in Nat /\ Len(m) = Len(l) + 1 /\ m[1] = q
      /\ \A i \in 1..Len(l) : m[i + 1] = l[i]
  OBVIOUS
<1>2. \A i \in 1..Len(l) : l[i] # q
  BY DEF Contains
<1> HIDE DEF m
<1>3. \A i \in 1..Len(m) : i = 1 \/ (i - 1 \in 1..Len(l) /\ m[i] = l[i - 1])
  <2> SUFFICES ASSUME NEW i \in 1..Len(m), i # 1
               PROVE  i - 1 \in 1..Len(l) /\ m[i] = l[i - 1]
    OBVIOUS
  <2>1. i - 1 \in 1..Len(l) /\ (i - 1) + 1 = i
    BY <1>1
  <2> QED
    BY <1>1, <2>1
<1>4. Once(m)
  <2> SUFFICES ASSUME NEW i \in 1..Len(m), NEW j \in 1..Len(m), m[i] = m[j]
               PROVE  i = j
    BY DEF Once
  <2>1. CASE i = 1 \/ j = 1
    BY <1>1, <1>2, <1>3, <2>1
  <2>2. CASE i # 1 /\ j # 1
    <3>1. i - 1 = j - 1
      BY <1>3, <2>2 DEF Once
    <3> QED
      BY <3>1, <1>1
  <2> QED
    BY <2>1, <2>2
<1>5. ASSUME NEW p PROVE Contains(m, p) <=> p = q \/ Contains(l, p)
  <2>1. 1 \in 1..Len(m) /\ \A i \in 1..Len(l) : i + 1 \in 1..Len(m)
    BY <1>1
  <2> QED
    BY <1>1, <1>3, <2>1 DEF Contains
<1> QED
  BY <1>4, <1>5 DEF m

LEMMA RemovedList ==
    ASSUME NEW S, NEW l \in Seq(S), NEW k \in 1..Len(l), Once(l)
    PROVE  /\ Once(RemoveAt(l, k))
           /\ \A p : Contains(RemoveAt(l, k), p) <=> p # l[k] /\ Contains(l, p)
<1> DEFINE m == RemoveAt(l, k)
<1>1. /\ Len(l) \in Nat /\ k \in 1..Len(l) /\ Len(m) = Len(l) - 1
      /\ \A j \in 1..(Len(l) - 1) : m[j] = IF j < k THEN l[j] ELSE l[j + 1]
  BY RemoveAtIsSeq
<1> HIDE DEF m
(* Where the entry j of the shorter list comes from. *)
<1> DEFINE From(j) == IF j < k THEN j ELSE j + 1
<1>2. ASSUME NEW j \in 1..Len(m)
      PROVE  From(j) \in 1..Len(l) /\ From(j) # k /\ m[j] = l[From(j)]
  BY <1>1
<1>3. \A i, j \in 1..Len(m) : From(i) = From(j) => i = j
  BY <1>1
<1>4. ASSUME NEW i \in 1..Len(l), i # k
      PROVE  \E j \in 1..Len(m) : From(j) = i
  <2>1. CASE i < k
    BY <1>1, <2>1
  <2>2. CASE i > k
    <3>1. i - 1 \in 1..Len(m) /\ From(i - 1) = i
      BY <1>1, <2>2
    <3> QED
      BY <3>1
  <2> QED
    BY <1>1, <1>4, <2>1, <2>2
<1> HIDE DEF From
<1>5. Once(m)
  BY <1>2, <1>3 DEF Once
<1>6. ASSUME NEW p PROVE Contains(m, p) <=> p # l[k] /\ Contains(l, p)
  <2>1. ASSUME Contains(m, p) PROVE p # l[k] /\ Contains(l, p)
    BY <1>1, <1>2, <2>1 DEF Contains, Once
  <2>2. ASSUME p # l[k], Contains(l, p) PROVE Contains(m, p)
    <3>1. PICK i \in 1..Len(l) : l[i] = p
      BY <2>2 DEF Contains
    <3>2. PICK j \in 1..Len(m) : From(j) = i
      BY <1>4, <2>2, <3>1
    <3> QED
      BY <1>2, <3>1, <3>2 DEF Contains
  <2> QED
    BY <2>1, <2>2
<1> QED
  BY <1>5, <1>6 DEF m

-----------------------------------------------------------------------------
(* The invariant: first of one call, by its place, then of the driver.     *)

(* Where each operation may be. *)
InOp(c) ==
    \/ c.pc \in {"idle", "return"}
    \/ c.op = "open" /\ c.pc \in {"open_lock", "open_add"}
    \/ c.op = "pin" /\ c.pc \in {"gup", "new_pin", "fill", "list_add", "deliver",
                                 "free_put", "free_sg", "free_del"}
    \/ c.op = "unpin" /\ c.pc \in {"lookup", "walk", "free_put", "free_sg", "free_del"}
    \/ c.op = "flush" /\ c.pc \in {"lookup", "walk", "sync"}
    \/ c.op = "release" /\ c.pc \in {"rel_loop", "free_put", "free_sg", "free_del",
                                     "rel_lock", "rel_del"}
    \/ c.op = "exit" /\ c.pc = "exit_loop"

(* Whether user space holds the call's file, and the list of users has it. *)
FileAt(c) ==
    c.pc \notin {"idle", "return"} =>
        /\ c.op = "open" => c.file \notin users
        /\ c.op \in {"pin", "unpin", "flush"} => c.file \in opened
        /\ c.op = "release" => c.file \in users \ opened

IsOwn(c, state) == pins[c.pin].state = state /\ pins[c.pin].owner = c.file

(* A pinning with a scatterlist and the reference to each of its pages. *)
Whole(q) == /\ pins[q].state = "live"
            /\ pins[q].held = pins[q].pages
            /\ Cardinality(pins[q].pages) \in 1..MaxPages

(* What the call's pinning pointer points at. *)
PinAt(c) ==
    /\ c.pc = "fill" => pins[c.pin] = BarePin
    /\ c.pc = "list_add" => Whole(c.pin) /\ pins[c.pin].owner = None
    /\ c.pc \in {"deliver", "walk", "sync", "free_put"} =>
          IsOwn(c, "live") /\ Whole(c.pin)
    /\ c.pc = "free_sg" => IsOwn(c, "live") /\ pins[c.pin].held = {}
    /\ c.pc = "free_del" => IsOwn(c, "drained") /\ pins[c.pin].held = {}
    /\ c.pc \in {"rel_lock", "rel_del"} => First(c.file) = {}

(* How far a pin command has come. *)
PinCommand(c) ==
    /\ c.pages # {} => c.pc \in {"gup", "new_pin", "fill"}
    /\ c.pc \in {"gup", "new_pin", "fill"} => Cardinality(c.pages) \in 1..MaxPages
    /\ c.pc \in {"gup", "new_pin"} => c.pin = None
    /\ c.op = "pin" /\ c.pc \in {"free_put", "free_sg", "free_del"} => c.ret # "0"
    /\ c.op = "pin" /\ c.pc = "return" =>
         IF c.ret = "0" THEN /\ c.pin \in Pins /\ c.file \in Files
                             /\ IsOwn(c, "live") /\ Whole(c.pin)
                        ELSE c.pin = None

CallOK(c) == InOp(c) /\ FileAt(c) /\ PinAt(c) /\ PinCommand(c)

(* No two calls are on one file. *)
Active(t) == call[t].pc # "idle" /\ call[t].op # "exit"

OneCall == \A t, u \in Threads :
              Active(t) /\ Active(u) /\ call[t].file = call[u].file => t = u

(* A struct pinning is unallocated, on the list of a file that is known,   *)
(* or in the hands of a call that is building it or freeing it.            *)
At(t, l, q) == call[t].pc = l /\ call[t].pin = q

PinsKnown == \A q \in Pins :
    /\ pins[q].state = "free" => pins[q] = FreePin
    /\ pins[q].state = "bare" => pins[q] = BarePin /\ \E t \in Threads : At(t, "fill", q)
    /\ pins[q].state = "drained" => \E t \in Threads : At(t, "free_del", q)
    /\ pins[q].state = "live" =>
          \/ pins[q].owner = None /\ \E t \in Threads : At(t, "list_add", q)
          \/ pins[q].owner \in users /\ Whole(q)
          \/ pins[q].owner \in users /\ \E t \in Threads : At(t, "free_sg", q)

(* Until list_add an address is known to one call only. *)
Builds(t) == call[t].pc \in {"fill", "list_add"}

OneBuilder == \A t, u \in Threads :
                 Builds(t) /\ Builds(u) /\ call[t].pin = call[u].pin => t = u

(* A list names the pinnings of its file, each once. *)
ListOf(f, l) == /\ Once(l)
                /\ \A q \in Pins : pins[q].owner = f <=> Contains(l, q)
                /\ f \notin users => l = <<>>

ListsKnown == \A f \in Files : ListOf(f, pinning_list[f])

(* A file that user space has let go of is being released. *)
Releasing(t, f) == Running(t) /\ call[t].op = "release" /\ call[t].file = f

FilesKnown == /\ opened \subseteq users
              /\ \A f \in users \ opened : \E t \in Threads : Releasing(t, f)

(* pinner_exit runs alone, and finds nothing to free. *)
ExitAlone == \A t \in Threads : call[t].pc = "exit_loop" =>
                /\ module = "exiting" /\ users = {}
                /\ \A u \in Threads \ {t} : call[u].pc = "idle"

CallsOK == \A t \in Threads : CallOK(call[t])

SafeInv == /\ CallsOK /\ OneCall /\ PinsKnown /\ OneBuilder /\ ListsKnown
           /\ FilesKnown /\ ExitAlone

-----------------------------------------------------------------------------
(* What the invariant says of the lists. *)

LEMMA FirstIn ==
    ASSUME TypeOK, NEW f \in Files
    PROVE  /\ \A q \in First(f) : Contains(pinning_list[f], q)
           /\ First(f) = {} => /\ pinning_list[f] = <<>>
                              /\ \A q : ~Contains(pinning_list[f], q)
<1> DEFINE l == pinning_list[f]
<1>1. DOMAIN l = 1..Len(l) /\ Len(l) \in Nat
  BY DEF TypeOK
<1>2. 1..Len(l) # {} => 1 \in 1..Len(l)
  BY <1>1
<1> HIDE DEF l
<1>3. First(f) = {l[i] : i \in {1} \cap (1..Len(l))}
  BY <1>1 DEF First, l
<1>4. l \in Seq(Pins)
  BY DEF TypeOK, l
<1>5. First(f) = {} => l = <<>>
  <2>1. First(f) = {} => Len(l) = 0
    BY <1>1, <1>2, <1>3
  <2> QED
    BY <1>4, <2>1
<1> QED
  BY <1>2, <1>3, <1>5 DEF Contains, l

LEMMA AfterIn ==
    ASSUME NEW q, NEW n \in After(q)
    PROVE  Contains(pinning_list[pins[q].owner], n)
BY DEF After, Contains

(* A pinning with an owner is on that file's list, which is known. *)
LEMMA OwnedIsListed ==
    ASSUME TypeOK, ListsKnown, NEW q \in Pins, pins[q].owner # None
    PROVE  OnList(q) /\ pins[q].owner \in users
<1>1. pins[q].owner \in Files
  BY DEF TypeOK, Pinning
<1>2. Contains(pinning_list[pins[q].owner], q)
  BY <1>1 DEF ListsKnown, ListOf
<1>3. pinning_list[pins[q].owner] # <<>>
  BY <1>2 DEF Contains
<1> QED
  BY <1>1, <1>2, <1>3 DEF OnList, ListsKnown, ListOf

(* On the list of a file that a call is working on, every pinning is       *)
(* whole, unless the call itself is freeing it.                            *)
LEMMA ListedWhole ==
    ASSUME TypeOK, SafeInv, NEW t \in Threads, Active(t), call[t].file \in Files,
           call[t].pc \notin {"free_sg", "free_del"},
           NEW q \in Pins, Contains(pinning_list[call[t].file], q)
    PROVE  Whole(q) /\ pins[q].state = "live" /\ pins[q].owner = call[t].file
<1>1. pins[q].owner = call[t].file /\ call[t].file # None
  BY PinnerAssumption DEF SafeInv, ListsKnown, ListOf, PinnerAssumption
<1>2. ~\E u \in Threads : At(u, "free_sg", q) \/ At(u, "free_del", q)
  <2> SUFFICES ASSUME NEW u \in Threads, At(u, "free_sg", q) \/ At(u, "free_del", q)
               PROVE  FALSE
    OBVIOUS
  <2>1. CallOK(call[u]) /\ call[u].pc \in {"free_sg", "free_del"} /\ call[u].pin = q
    BY DEF SafeInv, CallsOK, At
  <2>2. Active(u) /\ call[u].file = call[t].file
    BY <1>1, <2>1 DEF CallOK, InOp, PinAt, IsOwn, Active
  <2> QED
    BY <2>1, <2>2 DEF SafeInv, OneCall
<1>3. pins[q].state \in PinStates
  BY DEF TypeOK, Pinning
<1> QED
  BY <1>1, <1>2, <1>3
     DEF SafeInv, PinsKnown, PinStates, FreePin, BarePin, Whole

-----------------------------------------------------------------------------
(* Preservation. *)

(* No other call is on the file of the call c that t is about to make. *)
Alone(t, c) == \A u \in Threads \ {t} :
                  Active(u) => c.pc = "idle" \/ c.op = "exit" \/ call[u].file # c.file

NoExit == \A u \in Threads : call[u].pc # "exit_loop"

LEMMA StayAlone ==
    ASSUME OneCall, NEW t \in Threads, Active(t), NEW c, c.file = call[t].file
    PROVE  Alone(t, c)
BY DEF OneCall, Alone

LEMMA EnterAlone ==
    ASSUME NEW t \in Threads, NEW f, InCall(f) = {}, NEW c, c.file = f
    PROVE  Alone(t, c)
BY DEF InCall, Alone, Active

LEMMA OneCallStep ==
    ASSUME CallTyped, OneCall, NEW t \in Threads, NEW c, Alone(t, c),
           call' = [call EXCEPT ![t] = c]
    PROVE  OneCall'
<1>1. call'[t] = c /\ \A u \in Threads \ {t} : call'[u] = call[u]
  BY DEF CallTyped
<1> QED
  BY <1>1 DEF OneCall, Alone, Active

LEMMA ExitAloneStep ==
    ASSUME CallTyped, NoExit, NEW t \in Threads, NEW c, c.pc # "exit_loop",
           call' = [call EXCEPT ![t] = c]
    PROVE  ExitAlone'
<1>1. call'[t] = c /\ \A u \in Threads \ {t} : call'[u] = call[u]
  BY DEF CallTyped
<1> QED
  BY <1>1 DEF ExitAlone, NoExit

(* The calls that PinsKnown names. *)
Keeper(c) == c.pc \in {"fill", "list_add", "free_sg", "free_del"}

LEMMA OneBuilderStep ==
    ASSUME CallTyped, OneBuilder, NEW t \in Threads, NEW c,
           c.pc \notin {"fill", "list_add"}, call' = [call EXCEPT ![t] = c]
    PROVE  OneBuilder'
<1>1. call'[t] = c /\ \A u \in Threads \ {t} : call'[u] = call[u]
  BY DEF CallTyped
<1> QED
  BY <1>1 DEF OneBuilder, Builds

LEMMA PinsKnownStep ==
    ASSUME CallTyped, PinsKnown, NEW t \in Threads, NEW c, ~Keeper(call[t]),
           call' = [call EXCEPT ![t] = c], UNCHANGED pins,
           \A q \in Pins : pins[q].owner \in users => pins[q].owner \in users'
    PROVE  PinsKnown'
<1>1. \A u \in Threads \ {t} : call'[u] = call[u]
  BY DEF CallTyped
<1>2. ASSUME NEW u \in Threads, NEW q, NEW l \in {"fill", "list_add", "free_sg", "free_del"},
             At(u, l, q)
      PROVE  At(u, l, q)'
  BY <1>1, <1>2 DEF At, Keeper
<1> QED
  BY <1>2 DEF PinsKnown, Whole

LEMMA ListsKept ==
    ASSUME ListsKnown, UNCHANGED <<users, pins, pinning_list>>
    PROVE  ListsKnown'
BY DEF ListsKnown, ListOf

(* A step that changes nothing but the record of t. *)
LEMMA CallStep ==
    ASSUME TypeOK, SafeInv, NoExit, NEW t \in Threads, NEW c,
           call' = [call EXCEPT ![t] = c],
           UNCHANGED <<opened, users, pins, pinning_list>>,
           CallOK(c), Alone(t, c), c.pc # "exit_loop",
           ~Keeper(call[t]), c.pc \notin {"fill", "list_add"},
           \A f \in Files : Releasing(t, f) =>
               c.pc \notin {"idle", "return"} /\ c.op = "release" /\ c.file = f
    PROVE  SafeInv'
<1>0. CallTyped
  BY DEF TypeOK, CallTyped
<1>1. call'[t] = c /\ \A u \in Threads \ {t} : call'[u] = call[u]
  BY <1>0 DEF CallTyped
<1>2. CallsOK'
  <2>1. CallOK(c)'
    BY DEF CallOK, InOp, FileAt, PinAt, PinCommand, IsOwn, Whole, First
  <2>2. ASSUME NEW u \in Threads \ {t} PROVE CallOK(call[u])'
    <3>1. CallOK(call[u])
      BY DEF SafeInv, CallsOK
    <3> QED
      BY <1>1, <3>1
         DEF CallOK, InOp, FileAt, PinAt, PinCommand, IsOwn, Whole, First
  <2> QED
    BY <1>1, <2>1, <2>2 DEF CallsOK
<1>3. OneCall' /\ ExitAlone' /\ OneBuilder'
  BY <1>0, OneCallStep, ExitAloneStep, OneBuilderStep DEF SafeInv
<1>4. PinsKnown' /\ ListsKnown'
  BY <1>0, PinsKnownStep, ListsKept DEF SafeInv
<1>5. FilesKnown'
  <2>1. \A u \in Threads, f \in Files : Releasing(u, f) => Releasing(u, f)'
    BY <1>1 DEF Releasing, Running
  <2> QED
    BY <2>1 DEF SafeInv, FilesKnown, TypeOK
<1> QED
  BY <1>2, <1>3, <1>4, <1>5 DEF SafeInv

LEMMA WhileBusy ==
    ASSUME SafeInv, NEW t \in Threads, call[t].pc \notin {"idle", "exit_loop"}
    PROVE  NoExit
BY DEF SafeInv, ExitAlone, NoExit

LEMMA WhileIn ==
    ASSUME SafeInv, module = "in" \/ users # {}
    PROVE  NoExit
BY DEF SafeInv, ExitAlone, NoExit

(* A new call on a file in no other call. *)
LEMMA EntryStep ==
    ASSUME TypeOK, SafeInv, NoExit, NEW t \in Threads, call[t].pc = "idle",
           NEW f, InCall(f) = {}, NEW c, c.file = f,
           call' = [call EXCEPT ![t] = c], UNCHANGED <<opened, users, pins, pinning_list>>,
           CallOK(c), c.pc \notin {"exit_loop", "fill", "list_add"}
    PROVE  SafeInv'
<1>1. Alone(t, c)
  BY EnterAlone
<1>2. ~Keeper(call[t]) /\ \A g \in Files : ~Releasing(t, g)
  BY DEF Releasing, Running, Keeper
<1> QED
  BY <1>1, <1>2, CallStep

LEMMA SafeOpen ==
    ASSUME TypeOK, SafeInv, NEW t \in Threads, call[t].pc = "idle",
           NEW f \in Files, OpenEntry(t, f)
    PROVE  SafeInv'
<1>1. f \notin users
  <2>1. ASSUME NEW u \in Threads PROVE ~Releasing(u, f)
    BY DEF OpenEntry, Releasing, InCall, Running
  <2> QED
    BY <2>1 DEF OpenEntry, SafeInv, FilesKnown
(* INIT_LIST_HEAD finds the list as the last pinning left it. *)
<1>a. pinning_list' = pinning_list
  <2>1. pinning_list \in [Files -> Seq(Pins)] /\ pinning_list[f] = <<>>
    BY <1>1 DEF TypeOK, SafeInv, ListsKnown, ListOf
  <2> QED
    BY <2>1 DEF OpenEntry
<1>0. NoExit /\ InCall(f) = {} /\ UNCHANGED <<opened, users, pins, pinning_list>>
  BY <1>a, WhileIn DEF OpenEntry
<1>2. CASE Begin(t, "open", f, "open_lock", {})
  <2> DEFINE c == [pc |-> "open_lock", op |-> "open", file |-> f, pin |-> None,
                   pages |-> {}, want |-> None, ret |-> "0"]
  <2>1. CallOK(c)
    BY <1>1 DEF CallOK, InOp, FileAt, PinAt, PinCommand
  <2>2. call' = [call EXCEPT ![t] = c] /\ c.file = f
      /\ c.pc \notin {"exit_loop", "fill", "list_add"}
    BY <1>2 DEF Begin
  <2> HIDE DEF c
  <2> QED
    BY <1>0, <2>1, <2>2, EntryStep
<1>3. CASE call' = [call EXCEPT ![t] = [IdleCall EXCEPT !.pc = "return",
                          !.op = "open", !.file = f, !.ret = "ENOMEM"]]
  <2> DEFINE c == [IdleCall EXCEPT !.pc = "return", !.op = "open", !.file = f,
                                   !.ret = "ENOMEM"]
  <2>1. CallOK(c) /\ c.file = f
      /\ c.pc \notin {"exit_loop", "fill", "list_add"}
    BY DEF CallOK, InOp, FileAt, PinAt, PinCommand, IdleCall
  <2> HIDE DEF c
  <2> QED
    BY <1>0, <1>3, <2>1, EntryStep DEF c
<1> QED
  BY <1>2, <1>3 DEF OpenEntry

LEMMA Writable ==
    ASSUME Orderly, SafeInv, NEW f \in Files, MayWrite(f)
    PROVE  NoExit /\ InCall(f) = {} /\ f \in opened
BY WhileIn DEF MayWrite, Orderly

LEMMA SafeRefused ==
    ASSUME TypeOK, SafeInv, NoExit, NEW t \in Threads, call[t].pc = "idle",
           NEW f \in Files, InCall(f) = {}, UNCHANGED <<opened, users, pins, pinning_list>>,
           NEW o, NEW r, r # "0",
           call' = [call EXCEPT ![t] = [IdleCall EXCEPT !.pc = "return", !.op = o,
                                                        !.file = f, !.ret = r]]
    PROVE  SafeInv'
<1> DEFINE c == [IdleCall EXCEPT !.pc = "return", !.op = o, !.file = f, !.ret = r]
<1>1. CallOK(c) /\ c.file = f
      /\ c.pc \notin {"exit_loop", "fill", "list_add"}
  BY DEF CallOK, InOp, FileAt, PinAt, PinCommand, IdleCall
<1> HIDE DEF c
<1> QED
  BY <1>1, EntryStep DEF c

LEMMA SafeBegin ==
    ASSUME TypeOK, SafeInv, NoExit, NEW t \in Threads, call[t].pc = "idle",
           NEW f \in Files, InCall(f) = {}, f \in opened,
           UNCHANGED <<opened, users, pins, pinning_list>>,
           NEW o, NEW l, NEW S, Begin(t, o, f, l, S),
           \/ o = "pin" /\ l = "gup" /\ Cardinality(S) \in 1..MaxPages
           \/ o \in HandleOps /\ l = "lookup" /\ S = {}
    PROVE  SafeInv'
<1> DEFINE c == [pc |-> l, op |-> o, file |-> f, pin |-> None, pages |-> S,
                 want |-> None, ret |-> "0"]
<1>1. CallOK(c)
  BY DEF CallOK, InOp, FileAt, PinAt, PinCommand, HandleOps
<1>2. call' = [call EXCEPT ![t] = c] /\ c.file = f
      /\ c.pc \notin {"exit_loop", "fill", "list_add"}
  BY DEF Begin
<1> HIDE DEF c
<1> QED
  BY <1>1, <1>2, EntryStep

LEMMA SafeWrite ==
    ASSUME Orderly, TypeOK, SafeInv, NEW t \in Threads, call[t].pc = "idle",
           NEW f \in Files,
           \/ \E r \in Codes : WriteRejected(t, f, r)
           \/ \E buf \in SUBSET Pages : WritePin(t, f, buf)
           \/ \E o \in HandleOps : WriteHandle(t, f, o)
    PROVE  SafeInv'
<1>0. MayWrite(f) /\ UNCHANGED <<opened, users, pins, pinning_list>>
  BY DEF WriteRejected, WritePin, WriteHandle
<1>1. NoExit /\ InCall(f) = {} /\ f \in opened
  BY <1>0, Writable
<1>2. ASSUME NEW r \in Codes, WriteRejected(t, f, r) PROVE SafeInv'
  <2>1. r # "0"
    BY <1>2 DEF WriteRejected
  <2> QED
    BY <1>0, <1>1, <1>2, <2>1, SafeRefused DEF WriteRejected
<1>3. ASSUME NEW buf \in SUBSET Pages, WritePin(t, f, buf) PROVE SafeInv'
  <2>1. CASE Cardinality(buf) \in 1..MaxPages /\ Begin(t, "pin", f, "gup", buf)
    BY <1>0, <1>1, <2>1, SafeBegin
  <2>2. ASSUME NEW r \in {"ENOMEM", "EINVAL"},
               call' = [call EXCEPT ![t] = [IdleCall EXCEPT !.pc = "return",
                                     !.op = "pin", !.file = f, !.ret = r]]
        PROVE SafeInv'
    BY <1>0, <1>1, <2>2, SafeRefused
  <2> QED
    BY <1>3, <2>1, <2>2 DEF WritePin
<1>4. ASSUME NEW o \in HandleOps, WriteHandle(t, f, o) PROVE SafeInv'
  BY <1>0, <1>1, <1>4, SafeBegin DEF WriteHandle
<1> QED
  BY <1>2, <1>3, <1>4

(* The last reference to a file goes: from then on it is being released. *)
LEMMA SafeClose ==
    ASSUME TypeOK, SafeInv, NEW t \in Threads, call[t].pc = "idle",
           NEW f \in Files, CloseEntry(t, f)
    PROVE  SafeInv'
<1>0. CallTyped
  BY DEF TypeOK, CallTyped
<1>a. /\ NoExit /\ InCall(f) = {} /\ UNCHANGED <<users, pins, pinning_list>>
      /\ f \in opened /\ f \in users /\ opened' = opened \ {f}
  BY WhileIn DEF CloseEntry
<1> DEFINE c == [pc |-> "rel_loop", op |-> "release", file |-> f, pin |-> None,
                 pages |-> {}, want |-> None, ret |-> "0"]
<1>b. call' = [call EXCEPT ![t] = c]
  BY DEF CloseEntry, Begin
<1>c. call'[t] = c /\ \A u \in Threads \ {t} : call'[u] = call[u]
  BY <1>0, <1>b DEF CallTyped
<1>1. OneCall' /\ ExitAlone' /\ OneBuilder'
  <2>1. Alone(t, c) /\ c.pc \notin {"exit_loop", "fill", "list_add"}
    BY <1>a, EnterAlone
  <2> HIDE DEF c
  <2> QED
    BY <1>0, <1>a, <1>b, <2>1, OneCallStep, ExitAloneStep, OneBuilderStep DEF SafeInv
<1>2. CallsOK'
  <2>1. CallOK(c)'
    BY <1>a DEF CallOK, InOp, FileAt, PinAt, PinCommand
  <2>2. ASSUME NEW u \in Threads \ {t} PROVE CallOK(call[u])'
    <3>1. CallOK(call[u]) /\ (Active(u) => call[u].file # f)
      BY <1>a DEF SafeInv, CallsOK, InCall, Active
    <3>2. call[u].op \in {"pin", "unpin", "flush", "release"} /\ call[u].pc # "idle"
             => Active(u)
      BY DEF Active
    <3> QED
      BY <1>a, <1>c, <3>1, <3>2
         DEF CallOK, InOp, FileAt, PinAt, PinCommand, IsOwn, Whole, First
  <2> HIDE DEF c
  <2> QED
    BY <1>c, <2>1, <2>2 DEF CallsOK
<1>3. PinsKnown' /\ ListsKnown'
  <2>1. ~Keeper(call[t])
    BY DEF Keeper
  <2> HIDE DEF c
  <2> QED
    BY <1>0, <1>a, <1>b, <2>1, PinsKnownStep, ListsKept DEF SafeInv
<1>4. FilesKnown'
  <2>1. Releasing(t, f)'
    BY <1>c DEF Releasing, Running
  <2>2. \A u \in Threads, g \in Files : Releasing(u, g) => Releasing(u, g)'
    BY <1>c DEF Releasing, Running
  <2> QED
    BY <1>a, <2>1, <2>2 DEF SafeInv, FilesKnown, TypeOK
<1> QED
  BY <1>1, <1>2, <1>3, <1>4 DEF SafeInv

(* rmmod: every file is closed and no call is under way. *)
LEMMA SafeExit ==
    ASSUME Orderly, TypeOK, SafeInv, NEW t \in Threads, ExitEntry(t)
    PROVE  SafeInv'
<1>0. CallTyped
  BY DEF TypeOK, CallTyped
<1>a. /\ opened = {} /\ \A u \in Threads : call[u].pc = "idle"
      /\ UNCHANGED <<opened, users, pins, pinning_list>> /\ module' = "exiting"
  BY DEF ExitEntry, Orderly
<1>b. users = {}
  BY <1>a DEF SafeInv, FilesKnown, Releasing, Running, TypeOK
<1>c. /\ call'[t] = [pc |-> "exit_loop", op |-> "exit", file |-> None, pin |-> None,
                     pages |-> {}, want |-> None, ret |-> "0"]
      /\ \A u \in Threads \ {t} : call'[u] = call[u]
  BY <1>0 DEF ExitEntry, Begin, CallTyped
<1>d. ListsKnown' /\ OneBuilder'
  BY <1>a, <1>c, ListsKept DEF SafeInv, OneBuilder, Builds
<1>e. \A u \in Threads : call[u].pages = {}
  BY <1>a DEF SafeInv, CallsOK, CallOK, PinCommand
<1>1. CallsOK'
  BY <1>a, <1>c, <1>e DEF CallsOK, CallOK, InOp, FileAt, PinAt, PinCommand
<1>2. OneCall'
  BY <1>a, <1>c DEF OneCall, Active
<1>3. PinsKnown'
  BY <1>a, <1>b DEF SafeInv, PinsKnown, At
<1>4. FilesKnown'
  BY <1>a, <1>b DEF FilesKnown
<1>5. ExitAlone'
  BY <1>a, <1>b, <1>c DEF ExitAlone
<1> QED
  BY <1>d, <1>1, <1>2, <1>3, <1>4, <1>5 DEF SafeInv

LEMMA SafeEntry ==
    ASSUME Orderly, TypeOK, SafeInv, NEW t \in Threads, Entry(t)
    PROVE  SafeInv' /\ fault' = fault
<1>0. call[t].pc = "idle"
  BY DEF Entry
<1>1. CASE ExitEntry(t)
  BY <1>1, SafeExit DEF ExitEntry
<1>2. ASSUME NEW f \in Files, OpenEntry(t, f) PROVE SafeInv' /\ fault' = fault
  BY <1>0, <1>2, SafeOpen DEF OpenEntry
<1>3. ASSUME NEW f \in Files, CloseEntry(t, f) PROVE SafeInv' /\ fault' = fault
  BY <1>0, <1>3, SafeClose DEF CloseEntry
<1>4. ASSUME NEW f \in Files PROVE ~CallGone(f)
  BY DEF CallGone, SafeInv, FilesKnown
<1>5. ASSUME NEW f \in Files,
             \/ \E r \in Codes : WriteRejected(t, f, r)
             \/ \E buf \in SUBSET Pages : WritePin(t, f, buf)
             \/ \E o \in HandleOps : WriteHandle(t, f, o)
      PROVE  SafeInv' /\ fault' = fault
  <2>1. fault' = fault
    BY <1>5 DEF WriteRejected, WritePin, WriteHandle
  <2> QED
    BY <1>0, <1>5, <2>1, SafeWrite
<1> QED
  BY <1>1, <1>2, <1>3, <1>4, <1>5 DEF Entry

(* What is known of a call in the middle of its work. *)
LEMMA Busy ==
    ASSUME TypeOK, SafeInv, NEW t \in Threads,
           call[t].pc \notin {"idle", "return", "exit_loop"}
    PROVE  /\ NoExit /\ CallOK(call[t]) /\ Active(t)
           /\ call[t].file \in Files
           /\ call[t].pc \in UsesPin => call[t].pin \in Pins
           /\ call[t].op # "open" => call[t].file \in users
<1>1. NoExit
  BY WhileBusy
<1>2. CallOK(call[t])
  BY DEF SafeInv, CallsOK
<1>3. call[t].pc \in UsesFile
  BY DEF TypeOK, Call, PCs, UsesFile, UsesPin
<1>4. call[t].op # "open" => call[t].file \in users
  BY <1>2 DEF CallOK, InOp, FileAt, SafeInv, FilesKnown
<1> QED
  BY <1>1, <1>2, <1>3, <1>4 DEF CallOK, InOp, Active, TypeOK, PointersSet

(* The call of t goes on, on the same file. *)
LEMMA GoOn ==
    ASSUME TypeOK, SafeInv, NEW t \in Threads,
           call[t].pc \notin {"idle", "return", "exit_loop"}, ~Keeper(call[t]),
           NEW c, call' = [call EXCEPT ![t] = c],
           UNCHANGED <<opened, users, pins, pinning_list>>,
           CallOK(c), c.file = call[t].file, c.op = call[t].op,
           c.pc \notin {"idle", "exit_loop", "fill", "list_add"},
           c.op = "release" => c.pc # "return"
    PROVE  SafeInv'
<1>1. NoExit /\ Alone(t, c)
  BY Busy, StayAlone DEF SafeInv
<1>2. \A f \in Files : Releasing(t, f) =>
         c.pc \notin {"idle", "return"} /\ c.op = "release" /\ c.file = f
  BY DEF Releasing
<1> QED
  BY <1>1, <1>2, CallStep

LEMMA GoOnGoto ==
    ASSUME TypeOK, SafeInv, NEW t \in Threads, NEW l, Goto(t, l),
           UNCHANGED <<opened, users, pins, pinning_list>>,
           \/ call[t].pc = "open_lock" /\ l = "open_add"
           \/ call[t].pc = "gup" /\ l = "new_pin"
           \/ call[t].pc = "rel_loop" /\ l = "rel_lock" /\ First(call[t].file) = {}
           \/ call[t].pc = "rel_lock" /\ l = "rel_del"
    PROVE  SafeInv'
<1> DEFINE c == [call[t] EXCEPT !.pc = l]
<1>1. CallTyped /\ CallOK(call[t])
  BY DEF TypeOK, CallTyped, SafeInv, CallsOK
<1>2. /\ c.pc = l /\ c.op = call[t].op /\ c.file = call[t].file /\ c.pin = call[t].pin
      /\ c.pages = call[t].pages /\ c.ret = call[t].ret
  BY <1>1, Fields
<1>3. call' = [call EXCEPT ![t] = c]
  BY <1>1 DEF Goto, CallTyped
<1> HIDE DEF c
<1>4. CallOK(c) /\ ~Keeper(call[t])
  BY <1>1, <1>2 DEF CallOK, InOp, FileAt, PinAt, PinCommand, IsOwn, Keeper
<1> QED
  BY <1>2, <1>3, <1>4, GoOn

LEMMA GoOnFinish ==
    ASSUME TypeOK, SafeInv, NEW t \in Threads, NEW r, Finish(t, r),
           UNCHANGED <<opened, users, pins, pinning_list>>,
           \/ call[t].pc \in {"lookup", "walk", "sync"}
           \/ call[t].pc \in {"gup", "new_pin"} /\ r # "0"
           \/ call[t].pc = "deliver" /\ r = "0"
    PROVE  SafeInv'
<1> DEFINE c == [call[t] EXCEPT !.pc = "return", !.pages = {}, !.want = None, !.ret = r]
<1>1. CallTyped /\ CallOK(call[t])
  BY DEF TypeOK, CallTyped, SafeInv, CallsOK
<1>2. /\ c.pc = "return" /\ c.op = call[t].op /\ c.file = call[t].file
      /\ c.pin = call[t].pin /\ c.pages = {} /\ c.ret = r
  BY <1>1, Fields
<1>3. call' = [call EXCEPT ![t] = c]
  BY <1>1 DEF Finish, CallTyped
<1>4. call[t].pc = "deliver" => call[t].pin \in Pins /\ call[t].file \in Files
  BY Fields, <1>1 DEF UsesPin, UsesFile
<1> HIDE DEF c
<1>5. CallOK(c) /\ c.op # "release" /\ ~Keeper(call[t])
  BY <1>1, <1>2, <1>4 DEF CallOK, InOp, FileAt, PinAt, PinCommand, IsOwn, Keeper
<1> QED
  BY <1>2, <1>3, <1>5, GoOn

(* The call's pinning pointer or its place moves, among the pinnings on    *)
(* the list of its file.                                                   *)
LEMMA GoOnListed ==
    ASSUME TypeOK, SafeInv, NEW t \in Threads, NEW c,
           call' = [call EXCEPT ![t] = c],
           UNCHANGED <<opened, users, pins, pinning_list>>,
           c.op = call[t].op, c.file = call[t].file, c.pages = call[t].pages,
           c.pin \in Pins, Contains(pinning_list[call[t].file], c.pin),
           \/ call[t].pc = "lookup" /\ c.pc = "walk"
           \/ call[t].pc = "walk" /\ c.pc = "walk"
           \/ call[t].pc = "walk" /\ call[t].op = "unpin" /\ c.pc = "free_put"
           \/ call[t].pc = "walk" /\ call[t].op = "flush" /\ c.pc = "sync"
           \/ call[t].pc = "rel_loop" /\ c.pc = "free_put"
    PROVE  SafeInv'
<1>1. /\ CallOK(call[t]) /\ Active(t) /\ call[t].file \in Files /\ ~Keeper(call[t])
      /\ call[t].pc \notin {"free_sg", "free_del"}
  BY Busy DEF Keeper
<1>2. Whole(c.pin) /\ pins[c.pin].state = "live" /\ pins[c.pin].owner = c.file
  BY <1>1, ListedWhole
<1>3. CallOK(c)
  BY <1>1, <1>2 DEF CallOK, InOp, FileAt, PinAt, PinCommand, IsOwn
<1> QED
  BY <1>1, <1>3, GoOn

(* The states of a struct pinning: q goes from one to the next in the call *)
(* of t, which is the only one that knows about q.                         *)
Moves(t, c, q, d) ==
    \/ /\ call[t].pc = "new_pin" /\ pins[q].state = "free"
       /\ d = BarePin /\ c.pc = "fill" /\ c.pin = q
    \/ /\ call[t].pc = "fill" /\ call[t].pin = q
       /\ d.state = "live" /\ d.owner = None /\ c.pc = "list_add" /\ c.pin = q
    \/ /\ call[t].pc = "list_add" /\ call[t].pin = q
       /\ d.state = "live" /\ d.owner = call[t].file
       /\ d.held = d.pages /\ Cardinality(d.pages) \in 1..MaxPages
       /\ c.pc = "deliver" /\ c.pin = q
    \/ /\ call[t].pc = "free_put" /\ call[t].pin = q
       /\ d.state = "live" /\ d.owner = call[t].file
       /\ c.pc = "free_sg" /\ c.pin = q
    \/ /\ call[t].pc = "free_sg" /\ call[t].pin = q
       /\ d.state = "drained" /\ d.owner = call[t].file
       /\ c.pc = "free_del" /\ c.pin = q
    \/ /\ call[t].pc = "free_del" /\ call[t].pin = q
       /\ d = FreePin /\ c.pc \in {"rel_loop", "return"}

(* No other call points at q, or has been told that there is nothing left  *)
(* on the list that q is on.                                               *)
LEMMA OthersElsewhere ==
    ASSUME TypeOK, SafeInv, NEW t \in Threads, NEW c, NEW q \in Pins, NEW d,
           Moves(t, c, q, d), NEW u \in Threads \ {t}
    PROVE  /\ call[u].pc \in UsesPin => call[u].pin # q
           /\ call[u].pc = "return" /\ call[u].op = "pin" /\ call[u].ret = "0"
                => call[u].pin # q
           /\ Active(u) => call[u].file # call[t].file
<1>1. call[t].pc \notin {"idle", "return", "exit_loop"} /\ CallOK(call[u])
  BY DEF Moves, SafeInv, CallsOK
<1>2. /\ NoExit /\ CallOK(call[t]) /\ Active(t) /\ call[t].file \in Files
      /\ None \notin Files
  BY <1>1, Busy, PinnerAssumption DEF PinnerAssumption
<1>3. Active(u) => call[u].file # call[t].file
  BY <1>2 DEF SafeInv, OneCall
<1>a. call[u].pc \in UsesPin => Active(u) /\ call[u].file \in Files
  <2>1. call[u].pc \in UsesPin => Active(u)
    BY <1>1 DEF CallOK, InOp, Active, UsesPin
  <2> QED
    BY <2>1 DEF TypeOK, PointersSet, UsesFile
<1>4. call[u].pc \in UsesPin => call[u].pin # q
  <2>1. CASE call[t].pc \in {"fill", "list_add"}
    <3>1. call[u].pc \in {"fill", "list_add"} => call[u].pin # call[t].pin
      BY <2>1 DEF SafeInv, OneBuilder, Builds
    <3>2. pins[call[t].pin].owner = None /\ call[t].pin = q
      BY <1>2, <2>1 DEF Moves, CallOK, PinAt, BarePin, FreePin
    <3> QED
      BY <1>1, <1>2, <1>a, <3>1, <3>2 DEF UsesPin, CallOK, PinAt, IsOwn
  <2>2. CASE call[t].pc = "new_pin"
    BY <1>1, <2>2 DEF Moves, UsesPin, CallOK, PinAt, IsOwn, Whole, BarePin, FreePin
  <2>3. CASE call[t].pc \in {"free_put", "free_sg", "free_del"}
    <3>1. pins[q].owner = call[t].file
      BY <1>2, <2>3 DEF Moves, CallOK, PinAt, IsOwn
    <3> QED
      BY <1>1, <1>2, <1>3, <1>a, <3>1
         DEF UsesPin, CallOK, PinAt, IsOwn, BarePin, FreePin
  <2> QED
    BY <2>1, <2>2, <2>3 DEF Moves
<1>5. call[u].pc = "return" /\ call[u].op = "pin" /\ call[u].ret = "0"
         => call[u].pin # q
  <2> SUFFICES ASSUME call[u].pc = "return", call[u].op = "pin", call[u].ret = "0",
                      call[u].pin = q
               PROVE  FALSE
    OBVIOUS
  <2>1. /\ pins[q].state = "live" /\ pins[q].owner = call[u].file /\ Active(u)
        /\ call[u].file \in Files
    BY <1>1 DEF CallOK, PinCommand, IsOwn, Active
  <2> QED
    BY <1>2, <1>3, <2>1
       DEF Moves, CallOK, PinAt, IsOwn, BarePin, FreePin
<1> QED
  BY <1>3, <1>4, <1>5

LEMMA PinStep ==
    ASSUME TypeOK, SafeInv, NEW t \in Threads, NEW c, NEW q \in Pins, NEW d,
           Moves(t, c, q, d),
           call' = [call EXCEPT ![t] = c], pins' = [pins EXCEPT ![q] = d],
           UNCHANGED <<opened, users>>,
           \A f \in Files \ {call[t].file} : pinning_list'[f] = pinning_list[f],
           ListsKnown', CallOK(call[t])',
           c.file = call[t].file, c.op = call[t].op,
           c.op = "release" => c.pc # "return"
    PROVE  SafeInv'
<1>0. CallTyped /\ pins \in [Pins -> Pinning]
  BY DEF TypeOK, CallTyped
<1>1. call'[t] = c /\ \A u \in Threads \ {t} : call'[u] = call[u]
  BY <1>0 DEF CallTyped
<1>2. pins'[q] = d /\ \A p \in Pins \ {q} : pins'[p] = pins[p]
  BY <1>0
<1>3. /\ call[t].pc \notin {"idle", "return", "exit_loop"}
      /\ c.pc \notin {"idle", "exit_loop"}
  BY DEF Moves
<1>4. NoExit /\ Active(t) /\ CallOK(call[t]) /\ call[t].file \in Files
  BY <1>3, Busy
<1>a. call[t].file \in users
  <2>1. call[t].op # "open"
    BY <1>4 DEF Moves, CallOK, InOp
  <2> QED
    BY <1>3, <2>1, Busy
<1>5. OneCall' /\ ExitAlone'
  BY <1>0, <1>3, <1>4, StayAlone, OneCallStep, ExitAloneStep DEF SafeInv
<1>6. CallsOK'
  <2>1. ASSUME NEW u \in Threads \ {t} PROVE CallOK(call[u])'
    <3>1. CallOK(call[u]) /\ call'[u] = call[u]
      BY <1>1 DEF SafeInv, CallsOK
    <3>2. InOp(call[u])' /\ FileAt(call[u])'
      BY <3>1 DEF CallOK, InOp, FileAt
    <3>3. call[u].pc \in UsesPin => pins'[call[u].pin] = pins[call[u].pin]
      BY <1>0, <1>2, OthersElsewhere DEF CallTyped, PointersSet
    <3>4. call[u].pc \in {"rel_lock", "rel_del"} /\ First(call[u].file) = {}
             => First(call[u].file)' = {}
      <4>1. call[u].pc \in {"rel_lock", "rel_del"} =>
               call[u].file # call[t].file /\ call[u].file \in Files
        BY <3>1, OthersElsewhere DEF CallOK, InOp, Active, TypeOK, PointersSet, UsesFile
      <4> QED
        BY <3>1, <4>1 DEF First
    <3>5. PinAt(call[u])'
      BY <3>1, <3>3, <3>4 DEF CallOK, PinAt, IsOwn, Whole, UsesPin
    <3>6. PinCommand(call[u])'
      BY <1>2, <3>1, OthersElsewhere DEF CallOK, PinCommand, IsOwn, Whole
    <3> QED
      BY <3>2, <3>5, <3>6 DEF CallOK
  <2> QED
    BY <1>1, <2>1 DEF CallsOK
<1>7. PinsKnown'
  <2>1. ASSUME NEW p \in Pins \ {q}, NEW u \in Threads,
               NEW l \in {"fill", "list_add", "free_sg", "free_del"}, At(u, l, p)
        PROVE  At(u, l, p)'
    <3>1. u # t
      BY <2>1 DEF Moves, At
    <3> QED
      BY <1>1, <2>1, <3>1 DEF At
  <2>2. ASSUME NEW p \in Pins \ {q}
        PROVE  pins'[p] = pins[p] /\ (Whole(p) => Whole(p)')
    BY <1>2 DEF Whole
  <2>3. /\ d.state = "free" => d = FreePin
        /\ d.state = "bare" => d = BarePin /\ At(t, "fill", q)'
        /\ d.state = "drained" => At(t, "free_del", q)'
        /\ d.state = "live" =>
              \/ d.owner = None /\ At(t, "list_add", q)'
              \/ d.owner \in users /\ Whole(q)'
              \/ d.owner \in users /\ At(t, "free_sg", q)'
    BY <1>1, <1>2, <1>a DEF Moves, At, Whole, BarePin, FreePin
  <2> QED
    BY <1>2, <2>1, <2>2, <2>3 DEF SafeInv, PinsKnown
<1>8. FilesKnown'
  <2>1. \A u \in Threads, f \in Files : Releasing(u, f) => Releasing(u, f)'
    BY <1>1, <1>3 DEF Releasing, Running
  <2> QED
    BY <2>1 DEF SafeInv, FilesKnown, TypeOK
<1>9. OneBuilder'
  <2>1. \A u \in Threads \ {t} : Builds(u)' => Builds(u) /\ call'[u].pin # q
    BY <1>1, OthersElsewhere DEF Builds, UsesPin
  <2>2. Builds(t)' => call'[t].pin = q
    BY <1>1 DEF Builds, Moves
  <2> QED
    BY <1>1, <2>1, <2>2 DEF SafeInv, OneBuilder
<1> QED
  BY <1>5, <1>6, <1>7, <1>8, <1>9 DEF SafeInv

(* A pinning that changes but keeps its owner, or its want of one. *)
LEMMA SameOwners ==
    ASSUME TypeOK, ListsKnown, NEW q \in Pins, NEW d, pins' = [pins EXCEPT ![q] = d],
           d.owner = pins[q].owner, UNCHANGED <<users, pinning_list>>
    PROVE  ListsKnown'
<1>1. \A p \in Pins : pins'[p].owner = pins[p].owner
  BY DEF TypeOK
<1> QED
  BY <1>1 DEF ListsKnown, ListOf

(* One list changes, and with it the owner of one pinning. *)
LEMMA NewList ==
    ASSUME TypeOK, ListsKnown, NEW f \in Files, f \in users, NEW q \in Pins, NEW l,
           pinning_list' = [pinning_list EXCEPT ![f] = l], UNCHANGED users,
           Once(l), \A p \in Pins : pins'[p].owner = f <=> Contains(l, p),
           \A p \in Pins \ {q} : pins'[p] = pins[p],
           pins[q].owner \in {None, f}, pins'[q].owner \in {None, f}
    PROVE  ListsKnown'
<1>0. pinning_list \in [Files -> Seq(Pins)] /\ None \notin Files
  BY PinnerAssumption DEF TypeOK, PinnerAssumption
<1>1. pinning_list'[f] = l /\ \A g \in Files \ {f} : pinning_list'[g] = pinning_list[g]
  BY <1>0
<1>2. ASSUME NEW g \in Files \ {f} PROVE ListOf(g, pinning_list[g])'
  <2>1. ListOf(g, pinning_list[g])
    BY DEF ListsKnown
  <2>2. pins[q].owner # g /\ pins'[q].owner # g
    BY <1>0
  <2> QED
    BY <1>1, <2>1, <2>2 DEF ListOf
<1>3. ListOf(f, pinning_list[f])'
  BY <1>1 DEF ListOf
<1> QED
  BY <1>2, <1>3 DEF ListsKnown

-----------------------------------------------------------------------------
(* The steps of a call. *)

LEMMA SafeNewPinning ==
    ASSUME TypeOK, SafeInv, NEW t \in Threads, NewPinning(t)
    PROVE  SafeInv'
<1>0. /\ CallTyped /\ call[t].pc = "new_pin" /\ UNCHANGED <<opened, users, pinning_list>>
  BY DEF TypeOK, CallTyped, NewPinning
<1>1. CallOK(call[t])
  BY DEF SafeInv, CallsOK
<1>2. ASSUME NEW q \in Pins, pins[q].state = "free",
             pins' = [pins EXCEPT ![q] = BarePin],
             call' = [call EXCEPT ![t] = [call[t] EXCEPT !.pc = "fill", !.pin = q]]
      PROVE  SafeInv'
  <2> DEFINE c == [call[t] EXCEPT !.pc = "fill", !.pin = q]
  <2>1. /\ c.pc = "fill" /\ c.op = call[t].op /\ c.file = call[t].file /\ c.pin = q
        /\ c.pages = call[t].pages /\ c.ret = call[t].ret
    BY <1>0, Fields
  <2>2. call'[t] = c /\ pins'[q] = BarePin
    BY <1>0, <1>2 DEF CallTyped, TypeOK
  <2> HIDE DEF c
  <2>3. CallOK(call[t])'
    BY <1>0, <1>1, <2>1, <2>2 DEF CallOK, InOp, FileAt, PinAt, PinCommand, IsOwn
  <2>4. Moves(t, c, q, BarePin) /\ c.op = "pin"
    BY <1>0, <1>1, <1>2, <2>1 DEF Moves, CallOK, InOp
  <2>5. ListsKnown'
    <3>1. pins[q] = FreePin
      BY <1>2 DEF SafeInv, PinsKnown
    <3>2. BarePin.owner = pins[q].owner
      BY <3>1 DEF BarePin, FreePin
    <3> QED
      BY <1>0, <1>2, <3>2, SameOwners DEF SafeInv
  <2> QED
    BY <1>0, <1>2, <2>1, <2>2, <2>3, <2>4, <2>5, PinStep DEF c
<1>3. CASE Finish(t, "ENOMEM") /\ UNCHANGED pins
  BY <1>0, <1>3, GoOnFinish
<1> QED
  BY <1>2, <1>3 DEF NewPinning

LEMMA SafeFill ==
    ASSUME Orderly, TypeOK, SafeInv, NEW t \in Threads, FillSglist(t)
    PROVE  SafeInv'
<1>0. /\ CallTyped /\ call[t].pc = "fill" /\ UNCHANGED <<opened, users, pinning_list>>
      /\ call[t].pin \in Pins
  BY DEF TypeOK, CallTyped, FillSglist, PointersSet, UsesPin
<1>1. CallOK(call[t])
  BY DEF SafeInv, CallsOK
<1> DEFINE q == call[t].pin
           c == [call[t] EXCEPT !.pc = "list_add", !.pages = {}]
           d == [BarePin EXCEPT !.state = "live",
                   !.pages = call[t].pages, !.held = call[t].pages]
<1>2. call' = [call EXCEPT ![t] = c] /\ pins' = [pins EXCEPT ![q] = d]
  BY DEF FillSglist, Orderly
<1>3. /\ c.pc = "list_add" /\ c.op = call[t].op /\ c.file = call[t].file /\ c.pin = q
      /\ c.pages = {} /\ c.ret = call[t].ret
  BY <1>0, Fields
<1>4. /\ call'[t] = c /\ pins'[q] = d /\ d.state = "live" /\ d.owner = None
      /\ d.held = d.pages /\ d.pages = call[t].pages
  BY <1>0, <1>2 DEF CallTyped, TypeOK, BarePin, FreePin
<1>5. d.owner = pins[q].owner
  BY <1>0, <1>1, <1>4 DEF CallOK, PinAt, BarePin, FreePin
<1> HIDE DEF c, d
<1>6. CallOK(call[t])'
  BY <1>0, <1>1, <1>3, <1>4 DEF CallOK, InOp, FileAt, PinAt, PinCommand, Whole
<1>7. Moves(t, c, q, d) /\ c.op = "pin"
  BY <1>0, <1>1, <1>3, <1>4 DEF Moves, CallOK, InOp
<1>8. ListsKnown'
  BY <1>0, <1>2, <1>5, SameOwners DEF SafeInv
<1> QED
  BY <1>0, <1>2, <1>3, <1>6, <1>7, <1>8, PinStep

LEMMA SafeListAdd ==
    ASSUME TypeOK, SafeInv, NEW t \in Threads, ListAdd(t)
    PROVE  SafeInv'
<1>0. /\ CallTyped /\ call[t].pc = "list_add" /\ UNCHANGED <<opened, users>>
      /\ call[t].pin \in Pins /\ call[t].file \in Files /\ call[t].file \in users
      /\ pins \in [Pins -> Pinning] /\ pinning_list \in [Files -> Seq(Pins)]
      /\ None \notin Files
  BY PinnerAssumption
     DEF TypeOK, CallTyped, ListAdd, PointersSet, UsesPin, UsesFile, PinnerAssumption
<1>1. CallOK(call[t])
  BY DEF SafeInv, CallsOK
<1> DEFINE q == call[t].pin
           f == call[t].file
           c == [call[t] EXCEPT !.pc = "deliver"]
<1>m. PICK m \in Magics : pins' = [pins EXCEPT ![q] = [pins[q] EXCEPT !.owner = f,
                                                                     !.magic = m]]
  BY DEF ListAdd
<1> DEFINE d == [pins[q] EXCEPT !.owner = f, !.magic = m]
<1>2. /\ call' = [call EXCEPT ![t] = c] /\ pins' = [pins EXCEPT ![q] = d]
      /\ pinning_list' = [pinning_list EXCEPT ![f] = <<q>> \o pinning_list[f]]
  BY <1>0, <1>m DEF ListAdd, Goto, CallTyped
<1>3. /\ c.pc = "deliver" /\ c.op = call[t].op /\ c.file = f /\ c.pin = q
      /\ c.pages = call[t].pages /\ c.ret = call[t].ret
  BY <1>0, Fields
<1>4. /\ call'[t] = c /\ pins'[q] = d /\ d.owner = f
      /\ d.state = pins[q].state /\ d.pages = pins[q].pages /\ d.held = pins[q].held
      /\ \A p \in Pins \ {q} : pins'[p] = pins[p]
  BY <1>0, <1>2 DEF CallTyped, Pinning
<1>5. pins[q].owner = None /\ Whole(q)
  BY <1>0, <1>1 DEF CallOK, PinAt
<1> HIDE DEF c, d
<1>6. CallOK(call[t])'
  BY <1>0, <1>1, <1>3, <1>4, <1>5
     DEF CallOK, InOp, FileAt, PinAt, PinCommand, IsOwn, Whole
<1>7. Moves(t, c, q, d) /\ c.op = "pin"
  BY <1>0, <1>1, <1>3, <1>4, <1>5 DEF Moves, CallOK, InOp, Whole
<1>8. ListsKnown'
  <2>1. ~Contains(pinning_list[f], q) /\ Once(pinning_list[f])
    BY <1>0, <1>5 DEF SafeInv, ListsKnown, ListOf
  <2> DEFINE l == <<q>> \o pinning_list[f]
  <2>2. Once(l) /\ \A p : Contains(l, p) <=> p = q \/ Contains(pinning_list[f], p)
    BY <1>0, <2>1, PrependedList
  <2> HIDE DEF l
  <2>3. \A p \in Pins : pins'[p].owner = f <=> Contains(l, p)
    BY <1>0, <1>4, <2>2 DEF SafeInv, ListsKnown, ListOf
  <2>4. pinning_list' = [pinning_list EXCEPT ![f] = l]
    BY <1>2 DEF l
  <2>5. pins[q].owner \in {None, f} /\ pins'[q].owner \in {None, f}
    BY <1>4, <1>5
  <2>6. \A p \in Pins \ {q} : pins'[p] = pins[p]
    BY <1>4
  <2> QED
    BY <1>0, <2>2, <2>3, <2>4, <2>5, <2>6, NewList DEF SafeInv
<1>9. \A g \in Files \ {f} : pinning_list'[g] = pinning_list[g]
  BY <1>0, <1>2
<1> QED
  BY <1>0, <1>2, <1>3, <1>6, <1>7, <1>8, <1>9, PinStep

LEMMA SafeFreePut ==
    ASSUME TypeOK, SafeInv, NEW t \in Threads, FreePut(t)
    PROVE  SafeInv'
<1>0. /\ CallTyped /\ call[t].pc = "free_put" /\ UNCHANGED <<opened, users, pinning_list>>
      /\ call[t].pin \in Pins /\ pins \in [Pins -> Pinning]
  BY DEF TypeOK, CallTyped, FreePut, PointersSet, UsesPin
<1>1. CallOK(call[t])
  BY DEF SafeInv, CallsOK
<1> DEFINE q == call[t].pin
           c == [call[t] EXCEPT !.pc = "free_sg"]
           d == [pins[q] EXCEPT !.held = {}]
<1>2. call' = [call EXCEPT ![t] = c] /\ pins' = [pins EXCEPT ![q] = d]
  BY <1>0, <1>1 DEF FreePut, Goto, CallTyped, CallOK, PinAt, IsOwn
<1>3. /\ c.pc = "free_sg" /\ c.op = call[t].op /\ c.file = call[t].file /\ c.pin = q
      /\ c.pages = call[t].pages /\ c.ret = call[t].ret
  BY <1>0, Fields
<1>4. /\ call'[t] = c /\ pins'[q] = d /\ d.state = "live" /\ d.held = {}
      /\ d.owner = call[t].file /\ d.owner = pins[q].owner
  BY <1>0, <1>1, <1>2 DEF CallTyped, Pinning, CallOK, PinAt, IsOwn
<1> HIDE DEF c, d
<1>5. CallOK(call[t])'
  BY <1>0, <1>1, <1>3, <1>4 DEF CallOK, InOp, FileAt, PinAt, PinCommand, IsOwn
<1>6. Moves(t, c, q, d)
  BY <1>0, <1>3, <1>4 DEF Moves
<1>7. ListsKnown'
  BY <1>0, <1>2, <1>4, SameOwners DEF SafeInv
<1> QED
  BY <1>0, <1>2, <1>3, <1>5, <1>6, <1>7, PinStep

LEMMA SafeFreeSg ==
    ASSUME TypeOK, SafeInv, NEW t \in Threads, FreeSg(t)
    PROVE  SafeInv'
<1>0. /\ CallTyped /\ call[t].pc = "free_sg" /\ UNCHANGED <<opened, users, pinning_list>>
      /\ call[t].pin \in Pins /\ pins \in [Pins -> Pinning]
  BY DEF TypeOK, CallTyped, FreeSg, PointersSet, UsesPin
<1>1. CallOK(call[t])
  BY DEF SafeInv, CallsOK
<1> DEFINE q == call[t].pin
           c == [call[t] EXCEPT !.pc = "free_del"]
           d == [pins[q] EXCEPT !.state = "drained", !.pages = {}]
<1>2. call' = [call EXCEPT ![t] = c] /\ pins' = [pins EXCEPT ![q] = d]
  BY <1>0, <1>1 DEF FreeSg, Goto, CallTyped, CallOK, PinAt, IsOwn
<1>3. /\ c.pc = "free_del" /\ c.op = call[t].op /\ c.file = call[t].file /\ c.pin = q
      /\ c.pages = call[t].pages /\ c.ret = call[t].ret
  BY <1>0, Fields
<1>4. /\ call'[t] = c /\ pins'[q] = d /\ d.state = "drained" /\ d.held = {}
      /\ d.owner = call[t].file /\ d.owner = pins[q].owner
  BY <1>0, <1>1, <1>2 DEF CallTyped, Pinning, CallOK, PinAt, IsOwn
<1> HIDE DEF c, d
<1>5. CallOK(call[t])'
  BY <1>0, <1>1, <1>3, <1>4 DEF CallOK, InOp, FileAt, PinAt, PinCommand, IsOwn
<1>6. Moves(t, c, q, d)
  BY <1>0, <1>3, <1>4 DEF Moves
<1>7. ListsKnown'
  BY <1>0, <1>2, <1>4, SameOwners DEF SafeInv
<1> QED
  BY <1>0, <1>2, <1>3, <1>5, <1>6, <1>7, PinStep

LEMMA SafeFreeDel ==
    ASSUME TypeOK, SafeInv, NEW t \in Threads, FreeDel(t)
    PROVE  SafeInv'
<1>0. /\ CallTyped /\ call[t].pc = "free_del" /\ UNCHANGED <<opened, users>>
      /\ call[t].pin \in Pins /\ call[t].file \in Files
      /\ pins \in [Pins -> Pinning] /\ pinning_list \in [Files -> Seq(Pins)]
      /\ None \notin Files
  BY PinnerAssumption
     DEF TypeOK, CallTyped, FreeDel, PointersSet, UsesPin, UsesFile, PinnerAssumption
<1>1. CallOK(call[t]) /\ call[t].file \in users
  <2>1. CallOK(call[t])
    BY DEF SafeInv, CallsOK
  <2>2. call[t].op # "open"
    BY <1>0, <2>1 DEF CallOK, InOp
  <2> QED
    BY <1>0, <2>1, <2>2, Busy
<1> DEFINE q == call[t].pin
           f == call[t].file
           l == IF call[t].op = "release" THEN "rel_loop" ELSE "return"
           c == [call[t] EXCEPT !.pin = None, !.pc = l]
<1>2. call' = [call EXCEPT ![t] = c] /\ pins' = [pins EXCEPT ![q] = FreePin]
  BY <1>0, <1>1 DEF FreeDel, CallOK, InOp
<1>3. /\ c.pc = l /\ c.op = call[t].op /\ c.file = f /\ c.pin = None
      /\ c.pages = call[t].pages /\ c.ret = call[t].ret
  BY <1>0, Fields
<1>4. call'[t] = c /\ pins'[q] = FreePin /\ \A p \in Pins \ {q} : pins'[p] = pins[p]
  BY <1>0, <1>2 DEF CallTyped
<1> HIDE DEF c
<1>5. CallOK(call[t])'
  BY <1>0, <1>1, <1>3, <1>4 DEF CallOK, InOp, FileAt, PinAt, PinCommand, IsOwn
<1>6. Moves(t, c, q, FreePin)
  BY <1>0, <1>3 DEF Moves
<1>7. PICK k \in 1..Len(pinning_list[f]) :
         /\ pinning_list[f][k] = q
         /\ pinning_list' = [pinning_list EXCEPT ![f] = RemoveAt(pinning_list[f], k)]
  BY <1>0, <1>1 DEF FreeDel, Unlink, CallOK, PinAt, IsOwn
<1>8. ListsKnown'
  <2> DEFINE m == RemoveAt(pinning_list[f], k)
  <2>1. Once(m) /\ \A p : Contains(m, p) <=> p # q /\ Contains(pinning_list[f], p)
    BY <1>0, <1>7, RemovedList DEF SafeInv, ListsKnown, ListOf
  <2> HIDE DEF m
  <2>2. /\ ListOf(f, pinning_list[f]) /\ FreePin.owner = None
        /\ pins[q].owner = f
    BY <1>0, <1>1 DEF SafeInv, ListsKnown, FreePin, CallOK, PinAt, IsOwn
  <2>3. \A p \in Pins : pins'[p].owner = f <=> Contains(m, p)
    BY <1>0, <1>4, <2>1, <2>2 DEF ListOf
  <2>4. pinning_list' = [pinning_list EXCEPT ![f] = m]
    BY <1>7 DEF m
  <2> QED
    BY <1>0, <1>1, <1>4, <2>1, <2>2, <2>3, <2>4, NewList DEF SafeInv
<1>9. \A g \in Files \ {f} : pinning_list'[g] = pinning_list[g]
  BY <1>0, <1>7
<1> QED
  BY <1>0, <1>2, <1>3, <1>5, <1>6, <1>8, <1>9, PinStep

LEMMA SafeOpenAdd ==
    ASSUME TypeOK, SafeInv, NEW t \in Threads, OpenAdd(t)
    PROVE  SafeInv'
<1> DEFINE f == call[t].file
<1>0. /\ CallTyped /\ call[t].pc = "open_add" /\ UNCHANGED <<pins, pinning_list>>
      /\ opened' = opened \cup {f} /\ users' = users \cup {f}
  BY DEF TypeOK, CallTyped, OpenAdd
<1>1. NoExit /\ Active(t) /\ CallOK(call[t])
  BY <1>0, Busy
<1> DEFINE c == [call[t] EXCEPT !.pc = "return", !.pages = {}, !.want = None,
                                !.ret = "0"]
<1>2. call' = [call EXCEPT ![t] = c]
  BY <1>0 DEF OpenAdd, Finish, CallTyped
<1>3. c.pc = "return" /\ c.op = "open" /\ c.file = f /\ c.pages = {}
  BY <1>0, <1>1, Fields DEF CallOK, InOp
<1>4. call'[t] = c /\ \A u \in Threads \ {t} : call'[u] = call[u]
  BY <1>0, <1>2 DEF CallTyped
<1> HIDE DEF c
<1>5. OneCall' /\ ExitAlone' /\ OneBuilder'
  BY <1>0, <1>1, <1>2, <1>3, StayAlone, OneCallStep, ExitAloneStep, OneBuilderStep
     DEF SafeInv
<1>6. CallsOK'
  <2>1. CallOK(call[t])'
    BY <1>3, <1>4 DEF CallOK, InOp, FileAt, PinAt, PinCommand
  <2>2. ASSUME NEW u \in Threads \ {t} PROVE CallOK(call[u])'
    <3>1. CallOK(call[u])
      BY DEF SafeInv, CallsOK
    <3>2. Active(u) => call[u].file # f
      BY <1>1 DEF SafeInv, OneCall
    <3> QED
      BY <1>0, <1>4, <3>1, <3>2
         DEF CallOK, InOp, FileAt, PinAt, PinCommand, IsOwn, Whole, First, Active
  <2> QED
    BY <2>1, <2>2 DEF CallsOK
<1>7. PinsKnown' /\ ListsKnown'
  <2>1. ~Keeper(call[t])
    BY <1>0 DEF Keeper
  <2>2. PinsKnown'
    BY <1>0, <1>2, <2>1, PinsKnownStep DEF SafeInv
  <2>3. ListsKnown'
    BY <1>0 DEF SafeInv, ListsKnown, ListOf
  <2> QED
    BY <2>2, <2>3
<1>8. FilesKnown'
  <2>1. \A u \in Threads, g \in Files : Releasing(u, g) => Releasing(u, g)'
    BY <1>0, <1>1, <1>4 DEF Releasing, Running, CallOK, InOp
  <2> QED
    BY <1>0, <2>1 DEF SafeInv, FilesKnown, TypeOK
<1> QED
  BY <1>5, <1>6, <1>7, <1>8 DEF SafeInv

(* The proc_info goes, after the last of its pinnings. *)
LEMMA SafeRelDel ==
    ASSUME TypeOK, SafeInv, NEW t \in Threads, RelDel(t)
    PROVE  SafeInv'
<1> DEFINE f == call[t].file
<1>0. /\ CallTyped /\ call[t].pc = "rel_del" /\ UNCHANGED <<opened, pins, pinning_list>>
      /\ users' = users \ {f}
  BY DEF TypeOK, CallTyped, RelDel
<1>1. NoExit /\ Active(t) /\ CallOK(call[t]) /\ f \in Files
  BY <1>0, Busy
<1>a. call[t].op = "release" /\ First(f) = {} /\ f \notin opened
  BY <1>0, <1>1 DEF CallOK, InOp, FileAt, PinAt
<1> DEFINE c == [call[t] EXCEPT !.pc = "return", !.pages = {}, !.want = None,
                                !.ret = "0"]
<1>2. call' = [call EXCEPT ![t] = c]
  BY <1>0, <1>a DEF RelDel, Finish, CallTyped
<1>3. c.pc = "return" /\ c.op = "release" /\ c.file = f /\ c.pages = {}
  BY <1>0, <1>a, Fields
<1>4. call'[t] = c /\ \A u \in Threads \ {t} : call'[u] = call[u]
  BY <1>0, <1>2 DEF CallTyped
<1> HIDE DEF c
<1>5. OneCall' /\ ExitAlone' /\ OneBuilder'
  BY <1>0, <1>1, <1>2, <1>3, StayAlone, OneCallStep, ExitAloneStep, OneBuilderStep
     DEF SafeInv
<1>6. CallsOK'
  <2>1. CallOK(call[t])'
    BY <1>3, <1>4 DEF CallOK, InOp, FileAt, PinAt, PinCommand
  <2>2. ASSUME NEW u \in Threads \ {t} PROVE CallOK(call[u])'
    <3>1. CallOK(call[u])
      BY DEF SafeInv, CallsOK
    <3>2. Active(u) => call[u].file # f
      BY <1>1 DEF SafeInv, OneCall
    <3> QED
      BY <1>0, <1>4, <3>1, <3>2
         DEF CallOK, InOp, FileAt, PinAt, PinCommand, IsOwn, Whole, First, Active
  <2> QED
    BY <2>1, <2>2 DEF CallsOK
<1>7. PinsKnown' /\ ListsKnown'
  <2>1. ~Keeper(call[t])
    BY <1>0 DEF Keeper
  <2>2. /\ pinning_list[f] = <<>>
        /\ \A q \in Pins : pins[q].owner # f
    BY <1>1, <1>a, FirstIn DEF SafeInv, ListsKnown, ListOf
  <2>3. PinsKnown'
    BY <1>0, <1>2, <2>1, <2>2, PinsKnownStep DEF SafeInv
  <2>4. ListsKnown'
    BY <1>0, <2>2 DEF SafeInv, ListsKnown, ListOf
  <2> QED
    BY <2>3, <2>4
<1>8. FilesKnown'
  <2>1. \A u \in Threads, g \in Files \ {f} : Releasing(u, g) => Releasing(u, g)'
    BY <1>4 DEF Releasing, Running
  <2> QED
    BY <1>0, <1>a, <2>1 DEF SafeInv, FilesKnown, TypeOK
<1> QED
  BY <1>5, <1>6, <1>7, <1>8 DEF SafeInv

LEMMA SafeReturn ==
    ASSUME TypeOK, SafeInv, NEW t \in Threads, Return(t)
    PROVE  SafeInv'
<1>0. /\ call[t].pc = "return" /\ UNCHANGED <<opened, users, pins, pinning_list>>
      /\ call' = [call EXCEPT ![t] = IdleCall]
  BY DEF Return
<1>1. NoExit
  BY <1>0, WhileBusy
<1>2. /\ CallOK(IdleCall) /\ Alone(t, IdleCall) /\ ~Keeper(call[t])
      /\ IdleCall.pc \notin {"exit_loop", "fill", "list_add"}
      /\ \A f \in Files : ~Releasing(t, f)
  BY <1>0 DEF IdleCall, CallOK, InOp, FileAt, PinAt, PinCommand, Alone,
              Releasing, Running, Keeper
<1> QED
  BY <1>0, <1>1, <1>2, CallStep

LEMMA SafeExitLoop ==
    ASSUME TypeOK, SafeInv, NEW t \in Threads, ExitLoop(t)
    PROVE  SafeInv'
<1>0. /\ CallTyped /\ call[t].pc = "exit_loop" /\ users = {}
      /\ \A u \in Threads \ {t} : call[u].pc = "idle"
      /\ UNCHANGED <<opened, users, pins, pinning_list>>
  BY DEF TypeOK, CallTyped, ExitLoop, SafeInv, ExitAlone
<1>1. /\ call'[t].pc = "return" /\ call'[t].op = "exit" /\ call'[t].pages = {}
      /\ \A u \in Threads \ {t} : call'[u] = call[u]
  <2>1. call[t].op = "exit"
    BY <1>0 DEF SafeInv, CallsOK, CallOK, InOp
  <2>2. Finish(t, "0") /\ call[t] \in Call
    BY <1>0 DEF ExitLoop, CallTyped
  <2>3. /\ call'[t] = [call[t] EXCEPT !.pc = "return", !.pages = {},
                                      !.want = None, !.ret = "0"]
        /\ \A u \in Threads \ {t} : call'[u] = call[u]
    BY <1>0, <2>2 DEF Finish, CallTyped
  <2> QED
    BY <2>1, <2>2, <2>3 DEF Call
<1>a. \A u \in Threads : call[u].pages = {}
  BY <1>0 DEF SafeInv, CallsOK, CallOK, PinCommand
<1>2. CallsOK' /\ OneCall' /\ ExitAlone' /\ OneBuilder'
  BY <1>0, <1>1, <1>a DEF CallsOK, CallOK, InOp, FileAt, PinAt, PinCommand, OneCall,
                          Active, ExitAlone, OneBuilder, Builds
<1>3. PinsKnown' /\ FilesKnown' /\ ListsKnown'
  BY <1>0, ListsKept DEF SafeInv, PinsKnown, FilesKnown, At
<1> QED
  BY <1>2, <1>3 DEF SafeInv

(* No freed pinning or proc_info is used and no code is unmapped. *)
LEMMA NoUndefined ==
    ASSUME TypeOK, SafeInv, NEW t \in Threads
    PROVE  ~UseAfterFree(t) /\ ~BadListDel(t) /\ ~CodeGone(t)
<1>1. CallOK(call[t]) /\ None \notin Files
  BY PinnerAssumption DEF SafeInv, CallsOK, PinnerAssumption
<1>2. /\ call[t].pc \in UsesPin => call[t].pin \in Pins
      /\ call[t].pc \in UsesFile => call[t].file \in Files
  BY DEF TypeOK, PointersSet
<1>3. call[t].pc \in {"walk", "free_del"} =>
        /\ OnList(call[t].pin) /\ pins[call[t].pin].owner = call[t].file
        /\ pins[call[t].pin].owner # None
  BY <1>1, <1>2, OwnedIsListed DEF CallOK, PinAt, IsOwn, SafeInv, UsesPin, UsesFile
<1>4. call[t].pc \in {"lookup", "list_add", "rel_loop", "rel_del"} =>
        call[t].file \in users
  BY <1>1 DEF CallOK, InOp, FileAt, SafeInv, FilesKnown
<1>5. ~UseAfterFree(t)
  BY <1>1, <1>3, <1>4 DEF UseAfterFree, CallOK, PinAt, IsOwn, Whole
<1>6. ~BadListDel(t)
  BY <1>3 DEF BadListDel
<1>7. ~CodeGone(t)
  BY DEF CodeGone, Running, SafeInv, ExitAlone
<1> QED
  BY <1>5, <1>6, <1>7

(* A step that changes nothing that SafeInv speaks of but the module. *)
LEMMA Undisturbed ==
    ASSUME SafeInv, UNCHANGED <<opened, users, pins, pinning_list, call>>, ExitAlone'
    PROVE  SafeInv'
<1>1. CallsOK' /\ OneCall' /\ OneBuilder'
  BY DEF SafeInv, CallsOK, CallOK, InOp, FileAt, PinAt, PinCommand, IsOwn, Whole,
         First, OneCall, Active, OneBuilder, Builds
<1>2. PinsKnown' /\ FilesKnown' /\ ListsKnown'
  BY ListsKept DEF SafeInv, PinsKnown, Whole, FilesKnown, At, Releasing, Running
<1> QED
  BY <1>1, <1>2 DEF SafeInv

LEMMA SafeStep ==
    ASSUME Orderly, TypeOK, SafeInv, NEW t \in Threads, Step(t)
    PROVE  /\ SafeInv'
           /\ ~WildPut(t) /\ "gup" \notin Failures => fault' = fault
<1> DEFINE R == SafeInv' /\ (~WildPut(t) /\ "gup" \notin Failures => fault' = fault)
<1>x. ASSUME NEW x, Crash(x) PROVE SafeInv'
  <2>1. UNCHANGED <<module, opened, users, pins, pinning_list, call>>
    BY <1>x DEF Crash
  <2>2. ExitAlone'
    BY <2>1 DEF SafeInv, ExitAlone
  <2> QED
    BY <2>1, <2>2, Undisturbed
<1>0. CallTyped
  BY DEF TypeOK, CallTyped
<1>1. CASE OpenLock(t)
  BY <1>1, GoOnGoto DEF OpenLock
<1>2. CASE OpenAdd(t)
  BY <1>2, SafeOpenAdd DEF OpenAdd
<1>3. CASE GetUserPages(t)
  BY <1>3, GoOnGoto DEF GetUserPages
<1>4. CASE GetUserPagesShort(t)
  <2>1. SafeInv'
    BY <1>4, <1>x, GoOnFinish DEF GetUserPagesShort
  <2> QED
    BY <1>4, <2>1 DEF GetUserPagesShort
<1>17. CASE WildPut(t)
  BY <1>17, <1>x DEF WildPut
<1>18. CASE ListAdd(t)
  BY <1>18, SafeListAdd DEF ListAdd
<1>19. CASE Walk(t)
  <2>1. call[t].pc = "walk" /\ UNCHANGED <<opened, users, pins, pinning_list, fault>>
    BY <1>19 DEF Walk
  <2>a. /\ CallOK(call[t]) /\ call[t].pin \in Pins /\ call[t].file \in Files
        /\ call[t].op \in {"unpin", "flush"} /\ pins[call[t].pin].owner = call[t].file
    BY <2>1, Busy DEF CallOK, InOp, PinAt, IsOwn, UsesPin
  <2>b. \A p \in Pins : pins[p].owner = call[t].file =>
                          Contains(pinning_list[call[t].file], p)
    BY <2>a DEF SafeInv, ListsKnown, ListOf
  <2>2. ASSUME NEW r, Finish(t, r) PROVE SafeInv'
    BY <2>1, <2>2, GoOnFinish
  <2>4. ASSUME NEW n \in After(call[t].pin),
               call' = [call EXCEPT ![t] = [call[t] EXCEPT !.pin = n]]
        PROVE  SafeInv'
    <3> DEFINE c == [call[t] EXCEPT !.pin = n]
    <3>1. /\ c.pc = "walk" /\ c.op = call[t].op /\ c.file = call[t].file
          /\ c.pin = n /\ c.pages = call[t].pages
      BY <1>0, <2>1, Fields
    <3>2. call' = [call EXCEPT ![t] = c]
      BY <2>4
    <3> HIDE DEF c
    <3>3. n \in Pins /\ Contains(pinning_list[call[t].file], n)
      BY <2>4, <2>a, AfterIn, FoundArePins DEF TypeOK, RestTyped
    <3> QED
      BY <2>1, <3>1, <3>2, <3>3, GoOnListed
  <2>5. ASSUME call' = [call EXCEPT ![t] = [call[t] EXCEPT !.want = None,
                  !.pc = IF call[t].op = "unpin" THEN "free_put" ELSE "sync"]]
        PROVE  SafeInv'
    <3> DEFINE l == IF call[t].op = "unpin" THEN "free_put" ELSE "sync"
               c == [call[t] EXCEPT !.want = None, !.pc = l]
    <3>1. /\ c.pc = l /\ c.op = call[t].op /\ c.file = call[t].file
          /\ c.pin = call[t].pin /\ c.pages = call[t].pages
      BY <1>0, Fields
    <3>2. call' = [call EXCEPT ![t] = c]
      BY <2>5
    <3> HIDE DEF c
    <3> QED
      BY <2>1, <2>a, <2>b, <3>1, <3>2, GoOnListed
  <2> QED
    BY <1>19, <2>1, <2>2, <2>4, <2>5 DEF Walk
<1>20. CASE FreeSg(t)
  BY <1>20, SafeFreeSg DEF FreeSg
<1>5. CASE NewPinning(t)
  BY <1>5, SafeNewPinning DEF NewPinning
<1>6. CASE FillSglist(t)
  BY <1>6, SafeFill DEF FillSglist
<1>7. CASE Deliver(t)
  <2>1. call[t].pc = "deliver" /\ UNCHANGED <<opened, users, pins, pinning_list, fault>>
    BY <1>7 DEF Deliver
  <2>2. CASE Finish(t, "0")
    BY <2>1, <2>2, GoOnFinish
  <2>3. ASSUME NEW r \in {"ENOMEM", "EAGAIN"},
               call' = [call EXCEPT ![t] = [call[t] EXCEPT !.pc = "free_put",
                                                           !.ret = r]]
        PROVE  SafeInv'
    <3> DEFINE c == [call[t] EXCEPT !.pc = "free_put", !.ret = r]
    <3>1. /\ c.pc = "free_put" /\ c.op = call[t].op /\ c.file = call[t].file
          /\ c.pin = call[t].pin /\ c.pages = call[t].pages /\ c.ret = r
      BY <1>0, Fields
    <3>2. call' = [call EXCEPT ![t] = c]
      BY <2>3
    <3> HIDE DEF c
    <3>3. CallOK(c) /\ ~Keeper(call[t])
      BY <2>1, <3>1 DEF SafeInv, CallsOK, CallOK, InOp, FileAt, PinAt, PinCommand,
                        IsOwn, Keeper
    <3> QED
      BY <2>1, <3>1, <3>2, <3>3, GoOn
  <2> QED
    BY <1>7, <2>1, <2>2, <2>3 DEF Deliver
<1>8. CASE Lookup(t)
  <2>1. call[t].pc = "lookup" /\ UNCHANGED <<opened, users, pins, pinning_list, fault>>
    BY <1>8 DEF Lookup
  <2>2. ASSUME NEW r, Finish(t, r) PROVE SafeInv'
    BY <2>1, <2>2, GoOnFinish
  <2>3. ASSUME NEW q \in First(call[t].file), NEW m,
               call' = [call EXCEPT ![t] = [call[t] EXCEPT !.pc = "walk", !.pin = q,
                                                           !.want = m]]
        PROVE  SafeInv'
    <3> DEFINE c == [call[t] EXCEPT !.pc = "walk", !.pin = q, !.want = m]
    <3>1. /\ c.pc = "walk" /\ c.op = call[t].op /\ c.file = call[t].file
          /\ c.pin = q /\ c.pages = call[t].pages
      BY <1>0, Fields
    <3>2. call' = [call EXCEPT ![t] = c]
      BY <2>3
    <3> HIDE DEF c
    <3>3. call[t].file \in Files
      BY <2>1, Busy
    <3>4. q \in Pins /\ Contains(pinning_list[call[t].file], q)
      BY <2>3, <3>3, FirstIn, FoundArePins DEF TypeOK, RestTyped
    <3> QED
      BY <2>1, <3>1, <3>2, <3>4, GoOnListed
  <2> QED
    BY <1>8, <2>1, <2>2, <2>3 DEF Lookup
<1>9. CASE Sync(t)
  BY <1>9, GoOnFinish DEF Sync
<1>10. CASE FreePut(t)
  BY <1>10, SafeFreePut DEF FreePut
<1>11. CASE FreeDel(t)
  BY <1>11, SafeFreeDel DEF FreeDel
<1>12. CASE RelLoop(t)
  <2>1. call[t].pc = "rel_loop" /\ UNCHANGED <<opened, users, pins, pinning_list, fault>>
    BY <1>12 DEF RelLoop
  <2>2. CASE First(call[t].file) = {} /\ Goto(t, "rel_lock")
    BY <2>1, <2>2, GoOnGoto
  <2>3. ASSUME NEW q \in First(call[t].file),
               call' = [call EXCEPT ![t] = [call[t] EXCEPT !.pc = "free_put", !.pin = q]]
        PROVE  SafeInv'
    <3> DEFINE c == [call[t] EXCEPT !.pc = "free_put", !.pin = q]
    <3>1. /\ c.pc = "free_put" /\ c.op = call[t].op /\ c.file = call[t].file
          /\ c.pin = q /\ c.pages = call[t].pages
      BY <1>0, Fields
    <3>2. call' = [call EXCEPT ![t] = c]
      BY <2>3
    <3> HIDE DEF c
    <3>3. call[t].file \in Files
      BY <2>1, Busy
    <3>4. q \in Pins /\ Contains(pinning_list[call[t].file], q)
      BY <2>3, <3>3, FirstIn, FoundArePins DEF TypeOK, RestTyped
    <3> QED
      BY <2>1, <3>1, <3>2, <3>4, GoOnListed
  <2> QED
    BY <1>12, <2>1, <2>2, <2>3 DEF RelLoop
<1>13. CASE RelLock(t)
  BY <1>13, GoOnGoto DEF RelLock
<1>14. CASE RelDel(t)
  BY <1>14, SafeRelDel DEF RelDel
<1>15. CASE ExitLoop(t)
  BY <1>15, SafeExitLoop DEF ExitLoop
<1>16. CASE Return(t)
  BY <1>16, SafeReturn DEF Return
<1> QED
  BY <1>1, <1>2, <1>3, <1>4, <1>5, <1>6, <1>7, <1>8, <1>9, <1>10, <1>11, <1>12,
     <1>13, <1>14, <1>15, <1>16, <1>17, <1>18, <1>19, <1>20, NoUndefined DEF Step

LEMMA SafeInit == Init => SafeInv
<1> SUFFICES ASSUME Init PROVE SafeInv
  OBVIOUS
<1>1. CallsOK
  BY DEF Init, CallsOK, CallOK, InOp, FileAt, PinAt, PinCommand, IdleCall
<1>2. OneCall /\ ExitAlone
  BY DEF Init, OneCall, Active, ExitAlone, IdleCall
<1>3. PinsKnown /\ FilesKnown /\ OneBuilder
  BY DEF Init, PinsKnown, FilesKnown, FreePin, OneBuilder, Builds, IdleCall
<1>4. ListsKnown
  BY PinnerAssumption
     DEF Init, ListsKnown, ListOf, Once, Contains, FreePin, PinnerAssumption
<1> QED
  BY <1>1, <1>2, <1>3, <1>4 DEF SafeInv

LEMMA SafeNext ==
    ASSUME Orderly, TypeOK, SafeInv, [Next]_vars
    PROVE  /\ SafeInv'
           /\ (\A t \in Threads : ~WildPut(t)) /\ "gup" \notin Failures => fault' = fault
<1>1. CASE PinnerInit
  <2>1. UNCHANGED <<opened, users, pins, pinning_list, call, fault>> /\ NoExit
    BY <1>1 DEF PinnerInit, SafeInv, ExitAlone, NoExit
  <2>2. ExitAlone'
    BY <2>1 DEF ExitAlone, NoExit
  <2> QED
    BY <2>1, <2>2, Undisturbed
<1>2. ASSUME NEW t \in Threads, Entry(t) PROVE SafeInv' /\ fault' = fault
  BY <1>2, SafeEntry
<1>3. ASSUME NEW t \in Threads, Step(t)
      PROVE  /\ SafeInv'
             /\ ~WildPut(t) /\ "gup" \notin Failures => fault' = fault
  BY <1>3, SafeStep
<1>4. CASE UNCHANGED vars
  <2>1. UNCHANGED <<module, opened, users, pins, pinning_list, call, fault>>
    BY <1>4 DEF vars
  <2>2. ExitAlone'
    BY <2>1 DEF SafeInv, ExitAlone
  <2> QED
    BY <2>1, <2>2, Undisturbed
<1> QED
  BY <1>1, <1>2, <1>3, <1>4 DEF Next

-----------------------------------------------------------------------------
(* References.  A pin command takes them, hands them to the pinning it has *)
(* built, and whoever frees that puts them: they are counted where they    *)
(* are kept, the pages that a call carries and the pages that a pinning    *)
(* holds.                                                                  *)

HeldBy(g) == {q \in Pins : g \in pins[q].held}

(* How many more holders a page has than references, and that a step of    *)
(* the driver leaves it so: a reference moves with its holder.             *)
Balance(g) == Cardinality(HeldBy(g)) + Cardinality(CallHolders(g)) - refs[g]

Balanced == \A g \in Pages : Balance(g)' = Balance(g)

Accounted == \A g \in Pages : Balance(g) = 0

(* No step leaves a page with more references for the same holders, and    *)
(* none is leaked.                                                         *)
NoneGained == \A g \in Pages : Balance(g)' >= Balance(g)

NoneLeaked == \A g \in Pages : Balance(g) >= 0

(* The pages that a call has references to. *)
Carries(c) == IF c.pc = "gup" THEN {} ELSE c.pages

LEMMA CarriesHolders ==
    \A g : CallHolders(g) = {t \in Threads : g \in Carries(call[t])}
BY DEF CallHolders, Carries

LEMMA HoldersFinite ==
    ASSUME NEW g \in Pages
    PROVE  /\ IsFiniteSet(HeldBy(g)) /\ Cardinality(HeldBy(g)) \in Nat
           /\ IsFiniteSet(CallHolders(g)) /\ Cardinality(CallHolders(g)) \in Nat
<1>1. HeldBy(g) \in SUBSET Pins /\ CallHolders(g) \in SUBSET Threads
  BY DEF HeldBy, CallHolders
<1> QED
  BY <1>1, FiniteAssumption, FS_Subset, FS_CardinalityType DEF FiniteAssumption

(* Nobody holds pages but the pinnings that are on a list or on their way  *)
(* to it.                                                                  *)
LEMMA HeldAreHolders ==
    ASSUME TypeOK, SafeInv, NEW g
    PROVE  PinHolders(g) = HeldBy(g)
<1> SUFFICES ASSUME NEW q \in Pins, g \in pins[q].held
             PROVE  OnList(q) \/ \E t \in Threads : At(t, "list_add", q)
  BY DEF PinHolders, HeldBy, At
<1>1. pins[q].state \in PinStates /\ None \notin Files /\ users \subseteq Files
  BY PinnerAssumption DEF TypeOK, Pinning, PinnerAssumption
<1>2. CASE pins[q].state \in {"free", "bare"}
  BY <1>2 DEF SafeInv, PinsKnown, FreePin, BarePin
<1>3. CASE pins[q].state = "drained"
  BY <1>3 DEF SafeInv, PinsKnown, At, CallsOK, CallOK, PinAt
<1>4. CASE pins[q].state = "live"
  <2>1. pins[q].owner \in users => OnList(q)
    BY <1>1, OwnedIsListed DEF SafeInv
  <2> QED
    BY <1>4, <2>1 DEF SafeInv, PinsKnown
<1> QED
  BY <1>1, <1>2, <1>3, <1>4 DEF PinStates

(* Only a pin command carries pages, until its pinning has them. *)
LEMMA EmptyHanded ==
    ASSUME SafeInv, NEW t \in Threads, call[t].pc \notin {"gup", "new_pin", "fill"}
    PROVE  call[t].pages = {}
BY DEF SafeInv, CallsOK, CallOK, PinCommand

(* A step that moves no reference. *)
SameHeld == \A q \in Pins : pins'[q].held = pins[q].held

LEMMA CountKept ==
    ASSUME SameHeld, UNCHANGED refs,
           \A t \in Threads : Carries(call'[t]) = Carries(call[t])
    PROVE  Balanced
<1>1. ASSUME NEW g \in Pages
      PROVE  CallHolders(g)' = CallHolders(g) /\ HeldBy(g)' = HeldBy(g)
  BY DEF CallHolders, Carries, HeldBy, SameHeld
<1> QED
  BY <1>1 DEF Balanced, Balance

LEMMA RefsEntry ==
    ASSUME TypeOK, SafeInv, NEW t \in Threads, Entry(t)
    PROVE  Balanced
<1>0. CallTyped
  BY DEF TypeOK, CallTyped
<1>1. UNCHANGED <<pins, refs>>
  BY DEF Entry, ExitEntry, OpenEntry, CloseEntry, CallGone, Crash, WriteRejected,
         WritePin, WriteHandle
<1>2. Carries(call[t]) = {}
  BY EmptyHanded DEF Entry, Carries
<1> DEFINE R == /\ Carries(call'[t]) = {}
                /\ \A u \in Threads \ {t} : call'[u] = call[u]
<1>3. ASSUME NEW o, NEW f, NEW l, NEW S, Begin(t, o, f, l, S), l = "gup" \/ S = {}
      PROVE  R
  <2>1. /\ call'[t] = [pc |-> l, op |-> o, file |-> f, pin |-> None, pages |-> S,
                       want |-> None, ret |-> "0"]
        /\ \A u \in Threads \ {t} : call'[u] = call[u]
    BY <1>0, <1>3 DEF Begin, CallTyped
  <2> QED
    BY <1>3, <2>1 DEF Carries
<1>4. ASSUME NEW o, NEW f, NEW r,
             call' = [call EXCEPT ![t] = [IdleCall EXCEPT !.pc = "return",
                                     !.op = o, !.file = f, !.ret = r]]
      PROVE  R
  <2>1. /\ call'[t] = [IdleCall EXCEPT !.pc = "return", !.op = o, !.file = f, !.ret = r]
        /\ \A u \in Threads \ {t} : call'[u] = call[u]
    BY <1>0, <1>4 DEF CallTyped
  <2> QED
    BY <2>1 DEF Carries, IdleCall
<1> HIDE DEF R
<1>5. ASSUME ExitEntry(t) PROVE R
  <2>1. Begin(t, "exit", None, "exit_loop", {})
    BY <1>5 DEF ExitEntry
  <2> QED
    BY <1>3, <2>1
<1>6. ASSUME NEW f \in Files, OpenEntry(t, f) PROVE R
  BY <1>3, <1>4, <1>6 DEF OpenEntry
<1>7. ASSUME NEW f \in Files, CloseEntry(t, f) PROVE R
  BY <1>3, <1>7 DEF CloseEntry
<1>8. ASSUME NEW f \in Files, CallGone(f) PROVE R
  BY <1>2, <1>8 DEF CallGone, Crash, R
<1>9. ASSUME NEW f \in Files, NEW r \in Codes, WriteRejected(t, f, r) PROVE R
  BY <1>4, <1>9 DEF WriteRejected
<1>10. ASSUME NEW f \in Files, NEW buf \in SUBSET Pages, WritePin(t, f, buf) PROVE R
  BY <1>3, <1>4, <1>10 DEF WritePin
<1>11. ASSUME NEW f \in Files, NEW o \in HandleOps, WriteHandle(t, f, o) PROVE R
  BY <1>3, <1>11 DEF WriteHandle
<1>12. R
  BY <1>5, <1>6, <1>7, <1>8, <1>9, <1>10, <1>11 DEF Entry
<1> QED
  BY <1>1, <1>2, <1>12, CountKept DEF R, SameHeld

LEMMA RefsTake ==
    ASSUME TypeOK, NEW t \in Threads, GetUserPages(t)
    PROVE  Balanced
<1>0. CallTyped /\ refs \in [Pages -> Int]
  BY DEF TypeOK, CallTyped
<1>1. /\ call[t].pc = "gup" /\ call'[t].pc = "new_pin" /\ call'[t].pages = call[t].pages
      /\ \A u \in Threads \ {t} : call'[u] = call[u]
      /\ pins' = pins
      /\ refs' = [g \in Pages |-> IF g \in call[t].pages THEN refs[g] + 1 ELSE refs[g]]
  BY <1>0 DEF GetUserPages, Goto, GetAll, CallTyped, Call
<1>2. ASSUME NEW g \in Pages
      PROVE  Balance(g)' = Balance(g)
  <2>1. HeldBy(g)' = HeldBy(g) /\ t \notin CallHolders(g)
    BY <1>1 DEF HeldBy, CallHolders
  <2>2. CASE g \in call[t].pages
    <3>1. CallHolders(g)' = CallHolders(g) \cup {t}
      BY <1>1, <2>2 DEF CallHolders
    <3>2. Cardinality(CallHolders(g) \cup {t}) = Cardinality(CallHolders(g)) + 1
      BY <2>1, HoldersFinite, FS_AddElement
    <3>3. refs'[g] = refs[g] + 1 /\ refs[g] \in Int
      BY <1>0, <1>1, <2>2
    <3> QED
      BY <2>1, <3>1, <3>2, <3>3, HoldersFinite DEF Balance
  <2>3. CASE g \notin call[t].pages
    <3>1. CallHolders(g)' = CallHolders(g)
      BY <1>1, <2>3 DEF CallHolders
    <3> QED
      BY <1>1, <2>1, <2>3, <3>1 DEF Balance
  <2> QED
    BY <2>2, <2>3
<1> QED
  BY <1>2 DEF Balanced

(* put_page_list on all that the call carries. *)
LEMMA RefsDrop ==
    ASSUME TypeOK, NEW t \in Threads, NEW r, Finish(t, r), UNCHANGED pins,
           call[t].pc # "gup", PutAll(call[t].pages)
    PROVE  Balanced
<1>0. CallTyped /\ refs \in [Pages -> Int]
  BY DEF TypeOK, CallTyped
<1>1. /\ call'[t].pages = {}
      /\ \A u \in Threads \ {t} : call'[u] = call[u]
      /\ refs' = [g \in Pages |-> IF g \in call[t].pages THEN refs[g] - 1 ELSE refs[g]]
  BY <1>0 DEF Finish, PutAll, CallTyped, Call
<1>2. ASSUME NEW g \in Pages
      PROVE  Balance(g)' = Balance(g)
  <2>1. HeldBy(g)' = HeldBy(g) /\ refs[g] \in Int
    BY <1>0 DEF HeldBy
  <2>2. /\ CallHolders(g)' = CallHolders(g) \ {t}
        /\ t \in CallHolders(g) <=> g \in call[t].pages
    BY <1>1 DEF CallHolders
  <2>3. Cardinality(CallHolders(g) \ {t}) =
           IF t \in CallHolders(g) THEN Cardinality(CallHolders(g)) - 1
                                   ELSE Cardinality(CallHolders(g))
    BY HoldersFinite, FS_RemoveElement
  <2> QED
    BY <1>1, <2>1, <2>2, <2>3, HoldersFinite DEF Balance
<1> QED
  BY <1>2 DEF Balanced

(* The references move from the call to the pinning. *)
LEMMA RefsFill ==
    ASSUME Orderly, TypeOK, SafeInv, NEW t \in Threads, FillSglist(t)
    PROVE  Balanced
<1>0. CallTyped /\ pins \in [Pins -> Pinning] /\ refs \in [Pages -> Int]
  BY DEF TypeOK, CallTyped
<1> DEFINE q == call[t].pin
<1>1. /\ call[t].pc = "fill" /\ q \in Pins /\ pins[q].held = {} /\ refs' = refs
  BY <1>0 DEF FillSglist, CallTyped, PointersSet, UsesPin, SafeInv, CallsOK, CallOK,
              PinAt, BarePin, FreePin
<1>2. /\ call'[t].pages = {} /\ pins'[q].held = call[t].pages
      /\ \A u \in Threads \ {t} : call'[u] = call[u]
      /\ \A p \in Pins \ {q} : pins'[p] = pins[p]
  <2>1. /\ pins' = [pins EXCEPT ![q] = [BarePin EXCEPT !.state = "live",
                            !.pages = call[t].pages, !.held = call[t].pages]]
        /\ call' = [call EXCEPT ![t] = [call[t] EXCEPT !.pc = "list_add",
                                                       !.pages = {}]]
    BY DEF FillSglist, Orderly
  <2> QED
    BY <1>0, <1>1, <2>1 DEF CallTyped, Call, BarePin, FreePin
<1>3. ASSUME NEW g \in Pages
      PROVE  Balance(g)' = Balance(g)
  <2>1. q \notin HeldBy(g) /\ refs[g] \in Int
    BY <1>0, <1>1 DEF HeldBy
  <2>2. CASE g \in call[t].pages
    <3>1. /\ HeldBy(g)' = HeldBy(g) \cup {q}
          /\ CallHolders(g)' = CallHolders(g) \ {t}
          /\ t \in CallHolders(g)
      BY <1>1, <1>2, <2>2 DEF HeldBy, CallHolders
    <3>2. Cardinality(HeldBy(g) \cup {q}) = Cardinality(HeldBy(g)) + 1
      BY <2>1, HoldersFinite, FS_AddElement
    <3>3. Cardinality(CallHolders(g) \ {t}) = Cardinality(CallHolders(g)) - 1
      BY <3>1, HoldersFinite, FS_RemoveElement
    <3> QED
      BY <1>1, <2>1, <3>1, <3>2, <3>3, HoldersFinite DEF Balance
  <2>3. CASE g \notin call[t].pages
    <3>1. HeldBy(g)' = HeldBy(g) /\ CallHolders(g)' = CallHolders(g)
      BY <1>1, <1>2, <2>1, <2>3 DEF HeldBy, CallHolders
    <3> QED
      BY <1>1, <3>1 DEF Balance
  <2> QED
    BY <2>2, <2>3
<1> QED
  BY <1>3 DEF Balanced

(* The pinning gives its references back. *)
LEMMA RefsFreePut ==
    ASSUME TypeOK, SafeInv, NEW t \in Threads, FreePut(t)
    PROVE  Balanced
<1>0. CallTyped /\ pins \in [Pins -> Pinning] /\ refs \in [Pages -> Int]
  BY DEF TypeOK, CallTyped
<1> DEFINE q == call[t].pin
<1>1. /\ call[t].pc = "free_put" /\ q \in Pins /\ pins[q].state = "live"
      /\ pins[q].held = pins[q].pages
  BY <1>0 DEF FreePut, CallTyped, PointersSet, UsesPin, SafeInv, CallsOK, CallOK,
              PinAt, IsOwn, Whole
<1>2. /\ call'[t].pages = call[t].pages /\ call'[t].pc # "gup"
      /\ \A u \in Threads \ {t} : call'[u] = call[u]
      /\ pins'[q].held = {} /\ \A p \in Pins \ {q} : pins'[p] = pins[p]
      /\ refs' = [g \in Pages |-> IF g \in pins[q].pages THEN refs[g] - 1 ELSE refs[g]]
  BY <1>0, <1>1 DEF FreePut, Goto, PutAll, CallTyped, Call, Pinning
<1>3. ASSUME NEW g \in Pages
      PROVE  Balance(g)' = Balance(g)
  <2>1. CallHolders(g)' = CallHolders(g) /\ refs[g] \in Int
    BY <1>0, <1>1, <1>2 DEF CallHolders
  <2>2. /\ HeldBy(g)' = HeldBy(g) \ {q}
        /\ q \in HeldBy(g) <=> g \in pins[q].pages
    BY <1>1, <1>2 DEF HeldBy
  <2>3. Cardinality(HeldBy(g) \ {q}) =
           IF q \in HeldBy(g) THEN Cardinality(HeldBy(g)) - 1
                              ELSE Cardinality(HeldBy(g))
    BY HoldersFinite, FS_RemoveElement
  <2> QED
    BY <1>2, <2>1, <2>2, <2>3, HoldersFinite DEF Balance
<1> QED
  BY <1>3 DEF Balanced

(* get_user_pages_fast falls short: what is put was never counted. *)
LEMMA RefsShort ==
    ASSUME TypeOK, NEW t \in Threads, call[t].pc = "gup", Finish(t, "EAGAIN"),
           NEW missing \in SUBSET call[t].pages,
           NEW stale \in [missing -> Pages \cup {None}],
           refs' = AfterPuts(missing, stale), UNCHANGED pins
    PROVE  NoneGained
<1>0. CallTyped /\ refs \in [Pages -> Int]
  BY DEF TypeOK, CallTyped
<1>1. /\ call'[t].pages = {}
      /\ \A u \in Threads \ {t} : call'[u] = call[u]
  BY <1>0 DEF Finish, CallTyped, Call
<1> SUFFICES ASSUME NEW g \in Pages PROVE Balance(g)' >= Balance(g)
  BY DEF NoneGained
<1>2. HeldBy(g)' = HeldBy(g) /\ CallHolders(g)' = CallHolders(g)
  BY <1>1 DEF HeldBy, CallHolders
<1> DEFINE hit == {m \in missing : stale[m] = g}
<1>3. Cardinality(hit) \in Nat
  <2>1. hit \subseteq Pages
    BY <1>0 DEF CallTyped, Call
  <2> QED
    BY <2>1, FiniteAssumption, FS_Subset, FS_CardinalityType DEF FiniteAssumption
<1>4. refs'[g] = refs[g] - Cardinality(hit)
  BY DEF AfterPuts
<1> HIDE DEF hit
<1> QED
  BY <1>0, <1>2, <1>3, <1>4, HoldersFinite DEF Balance

(* The steps of a call that has no pages in its hands. *)
Handless(t) == \/ OpenLock(t) \/ OpenAdd(t) \/ ListAdd(t) \/ Deliver(t)
               \/ Lookup(t) \/ Walk(t) \/ Sync(t) \/ FreeSg(t) \/ FreeDel(t)
               \/ RelLoop(t) \/ RelLock(t) \/ RelDel(t) \/ ExitLoop(t) \/ Return(t)

LEMMA RefsHandless ==
    ASSUME TypeOK, SafeInv, NEW t \in Threads, Handless(t)
    PROVE  Balanced
<1>0. CallTyped /\ pins \in [Pins -> Pinning] /\ CallOK(call[t])
  BY DEF TypeOK, CallTyped, SafeInv, CallsOK
<1>1. call[t].pc \notin {"gup", "new_pin", "fill"} /\ UNCHANGED refs
  BY DEF Handless, OpenLock, OpenAdd, ListAdd, Deliver, Lookup, Walk, Sync, FreeSg,
         FreeDel, RelLoop, RelLock, RelDel, ExitLoop, Return
<1>2. call[t].pages = {} /\ call[t] \in Call
  BY <1>0, <1>1, EmptyHanded DEF CallTyped
<1> DEFINE R == call'[t].pages = {} /\ \A u \in Threads \ {t} : call'[u] = call[u]
<1>a. ASSUME NEW c, call' = [call EXCEPT ![t] = c], c.pages = {} PROVE R
  BY <1>0, <1>a DEF CallTyped
<1>b. ASSUME NEW l, Goto(t, l) PROVE R
  <2> DEFINE c == [call[t] EXCEPT !.pc = l]
  <2>1. c.pages = {} /\ call' = [call EXCEPT ![t] = c]
    BY <1>0, <1>2, <1>b DEF Goto, Call, CallTyped
  <2> HIDE DEF c
  <2> QED
    BY <1>a, <2>1
<1>c. ASSUME NEW r, Finish(t, r) PROVE R
  <2> DEFINE c == [call[t] EXCEPT !.pc = "return", !.pages = {}, !.want = None, !.ret = r]
  <2>1. c.pages = {} /\ call' = [call EXCEPT ![t] = c]
    BY <1>2, <1>c DEF Finish, Call
  <2> HIDE DEF c
  <2> QED
    BY <1>a, <2>1
<1>d. ASSUME NEW q, NEW l, NEW w, NEW r, NEW f,
             \/ call' = [call EXCEPT ![t] = [call[t] EXCEPT !.pc = l, !.pin = q]]
             \/ call' = [call EXCEPT ![t] = [call[t] EXCEPT !.pin = q]]
             \/ call' = [call EXCEPT ![t] = [call[t] EXCEPT !.pin = q, !.pc = l]]
             \/ call' = [call EXCEPT ![t] = [call[t] EXCEPT !.pc = l, !.pin = q, !.want = w]]
             \/ call' = [call EXCEPT ![t] = [call[t] EXCEPT !.want = w, !.pc = l]]
             \/ call' = [call EXCEPT ![t] = [call[t] EXCEPT !.pc = l, !.ret = r]]
             \/ call' = [call EXCEPT ![t] = [call[t] EXCEPT !.pc = l, !.file = f]]
      PROVE  R
  BY <1>0, <1>2, <1>d DEF Call, CallTyped
<1> HIDE DEF R
<1>3. R
  <2>1. CASE \/ OpenLock(t) \/ OpenAdd(t) \/ ListAdd(t) \/ Sync(t) \/ FreeSg(t)
             \/ RelLock(t) \/ RelDel(t)
    BY <1>b, <1>c, <2>1 DEF OpenLock, OpenAdd, ListAdd, Sync, FreeSg, RelLock, RelDel
  <2>2. CASE Deliver(t)
    BY <1>c, <1>d, <2>2 DEF Deliver
  <2>3. CASE RelLoop(t)
    BY <1>b, <1>d, <2>3 DEF RelLoop
  <2>4. CASE ExitLoop(t)
    BY <1>c, <1>d, <2>4 DEF ExitLoop
  <2>5. CASE Lookup(t)
    <3>1. ASSUME NEW q, NEW m,
                 call' = [call EXCEPT ![t] = [call[t] EXCEPT !.pc = "walk", !.pin = q,
                                                             !.want = m]]
          PROVE  R
      BY <1>d, <3>1
    <3> QED
      BY <1>c, <2>5, <3>1 DEF Lookup
  <2>6. CASE Walk(t)
    BY <1>c, <1>d, <2>6 DEF Walk
  <2>7. CASE FreeDel(t)
    BY <1>d, <2>7 DEF FreeDel
  <2>8. CASE Return(t)
    <3>1. IdleCall.pages = {}
      BY DEF IdleCall
    <3> QED
      BY <1>a, <2>8, <3>1 DEF Return
  <2> QED
    BY <2>1, <2>2, <2>3, <2>4, <2>5, <2>6, <2>7, <2>8 DEF Handless
<1>4. SameHeld
  <2>1. CASE ListAdd(t) \/ FreeSg(t)
    <3>1. call[t].pin \in Pins
      BY <1>0, <2>1 DEF ListAdd, FreeSg, CallTyped, PointersSet, UsesPin
    <3>2. pins[call[t].pin] \in Pinning
      BY <1>0, <3>1
    <3>3. CASE ListAdd(t)
      BY <1>0, <3>1, <3>2, <3>3 DEF ListAdd, SameHeld, Pinning
    <3>4. CASE FreeSg(t)
      <4>1. [pins[call[t].pin] EXCEPT !.state = "drained", !.pages = {}].held
               = pins[call[t].pin].held
        BY <3>2 DEF Pinning
      <4> QED
        BY <1>0, <3>1, <3>4, <4>1 DEF FreeSg, SameHeld
    <3> QED
      BY <2>1, <3>3, <3>4
  <2>2. CASE FreeDel(t)
    BY <1>0, <2>2 DEF FreeDel, SameHeld, FreePin, CallOK, PinAt
  <2>3. CASE ~ListAdd(t) /\ ~FreeSg(t) /\ ~FreeDel(t)
    <3>1. UNCHANGED pins
      BY <2>3 DEF Handless, OpenLock, OpenAdd, Deliver, Lookup, Walk, Sync, RelLoop,
                  RelLock, RelDel, ExitLoop, Return
    <3> QED
      BY <3>1 DEF SameHeld
  <2> QED
    BY <2>1, <2>2, <2>3
<1>5. \A u \in Threads : Carries(call'[u]) = Carries(call[u])
  BY <1>2, <1>3 DEF Carries, R
<1> QED
  BY <1>1, <1>4, <1>5, CountKept

LEMMA RefsCrash == ASSUME NEW x, Crash(x) PROVE Balanced
BY CountKept DEF Crash, SameHeld

LEMMA BalanceIsInt == TypeOK' => \A g \in Pages : Balance(g)' \in Int
<1>1. TypeOK => \A g \in Pages : Balance(g) \in Int
  BY HoldersFinite DEF TypeOK, Balance
<1> DEFINE B == \A g \in Pages : Balance(g) \in Int
<1>2. TypeOK' => B'
  <2>1. TypeOK => B
    BY <1>1
  <2> HIDE DEF B
  <2> QED
    BY <2>1, PTL
<1> QED
  BY <1>2

LEMMA BalancedGainsNone ==
    ASSUME TypeOK, Balanced
    PROVE  NoneGained
<1>1. \A g \in Pages : Balance(g) \in Int
  BY HoldersFinite DEF TypeOK, Balance
<1> QED
  BY <1>1 DEF Balanced, NoneGained

LEMMA RefsStep ==
    ASSUME Orderly, TypeOK, SafeInv, NEW t \in Threads, Step(t)
    PROVE  /\ NoneGained
           /\ "gup" \notin Failures => Balanced
<1>1. CASE Handless(t)
  BY <1>1, RefsHandless, BalancedGainsNone
<1>2. CASE GetUserPages(t)
  BY <1>2, RefsTake, BalancedGainsNone
<1>3. CASE GetUserPagesShort(t)
  <2>1. call[t].pc = "gup" /\ "gup" \in Failures
    BY <1>3 DEF GetUserPagesShort
  <2>2. CASE Crash("wild_put")
    BY <2>2, RefsCrash, BalancedGainsNone
  <2>3. ASSUME NEW missing \in SUBSET call[t].pages,
               NEW stale \in [missing -> Pages \cup {None}],
               refs' = AfterPuts(missing, stale), Finish(t, "EAGAIN"), UNCHANGED pins
        PROVE  NoneGained
    BY <2>1, <2>3, RefsShort
  <2> QED
    BY <1>3, <2>1, <2>2, <2>3 DEF GetUserPagesShort
<1>4. CASE NewPinning(t)
  <2>0. CallTyped /\ call[t].pc = "new_pin"
    BY <1>4 DEF TypeOK, CallTyped, NewPinning
  <2>1. ASSUME NEW q \in Pins, pins[q].state = "free",
               pins' = [pins EXCEPT ![q] = BarePin],
               call' = [call EXCEPT ![t] = [call[t] EXCEPT !.pc = "fill", !.pin = q]],
               UNCHANGED refs
        PROVE  Balanced
    <3>1. pins[q].held = {}
      BY <2>1 DEF SafeInv, PinsKnown, FreePin
    <3>2. SameHeld
      BY <2>1, <3>1 DEF SameHeld, BarePin, FreePin, TypeOK
    <3>3. \A u \in Threads : Carries(call'[u]) = Carries(call[u])
      BY <2>0, <2>1 DEF Carries, CallTyped, Call
    <3> QED
      BY <2>1, <3>2, <3>3, CountKept
  <2>2. ASSUME PutAll(call[t].pages), Finish(t, "ENOMEM"), UNCHANGED pins
        PROVE  Balanced
    <3>1. call[t].pc # "gup"
      BY <2>0
    <3> QED
      BY <2>2, <3>1, RefsDrop
  <2> QED
    BY <1>4, <2>1, <2>2, BalancedGainsNone DEF NewPinning
<1>5. CASE FillSglist(t)
  BY <1>5, RefsFill, BalancedGainsNone
<1>6. CASE FreePut(t)
  BY <1>6, RefsFreePut, BalancedGainsNone
<1>7. CASE WildPut(t)
  BY <1>7, RefsCrash, BalancedGainsNone DEF WildPut
<1> QED
  BY <1>1, <1>2, <1>3, <1>4, <1>5, <1>6, <1>7, NoUndefined DEF Step, Handless

LEMMA RefsNext ==
    ASSUME Orderly, TypeOK, SafeInv, [Next]_vars
    PROVE  /\ NoneGained
           /\ "gup" \notin Failures => Balanced
<1>1. CASE PinnerInit \/ UNCHANGED vars
  <2>1. UNCHANGED <<pins, refs, call>>
    BY <1>1 DEF PinnerInit, vars
  <2> QED
    BY <2>1, CountKept, BalancedGainsNone DEF SameHeld
<1>2. ASSUME NEW t \in Threads, Entry(t) PROVE NoneGained /\ Balanced
  BY <1>2, RefsEntry, BalancedGainsNone
<1>3. ASSUME NEW t \in Threads, Step(t)
      PROVE  NoneGained /\ ("gup" \notin Failures => Balanced)
  BY <1>3, RefsStep
<1> QED
  BY <1>1, <1>2, <1>3 DEF Next

(* A put finds the reference it gives back. *)
LEMMA NoWildPut ==
    ASSUME TypeOK, SafeInv, Accounted, NEW t \in Threads
    PROVE  ~WildPut(t)
<1>1. CallOK(call[t]) /\ (call[t].pc \in UsesPin => call[t].pin \in Pins)
  BY DEF SafeInv, CallsOK, TypeOK, PointersSet
<1>2. ASSUME NEW g \in Pages, HeldBy(g) # {} \/ CallHolders(g) # {}
      PROVE  refs[g] > 0
  <2>1. refs[g] = Cardinality(HeldBy(g)) + Cardinality(CallHolders(g))
    <3>1. refs[g] \in Int /\ Balance(g) = 0
      BY DEF TypeOK, Accounted
    <3> QED
      BY <3>1, HoldersFinite DEF Balance
  <2>2. Cardinality(HeldBy(g)) # 0 \/ Cardinality(CallHolders(g)) # 0
    BY <1>2, HoldersFinite, FS_EmptySet
  <2> QED
    BY <2>1, <2>2, HoldersFinite
<1>3. CASE call[t].pc = "free_put"
  <2> DEFINE q == call[t].pin
  <2>1. q \in Pins /\ pins[q].held = pins[q].pages /\ pins[q].pages \subseteq Pages
    BY <1>1, <1>3 DEF CallOK, PinAt, Whole, UsesPin, TypeOK, Pinning
  <2>2. \A g \in pins[q].pages : q \in HeldBy(g)
    BY <2>1 DEF HeldBy
  <2>3. Puttable(pins[q].pages)
    BY <1>2, <2>1, <2>2 DEF Puttable
  <2> QED
    BY <1>3, <2>3 DEF WildPut
<1>4. CASE call[t].pc = "new_pin"
  <2>1. \A g \in call[t].pages : g \in Pages /\ t \in CallHolders(g)
    BY <1>4 DEF CallHolders, TypeOK, Call
  <2>2. Puttable(call[t].pages)
    BY <1>2, <2>1 DEF Puttable
  <2> QED
    BY <1>4, <2>2 DEF WildPut
<1> QED
  BY <1>3, <1>4 DEF WildPut

LEMMA BalanceInit == Init => Accounted
<1> SUFFICES ASSUME Init, NEW g \in Pages PROVE Balance(g) = 0
  BY DEF Accounted
<1>1. HeldBy(g) = {} /\ CallHolders(g) = {} /\ refs[g] = 0
  BY DEF Init, HeldBy, CallHolders, IdleCall, FreePin
<1> QED
  BY <1>1, FS_EmptySet DEF Balance

LEMMA SafeAlways == ASSUME Orderly PROVE Spec => [](TypeOK /\ SafeInv)
<1>1. TypeOK /\ SafeInv /\ [Next]_vars => SafeInv'
  BY SafeNext
<1> QED
  BY <1>1, SafeInit, TypeCorrect, PTL DEF Spec

LEMMA AccountedAlways == ASSUME Disciplined PROVE Spec => []Accounted
<1>1. TypeOK /\ SafeInv /\ Accounted /\ [Next]_vars => Accounted'
  BY RefsNext DEF Disciplined, Balanced, Accounted
<1>2. Spec => [](TypeOK /\ SafeInv)
  BY SafeAlways DEF Disciplined
<1> QED
  BY <1>1, <1>2, BalanceInit, PTL DEF Spec

LEMMA AccountedIsExact ==
    ASSUME TypeOK, SafeInv, Accounted
    PROVE  RefsExact
<1> SUFFICES ASSUME NEW g \in Pages
             PROVE  refs[g] = Cardinality(PinHolders(g)) + Cardinality(CallHolders(g))
  BY DEF RefsExact
<1>1. refs[g] \in Int /\ Balance(g) = 0
  BY DEF TypeOK, Accounted
<1> QED
  BY <1>1, HoldersFinite, HeldAreHolders DEF Balance

-----------------------------------------------------------------------------
(* What it gives. *)

(* Users who keep to the rules have exact reference counts: whatever else  *)
(* fails, with any number of threads on files of their own, every page has *)
(* one reference for each pinning that names it and each pin command that  *)
(* has it in its hands, and no other.                                      *)
THEOREM ReferencesExact ==
    ASSUME Disciplined
    PROVE  Spec => []RefsExact
<1>1. TypeOK /\ SafeInv /\ Accounted => RefsExact
  BY AccountedIsExact
<1>2. Spec => [](TypeOK /\ SafeInv)
  BY SafeAlways DEF Disciplined
<1> QED
  BY <1>1, <1>2, AccountedAlways, PTL

(* When get_user_pages_fast may fall short too, the error path that puts   *)
(* pages it has not got may drop references, but it leaves none behind     *)
(* that nobody will put.  (A scatterlist that cannot be allocated does:    *)
(* that is why Orderly asks for the memory.)                               *)
THEOREM ReferencesNotLeaked ==
    ASSUME Orderly
    PROVE  Spec => []RefsNotLeaked
<1>1. ASSUME TypeOK, SafeInv, NoneLeaked, TypeOK', [Next]_vars PROVE NoneLeaked'
  <2> SUFFICES ASSUME NEW g \in Pages PROVE Balance(g)' >= 0
    BY DEF NoneLeaked
  <2>1. Balance(g)' >= Balance(g) /\ Balance(g) >= 0
    BY <1>1, RefsNext DEF NoneGained, NoneLeaked
  <2>2. Balance(g) \in Int
    BY <1>1, HoldersFinite DEF TypeOK, Balance
  <2>3. Balance(g)' \in Int
    BY <1>1, BalanceIsInt
  <2> QED
    BY <2>1, <2>2, <2>3
<1>2. TypeOK /\ SafeInv /\ NoneLeaked => RefsNotLeaked
  <2> SUFFICES ASSUME TypeOK, SafeInv, NoneLeaked, NEW g \in Pages
               PROVE  refs[g] <= Cardinality(PinHolders(g)) + Cardinality(CallHolders(g))
    BY DEF RefsNotLeaked
  <2>1. refs[g] \in Int /\ Balance(g) >= 0
    BY DEF TypeOK, NoneLeaked
  <2> QED
    BY <2>1, HoldersFinite, HeldAreHolders DEF Balance
<1>3. Accounted => NoneLeaked
  BY DEF Accounted, NoneLeaked
<1> QED
  BY <1>1, <1>2, <1>3, BalanceInit, SafeAlways, PTL DEF Spec

(* Users who keep to the rules meet no undefined behaviour in the driver:  *)
(* no freed pinning or proc_info is used, no page is put that is not held, *)
(* and no code runs in a module that has gone.                             *)
THEOREM NoUndefinedBehaviour ==
    ASSUME Disciplined
    PROVE  Spec => []NoFault
<1>1. TypeOK /\ SafeInv /\ Accounted /\ NoFault /\ [Next]_vars => NoFault'
  BY SafeNext, NoWildPut DEF Disciplined, NoFault
<1>2. Spec => [](TypeOK /\ SafeInv)
  BY SafeAlways DEF Disciplined
<1>3. Init => NoFault
  BY DEF Init, NoFault
<1> QED
  BY <1>1, <1>2, <1>3, AccountedAlways, PTL DEF Spec

LEMMA WholeHolds == \A q \in Pins : Whole(q) => pins[q].held # {}
BY PinnerAssumption, FS_EmptySet DEF Whole, PinnerAssumption

(* A pin command has succeeded with a complete pinning of its file, with a *)
(* reference to every page, for as long as its caller does not use it, or  *)
(* failed with none.                                                       *)
THEOREM PinCommandsAtomic ==
    ASSUME Orderly
    PROVE  Spec => []PinAllOrNothing
<1>1. SafeInv => PinAllOrNothing
  BY WholeHolds DEF SafeInv, CallsOK, CallOK, PinCommand, PinAllOrNothing, IsOwn
<1> QED
  BY <1>1, SafeAlways, PTL

(* With no call under way, the pinnings that exist are complete and belong *)
(* to open files, and when every file is closed every page has been put.   *)
THEOREM NothingOutlivesItsFile ==
    ASSUME Disciplined
    PROVE  Spec => []QuietMeansClean
<1>1. ASSUME TypeOK, SafeInv, Accounted PROVE QuietMeansClean
  <2> SUFFICES ASSUME \A t \in Threads : ~Running(t)
               PROVE  /\ \A q \in Pins : \/ pins[q] = FreePin
                                         \/ /\ pins[q].state = "live"
                                            /\ pins[q].held = pins[q].pages
                                            /\ pins[q].owner \in opened /\ OnList(q)
                      /\ opened = {} => \A g \in Pages : refs[g] = 0
    BY DEF QuietMeansClean
  <2>1. users \subseteq opened
    BY <1>1 DEF SafeInv, FilesKnown, Releasing, TypeOK
  <2>2. ASSUME NEW q \in Pins
        PROVE  \/ pins[q] = FreePin
               \/ /\ pins[q].state = "live" /\ pins[q].held = pins[q].pages
                  /\ pins[q].owner \in opened /\ OnList(q)
    <3>1. \A t \in Threads : /\ ~At(t, "fill", q) /\ ~At(t, "list_add", q)
                             /\ ~At(t, "free_sg", q) /\ ~At(t, "free_del", q)
      BY DEF At, Running
    <3>2. pins[q].owner \in users => OnList(q)
      BY <1>1, OwnedIsListed, PinnerAssumption DEF SafeInv, TypeOK, PinnerAssumption
    <3> QED
      BY <1>1, <2>1, <3>1, <3>2 DEF SafeInv, PinsKnown, Whole, TypeOK, Pinning, PinStates
  <2>3. ASSUME opened = {}, NEW g \in Pages PROVE refs[g] = 0
    <3>1. \A q \in Pins : pins[q].held = {}
      BY <2>2, <2>3 DEF FreePin
    <3>2. \A t \in Threads : call[t].pages = {}
      BY <1>1, EmptyHanded DEF Running
    <3>3. HeldBy(g) = {} /\ CallHolders(g) = {}
      BY <3>1, <3>2 DEF HeldBy, CallHolders
    <3>4. Balance(g) = 0 /\ refs[g] \in Int
      BY <1>1 DEF Accounted, TypeOK
    <3>5. Cardinality(HeldBy(g)) = 0 /\ Cardinality(CallHolders(g)) = 0
      BY <3>3, FS_EmptySet
    <3>6. (0 + 0) - refs[g] = 0
      BY <3>4, <3>5 DEF Balance
    <3> QED
      BY <3>4, <3>6
  <2> QED
    BY <2>2, <2>3
<1>2. Spec => [](TypeOK /\ SafeInv)
  BY SafeAlways DEF Disciplined
<1> QED
  BY <1>1, <1>2, AccountedAlways, PTL


(* The pinnings that have an owner change only when they are freed, by a   *)
(* call on the owner.                                                      *)
LEMMA StepFreesOwn ==
    ASSUME Orderly, TypeOK, SafeInv, NEW t \in Threads, Step(t),
           NEW q \in Pins, pins[q].owner # None, pins'[q] # pins[q]
    PROVE  call'[t] # call[t] /\ call[t].file = pins[q].owner
<1>0. /\ CallTyped /\ pins \in [Pins -> Pinning] /\ CallOK(call[t])
      /\ FreePin.owner = None /\ BarePin.owner = None
  BY DEF TypeOK, CallTyped, SafeInv, CallsOK, FreePin, BarePin
<1>1. CASE NewPinning(t)
  <2>1. PICK p \in Pins : pins[p].state = "free" /\ pins' = [pins EXCEPT ![p] = BarePin]
    BY <1>1 DEF NewPinning
  <2>2. p # q
    BY <1>0, <2>1 DEF SafeInv, PinsKnown
  <2> QED
    BY <1>0, <2>1, <2>2
<1>2. CASE FillSglist(t) \/ ListAdd(t)
  <2>1. \A p \in Pins : p # call[t].pin => pins'[p] = pins[p]
    BY <1>0, <1>2 DEF FillSglist, ListAdd
  <2>2. pins[call[t].pin].owner = None
    BY <1>0, <1>2 DEF FillSglist, ListAdd, CallOK, PinAt
  <2> QED
    BY <2>1, <2>2
<1>3. CASE FreePut(t) \/ FreeSg(t) \/ FreeDel(t)
  <2>1. \A p \in Pins : p # call[t].pin => pins'[p] = pins[p]
    BY <1>0, <1>3 DEF FreePut, FreeSg, FreeDel
  <2>2. pins[call[t].pin].owner = call[t].file
    BY <1>0, <1>3 DEF FreePut, FreeSg, FreeDel, CallOK, PinAt, IsOwn
  <2>3. call'[t].pc # call[t].pc
    <3>1. CASE FreePut(t) \/ FreeSg(t)
      BY <1>0, <3>1, Fields DEF FreePut, FreeSg, Goto, CallTyped
    <3>2. CASE FreeDel(t)
      BY <1>0, <3>2, Fields DEF FreeDel, CallTyped
    <3> QED
      BY <1>3, <3>1, <3>2
  <2> QED
    BY <2>1, <2>2, <2>3
<1>4. CASE \/ OpenLock(t) \/ OpenAdd(t) \/ GetUserPages(t) \/ GetUserPagesShort(t)
           \/ Deliver(t) \/ Lookup(t) \/ Walk(t) \/ Sync(t) \/ RelLoop(t)
           \/ RelLock(t) \/ RelDel(t) \/ ExitLoop(t) \/ Return(t) \/ WildPut(t)
  BY <1>4 DEF OpenLock, OpenAdd, GetUserPages, GetUserPagesShort, Deliver, Lookup,
              Walk, Sync, RelLoop, RelLock, RelDel, ExitLoop, Return, WildPut, Crash
<1> QED
  BY <1>1, <1>2, <1>3, <1>4, NoUndefined DEF Step

LEMMA EntryChangesNoPin ==
    ASSUME NEW t \in Threads, Entry(t)
    PROVE  UNCHANGED <<users, pins>>
BY DEF Entry, ExitEntry, OpenEntry, CloseEntry, CallGone, Crash, WriteRejected,
       WritePin, WriteHandle

(* A step takes nothing from the pinning of a file that its call is not    *)
(* about, whatever handle user space passes in.                            *)
THEOREM OthersPinningsKept ==
    ASSUME Orderly
    PROVE  Spec => OnlyOwnPinnings
<1> DEFINE Takes == \A q \in Pins :
               (pins[q].owner # None /\ pins'[q] # pins[q]) =>
                  \E t \in Threads : /\ call'[t] # call[t]
                                     /\ call[t].file = pins[q].owner
<1>1. TypeOK /\ SafeInv /\ [Next]_vars => [Takes]_vars
  <2>1. PinnerInit \/ (\E t \in Threads : Entry(t)) => UNCHANGED pins
    BY EntryChangesNoPin DEF PinnerInit
  <2>2. ASSUME TypeOK, SafeInv, NEW t \in Threads, Step(t) PROVE Takes
    BY <2>2, StepFreesOwn
  <2> QED
    BY <2>1, <2>2 DEF Next
<1>2. Spec => [](TypeOK /\ SafeInv)
  BY SafeAlways
<1> QED
  BY <1>1, <1>2, PTL DEF Spec, OnlyOwnPinnings

-----------------------------------------------------------------------------
(* The driver implements the service. *)

OwnerOf == [q \in Pins |-> IF Serves(q) THEN pins[q].owner ELSE None]
PagesOf == [q \in Pins |-> IF Serves(q) THEN pins[q].held ELSE {}]
Resident == {g \in Pages : refs[g] > 0}

(* Every page that a pinning holds has a reference. *)
HeldResident == \A q \in Pins : pins[q].held \subseteq Resident

LEMMA HeldIsResident ==
    ASSUME TypeOK, Accounted
    PROVE  HeldResident
<1> SUFFICES ASSUME NEW q \in Pins, NEW g \in pins[q].held
             PROVE  g \in Pages /\ refs[g] > 0
  BY DEF HeldResident, Resident
<1>1. g \in Pages
  BY DEF TypeOK, Pinning
<1>2. q \in HeldBy(g)
  BY DEF HeldBy
<1>3. Cardinality(HeldBy(g)) # 0
  BY <1>1, <1>2, HoldersFinite, FS_EmptySet
<1>4. refs[g] \in Int /\ Balance(g) = 0
  BY <1>1 DEF TypeOK, Accounted
<1> QED
  BY <1>1, <1>3, <1>4, HoldersFinite DEF Balance

LEMMA KeepsOwed == TypeOK' /\ Accounted' => Service!KeepOwed
<1>1. TypeOK' /\ Accounted' => HeldResident'
  BY HeldIsResident, PTL
<1> SUFFICES ASSUME HeldResident' PROVE Service!KeepOwed
  BY <1>1
<1> QED
  BY DEF HeldResident, Resident, Serves, Service!KeepOwed, Service!Owed, Service!Live

LEMMA ServiceInit == Init => Service!Init
<1> SUFFICES ASSUME Init PROVE Service!Init
  OBVIOUS
<1>1. \A q \in Pins : ~Serves(q)
  BY DEF Init, FreePin, Serves
<1> QED
  BY <1>1 DEF Init, Service!Init

(* A step that changes no pinning that the service knows. *)
LEMMA ServiceStutter ==
    ASSUME Service!KeepOwed, UNCHANGED users,
           \A q \in Pins : \/ pins'[q] = pins[q]
                           \/ ~Serves(q) /\ ~Serves(q)'
    PROVE  Service!Next
<1>1. \A q \in Pins : /\ Serves(q)' <=> Serves(q)
                      /\ Serves(q) => pins'[q] = pins[q]
  BY DEF Serves
<1>2. OwnerOf' = OwnerOf /\ PagesOf' = PagesOf
  BY <1>1 DEF OwnerOf, PagesOf
<1> QED
  BY <1>2 DEF OwnerOf, PagesOf, Service!Next

LEMMA ServiceMove ==
    ASSUME Service!KeepOwed, NEW f \in Files, NEW q \in Pins, NEW S \in SUBSET Pages,
           Service!Open(f) \/ Service!Close(f) \/ Service!Unpin(f, q)
              \/ Service!Pin(f, q, S)
    PROVE  Service!Next
BY DEF Service!Next

LEMMA ServiceStep ==
    ASSUME Disciplined, TypeOK, SafeInv, Accounted, Service!KeepOwed,
           NEW t \in Threads, Step(t)
    PROVE  Service!Next
<1>0. /\ CallTyped /\ pins \in [Pins -> Pinning] /\ CallOK(call[t])
      /\ None \notin Files /\ Orderly
      /\ FreePin.owner = None /\ BarePin.owner = None
  BY PinnerAssumption
     DEF TypeOK, CallTyped, SafeInv, CallsOK, PinnerAssumption, Disciplined,
         FreePin, BarePin
<1>1. CASE OpenAdd(t)
  <2>1. PICK f \in Files : f = call[t].file
    BY <1>1, Busy DEF OpenAdd
  <2>2. /\ f \notin users /\ users' = users \cup {f} /\ pins' = pins
    BY <1>0, <1>1, <2>1 DEF OpenAdd, CallOK, InOp, FileAt
  <2>3. Service!Open(f)
    BY <2>2 DEF Service!Open, Serves
  <2> QED
    BY <2>3 DEF Service!Next
<1>2. CASE RelDel(t)
  <2>1. PICK f \in Files : f = call[t].file
    BY <1>2, Busy DEF RelDel
  <2>2. /\ f \in users /\ users' = users \ {f} /\ pins' = pins /\ First(f) = {}
    BY <1>0, <1>2, <2>1 DEF RelDel, CallOK, PinAt
  <2>3. \A q \in Pins : pins[q].owner # f
    BY <2>2, FirstIn DEF SafeInv, ListsKnown, ListOf
  <2>4. f \notin {OwnerOf[p] : p \in Pins}
    BY <1>0, <2>3 DEF OwnerOf
  <2>5. Service!Close(f)
    BY <2>2, <2>4 DEF Service!Close, OwnerOf, Serves
  <2> QED
    BY <2>5 DEF Service!Next
<1>3. CASE ListAdd(t)
  <2>1. /\ call[t].pc = "list_add" /\ call[t].file \in Files /\ call[t].pin \in Pins
        /\ call[t].file \in users /\ users' = users
    BY <1>0, <1>3 DEF ListAdd, CallTyped, PointersSet, UsesPin, UsesFile
  <2>a. PICK f \in Files : f = call[t].file
    BY <2>1
  <2>b. PICK q \in Pins : q = call[t].pin
    BY <2>1
  <2>2. /\ pins[q].owner = None /\ Whole(q) /\ pins[q].held \in SUBSET Pages
    BY <1>0, <2>1, <2>b DEF CallOK, PinAt, Pinning
  <2>c. PICK S \in SUBSET Pages : S = pins[q].held
    BY <2>2
  <2>3. S # {} /\ Cardinality(S) \in 1..MaxPages
    BY <2>2, <2>c, WholeHolds DEF Whole
  <2>4. /\ pins'[q].owner = f /\ pins'[q].held = S
        /\ \A p \in Pins \ {q} : pins'[p] = pins[p]
    BY <1>0, <1>3, <2>a, <2>b, <2>c DEF ListAdd, Pinning
  <2>5. /\ Serves(q)' /\ ~Serves(q)
        /\ \A p \in Pins \ {q} : Serves(p)' <=> Serves(p)
    BY <1>0, <2>2, <2>3, <2>4 DEF Serves
  <2>6. /\ OwnerOf' = [OwnerOf EXCEPT ![q] = f]
        /\ PagesOf' = [PagesOf EXCEPT ![q] = S]
        /\ OwnerOf[q] = None
    BY <2>4, <2>5 DEF OwnerOf, PagesOf
  <2>7. Service!Pin(f, q, S)
    <3>1. q \notin Service!Live
      BY <2>6 DEF Service!Live, OwnerOf
    <3> QED
      BY <2>1, <2>3, <2>6, <2>a, <3>1
         DEF Service!Pin, OwnerOf, PagesOf, Service!Cardinality, Cardinality
  <2> QED
    BY <2>7, ServiceMove
<1>4. CASE FreePut(t)
  <2>1. /\ call[t].pc = "free_put" /\ call[t].file \in Files /\ call[t].pin \in Pins
        /\ users' = users
    BY <1>0, <1>4 DEF FreePut, CallTyped, PointersSet, UsesPin, UsesFile
  <2>a. PICK f \in Files : f = call[t].file
    BY <2>1
  <2>b. PICK q \in Pins : q = call[t].pin
    BY <2>1
  <2>2. pins[q].state = "live" /\ pins[q].owner = f /\ Whole(q)
    BY <1>0, <2>1, <2>a, <2>b DEF CallOK, PinAt, IsOwn
  <2>3. pins[q].held # {}
    BY <2>2, WholeHolds
  <2>4. pins'[q].held = {} /\ \A p \in Pins \ {q} : pins'[p] = pins[p]
    BY <1>0, <1>4, <2>2, <2>b DEF FreePut, Pinning
  <2>5. /\ Serves(q) /\ ~Serves(q)'
        /\ \A p \in Pins \ {q} : Serves(p)' <=> Serves(p)
    BY <1>0, <2>2, <2>3, <2>4 DEF Serves
  <2>6. /\ OwnerOf' = [OwnerOf EXCEPT ![q] = None]
        /\ PagesOf' = [PagesOf EXCEPT ![q] = {}]
        /\ OwnerOf[q] = f
    BY <2>2, <2>4, <2>5 DEF OwnerOf, PagesOf
  <2>7. Service!Unpin(f, q)
    BY <2>1, <2>6 DEF Service!Unpin, OwnerOf, PagesOf
  <2> QED
    BY <2>7, ServiceMove
<1>5. CASE FreeSg(t) \/ FreeDel(t) \/ FillSglist(t)
  <2>1. /\ call[t].pin \in Pins /\ users' = users
        /\ \A p \in Pins \ {call[t].pin} : pins'[p] = pins[p]
    BY <1>0, <1>5
       DEF FreeSg, FreeDel, FillSglist, CallTyped, PointersSet, UsesPin
  <2>b. PICK q \in Pins : q = call[t].pin
    BY <2>1
  <2>2. pins[q] \in Pinning
    BY <1>0
  <2>3. \/ pins[q].held = {} /\ pins'[q].held = {}
        \/ pins[q].owner = None /\ pins'[q].owner = None
    <3>1. CASE FreeSg(t)
      <4>1. [pins[q] EXCEPT !.state = "drained", !.pages = {}].held = pins[q].held
        BY <2>2 DEF Pinning
      <4>2. pins'[q].held = pins[q].held
        BY <1>0, <2>b, <3>1, <4>1 DEF FreeSg
      <4> QED
        BY <1>0, <2>b, <3>1, <4>2 DEF FreeSg, CallOK, PinAt
    <3>2. CASE FreeDel(t)
      BY <1>0, <2>b, <3>2 DEF FreeDel, CallOK, PinAt, FreePin
    <3>3. CASE FillSglist(t)
      <4>1. pins[q] = BarePin /\ pins'[q] = [BarePin EXCEPT !.state = "live",
                                 !.pages = call[t].pages, !.held = call[t].pages]
        BY <1>0, <2>b, <3>3 DEF FillSglist, CallOK, PinAt, Orderly
      <4> QED
        BY <4>1 DEF BarePin, FreePin
    <3> QED
      BY <1>5, <3>1, <3>2, <3>3
  <2>4. ~Serves(q) /\ ~Serves(q)'
    BY <2>3 DEF Serves
  <2> QED
    BY <2>1, <2>4, <2>b, ServiceStutter
<1>6. CASE NewPinning(t)
  <2>1. CASE UNCHANGED pins
    BY <1>6, <2>1, ServiceStutter DEF NewPinning
  <2>2. ASSUME NEW p \in Pins, pins[p].state = "free",
               pins' = [pins EXCEPT ![p] = BarePin]
        PROVE  Service!Next
    <3>1. /\ pins[p].owner = None /\ pins'[p].owner = None /\ users' = users
          /\ \A q \in Pins \ {p} : pins'[q] = pins[q]
      BY <1>0, <1>6, <2>2 DEF NewPinning, SafeInv, PinsKnown
    <3> QED
      BY <2>2, <3>1, ServiceStutter DEF Serves
  <2> QED
    BY <1>6, <2>1, <2>2 DEF NewPinning
<1>7. CASE \/ OpenLock(t) \/ GetUserPages(t) \/ Deliver(t) \/ Lookup(t) \/ Walk(t)
           \/ Sync(t) \/ RelLoop(t) \/ RelLock(t) \/ ExitLoop(t) \/ Return(t)
  <2>1. UNCHANGED <<users, pins>>
    BY <1>7 DEF OpenLock, GetUserPages, Deliver, Lookup, Walk, Sync, RelLoop,
                RelLock, ExitLoop, Return
  <2> QED
    BY <2>1, ServiceStutter
<1>8. ~GetUserPagesShort(t) /\ ~WildPut(t)
  BY NoWildPut DEF GetUserPagesShort, Disciplined
<1> QED
  BY <1>1, <1>2, <1>3, <1>4, <1>5, <1>6, <1>7, <1>8, NoUndefined DEF Step

LEMMA ServiceNext ==
    ASSUME Disciplined, TypeOK, SafeInv, Accounted, TypeOK', Accounted', [Next]_vars
    PROVE  Service!Next
<1>0. Service!KeepOwed
  BY KeepsOwed
<1>1. CASE PinnerInit \/ (\E t \in Threads : Entry(t)) \/ UNCHANGED vars
  <2>1. UNCHANGED <<users, pins>>
    BY <1>1, EntryChangesNoPin DEF PinnerInit, vars
  <2> QED
    BY <1>0, <2>1, ServiceStutter
<1>2. ASSUME NEW t \in Threads, Step(t) PROVE Service!Next
  BY <1>0, <1>2, ServiceStep
<1> QED
  BY <1>1, <1>2 DEF Next

(* Users who keep to the rules see the service: files come and go, a pin   *)
(* command takes effect at once when its pinning is put on the list, an    *)
(* unpin when the references are dropped, and every page of a live pinning *)
(* is resident in between.                                                 *)
THEOREM DriverImplementsService ==
    ASSUME Disciplined
    PROVE  Spec => ImplementsService
<1>1. /\ TypeOK /\ SafeInv /\ Accounted /\ TypeOK' /\ Accounted' /\ [Next]_vars
         => Service!Next
  BY ServiceNext
<1>2. Spec => [](TypeOK /\ SafeInv)
  BY SafeAlways DEF Disciplined
<1> QED
  BY <1>1, <1>2, AccountedAlways, ServiceInit, PTL
     DEF Spec, ImplementsService, Service!Spec
=============================================================================
