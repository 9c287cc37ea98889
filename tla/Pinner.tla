------------------------------- MODULE Pinner -------------------------------
(***************************************************************************)
(* The pinner kernel driver (modules/pinner/pinner.c): open, release,      *)
(* write (PIN, UNPIN, FLUSH), module init and exit, run by several kernel  *)
(* threads at once.                                                        *)
(*                                                                         *)
(* A thread's call advances from one access to shared state to the next;   *)
(* its pc names the statement it is about to run.  struct pinning's are    *)
(* memory: an address is handed out again once it has been kfree'd, and a  *)
(* thread that still uses it finds whatever is there now.  An access that  *)
(* C leaves undefined and that does not merely read or drop something else *)
(* sets `fault' and stops the machine.                                     *)
(*                                                                         *)
(* A user buffer is the set of the pages under it: how bytes map to pages  *)
(* and to scatterlist entries is module PinLayout.                         *)
(*                                                                         *)
(* Operators that no action uses are the faults that a property is tested  *)
(* against: each stands before the definition it would replace.            *)
(***************************************************************************)
EXTENDS FiniteSets, Integers, Sequences, SequencesExt

CONSTANTS
    Files,      \* struct file's, each with its proc_info
    Threads,    \* kernel threads: user threads in a system call, rmmod
    Pins,       \* addresses of struct pinning
    Pages,      \* physical pages
    Magics,     \* values of pinning.magic
    UMagics,    \* values of proc_info.magic
    MaxPages,   \* PINNER_MAX_PAGES
    MaxRefs,    \* bound: no pin command begins on a page with so many references
    Failures,   \* the kernel services that may fail
    SharedFd,   \* TRUE: threads may be inside write() on one file together
    RmmodBusy,  \* TRUE: the module may be removed while files are open
    None

Services == {"proc_info", "copy_in", "page_array", "gup", "pinning",
             "sglist", "entries", "copy_out"}

ASSUME PinnerAssumption ==
    /\ Failures \subseteq Services
    /\ SharedFd \in BOOLEAN
    /\ RmmodBusy \in BOOLEAN
    /\ MaxPages \in Nat \ {0}
    /\ MaxRefs \in Nat
    /\ None \notin Files \cup Threads \cup Pins \cup Pages

(* Memory and the set of threads are finite: counting references needs it. *)
ASSUME FiniteAssumption ==
    IsFiniteSet(Pins) /\ IsFiniteSet(Threads) /\ IsFiniteSet(Pages)

VARIABLES
    module,   \* "out", "in" (registered) or "exiting"
    opened,   \* the struct file's user space holds
    users,    \* the files whose proc_info is on the list `users'
    umagic,   \* proc_info.magic
    mutex,    \* the holder of users_mutex
    pins,     \* the struct pinning at each address
    pinning_list, \* proc_info.pinning_list, from its head
    refs,     \* references to each page taken by the driver
    call,     \* what each thread is doing
    fault     \* the first undefined behaviour met

vars == <<module, opened, users, umagic, mutex, pins, pinning_list, refs, call,
          fault>>

-----------------------------------------------------------------------------
(* Data. *)

(* A freed struct pinning, one that is only kzalloc'ed ("bare"), one with  *)
(* its scatterlist ("live"), and one whose scatterlist is freed while the  *)
(* struct is still there ("drained").  Three fields stand for what the     *)
(* struct has no field for: the file on whose list it is, the pages its    *)
(* scatterlist names, and those of them whose reference it still has.      *)
PinStates == {"free", "bare", "live", "drained"}

Pinning == [state : PinStates, owner : Files \cup {None},
            magic : Magics \cup {None}, pages : SUBSET Pages,
            held : SUBSET Pages]

FreePin == [state |-> "free", owner |-> None, magic |-> None, pages |-> {},
            held |-> {}]
BarePin == [FreePin EXCEPT !.state = "bare"]

Handles == [user : UMagics, pin : Magics]

Ops == {"none", "open", "pin", "unpin", "flush", "write",
        "release", "exit"}

Codes == {"0", "EINVAL", "EAGAIN", "ENOMEM", "ENOSYS"}

PCs == {"idle", "return",
        "gup", "new_pin", "fill",                  \* pinner_do_pin
        "list_add", "deliver",
        "lookup", "walk", "sync",                  \* pinner_do_unpin, _flush
        "free_put", "free_sg", "free_del",         \* pinner_free_pinning
        "open_lock", "open_add",                   \* pinner_open
        "rel_loop", "rel_lock", "rel_del",         \* pinner_free_proc_info
        "exit_loop"}                               \* pinner_exit

(* The pinning is `pin', `found' or the cursor of a search; `pages' are    *)
(* the ones a pin command has got and not yet handed to a pinning; `want'  *)
(* is the handle's pin_magic during a search.                              *)
Call == [pc : PCs, op : Ops, file : Files \cup {None}, pin : Pins \cup {None},
         pages : SUBSET Pages, want : Magics \cup {None}, ret : Codes]

IdleCall == [pc |-> "idle", op |-> "none", file |-> None, pin |-> None,
             pages |-> {}, want |-> None, ret |-> "0"]

Faults == {"none", "wild_put", "bad_list_del", "use_after_free", "code_gone"}

(* A struct pinning that can be reached from its proc_info. *)
OnList(q) == /\ pins[q].owner \in users
             /\ Contains(pinning_list[pins[q].owner], q)

(* What a search meets first, and what it meets after q (cur->next). *)
First(f) == {pinning_list[f][i] : i \in {1} \cap DOMAIN pinning_list[f]}

(* A search that goes on with the lists of the other files. *)
AfterAnyList(q) ==
    LET l == pinning_list[pins[q].owner]
    IN  IF l[Len(l)] # q
        THEN {l[i] : i \in {i \in 2..Len(l) : l[i - 1] = q}}
        ELSE UNION {First(f) : f \in users \ {pins[q].owner}}

After(q) == LET l == pinning_list[pins[q].owner]
            IN  {l[i] : i \in {i \in 2..Len(l) : l[i - 1] = q}}

(* The threads inside a system call on f; pinner_exit is not one. *)
InCall(f) == {t \in Threads : call[t].pc # "idle" /\ call[t].op # "exit"
                              /\ call[t].file = f}

Running(t) == call[t].pc \notin {"idle", "return"}

(* One page of a pinning keeps its reference: a put loop that stops early. *)
PutAllButOne(S) ==
    refs' = [g \in Pages |-> IF g \in S /\ \E x \in S : x # g
                             THEN refs[g] - 1 ELSE refs[g]]

(* One put_page on every page of S.  A page that the driver has no         *)
(* reference to would lose somebody else's.                                *)
Puttable(S) == \A g \in S : refs[g] > 0

PutAll(S) == refs' = [g \in Pages |-> IF g \in S THEN refs[g] - 1 ELSE refs[g]]
GetAll(S) == refs' = [g \in Pages |-> IF g \in S THEN refs[g] + 1 ELSE refs[g]]

Begin(t, o, f, l, S) ==
    call' = [call EXCEPT ![t] = [pc |-> l, op |-> o, file |-> f, pin |-> None,
                                 pages |-> S, want |-> None, ret |-> "0"]]
Goto(t, l) == call' = [call EXCEPT ![t].pc = l]
Finish(t, r) ==
    call' = [call EXCEPT ![t] = [call[t] EXCEPT !.pc = "return", !.pages = {},
                                                !.want = None, !.ret = r]]
Crash(x) == /\ fault' = x
            /\ UNCHANGED <<module, opened, users, umagic, mutex, pins,
                           pinning_list, refs, call>>

-----------------------------------------------------------------------------
(* pinner_open *)

OpenEntry(t, f) ==
    /\ module = "in"
    /\ f \notin opened
    /\ InCall(f) = {}
    /\ \/ \E m \in UMagics :
            /\ umagic' = [umagic EXCEPT ![f] = m]
            /\ pinning_list' = [pinning_list EXCEPT ![f] = <<>>]
            /\ Begin(t, "open", f, "open_lock", {})
       \/ /\ "proc_info" \in Failures
          /\ call' = [call EXCEPT ![t] = [IdleCall EXCEPT !.pc = "return",
                                    !.op = "open", !.file = f, !.ret = "ENOMEM"]]
          /\ UNCHANGED <<umagic, pinning_list>>
    /\ UNCHANGED <<module, opened, users, mutex, pins, refs, fault>>

(* The list is changed without taking users_mutex. *)
OpenNoLock(t) ==
    /\ call[t].pc = "open_lock"
    /\ Goto(t, "open_add")
    /\ UNCHANGED <<module, opened, users, umagic, mutex, pins, pinning_list, refs,
                   fault>>

OpenLock(t) ==
    /\ call[t].pc = "open_lock"
    /\ mutex = None
    /\ mutex' = t
    /\ Goto(t, "open_add")
    /\ UNCHANGED <<module, opened, users, umagic, pins, refs, pinning_list, fault>>

(* mutex_unlock forgotten. *)
OpenAddNoUnlock(t) ==
    /\ call[t].pc = "open_add"
    /\ users' = users \cup {call[t].file}
    /\ opened' = opened \cup {call[t].file}
    /\ Finish(t, "0")
    /\ UNCHANGED <<module, umagic, mutex, pins, refs, pinning_list, fault>>

OpenAdd(t) ==
    /\ call[t].pc = "open_add"
    /\ users' = users \cup {call[t].file}
    /\ mutex' = None
    /\ opened' = opened \cup {call[t].file}
    /\ Finish(t, "0")
    /\ UNCHANGED <<module, umagic, pins, refs, pinning_list, fault>>

-----------------------------------------------------------------------------
(* pinner_write: the command is copied in and dispatched. *)

MayWrite(f) == /\ f \in opened
               /\ f \in users
               /\ SharedFd \/ InCall(f) = {}

(* A command of the wrong size, unreadable, or of an unknown code. *)
WriteRejected(t, f, r) ==
    /\ MayWrite(f)
    /\ r \in {"EINVAL", "ENOSYS"} \/ (r = "EAGAIN" /\ "copy_in" \in Failures)
    /\ call' = [call EXCEPT ![t] = [IdleCall EXCEPT !.pc = "return",
                                    !.op = "write", !.file = f, !.ret = r]]
    /\ UNCHANGED <<module, opened, users, umagic, mutex, pins, pinning_list, refs,
                   fault>>

(* pinner_do_pin up to get_user_pages_fast: the size check and the array   *)
(* for the page pointers.                                                  *)
WritePin(t, f, buf) ==
    /\ MayWrite(f)
    /\ \A g \in buf : refs[g] < MaxRefs
    /\ \/ /\ Cardinality(buf) \in 1..MaxPages
          /\ Begin(t, "pin", f, "gup", buf)
       \/ /\ Cardinality(buf) \in 1..MaxPages
          /\ "page_array" \in Failures
          /\ call' = [call EXCEPT ![t] = [IdleCall EXCEPT !.pc = "return",
                                    !.op = "pin", !.file = f, !.ret = "ENOMEM"]]
       \/ /\ Cardinality(buf) \notin 1..MaxPages
          /\ call' = [call EXCEPT ![t] = [IdleCall EXCEPT !.pc = "return",
                                    !.op = "pin", !.file = f, !.ret = "EINVAL"]]
    /\ UNCHANGED <<module, opened, users, umagic, mutex, pins, pinning_list, refs,
                   fault>>

(* UNPIN and FLUSH: both begin by searching for the handle. *)
HandleOps == {"unpin", "flush"}

WriteHandle(t, f, o) ==
    /\ MayWrite(f)
    /\ o \in HandleOps
    /\ Begin(t, o, f, "lookup", {})
    /\ UNCHANGED <<module, opened, users, umagic, mutex, pins, pinning_list, refs,
                   fault>>

(* A call on a file whose proc_info pinner_exit has freed: the code and    *)
(* the data behind struct file are gone.                                   *)
CallGone(f) ==
    /\ f \in opened \ users
    /\ Crash("code_gone")

-----------------------------------------------------------------------------
(* pinner_do_pin *)

(* get_user_pages_fast takes a reference on every page. *)
GetUserPages(t) ==
    /\ call[t].pc = "gup"
    /\ GetAll(call[t].pages)
    /\ Goto(t, "new_pin")
    /\ UNCHANGED <<module, opened, users, umagic, mutex, pins, pinning_list, fault>>

(* The pages that were pinned come and go; each entry of the tail costs    *)
(* the page it happens to name a reference.                                *)
AfterPuts(missing, stale) ==
    [g \in Pages |-> refs[g] - Cardinality({m \in missing : stale[m] = g})]

(* The pages that were pinned are not put when others could not be. *)
GetUserPagesKept(t) ==
    /\ call[t].pc = "gup"
    /\ "gup" \in Failures
    /\ \E missing \in SUBSET call[t].pages \ {{}} :
          GetAll(call[t].pages \ missing)
    /\ Finish(t, "EAGAIN")
    /\ UNCHANGED <<module, opened, users, umagic, mutex, pins, pinning_list, fault>>

(* Or on only some of them: then the error path puts all num_pages entries *)
(* of an array whose tail was never written.  What kmalloc left there is   *)
(* the address of some page or no page at all.                             *)
GetUserPagesShort(t) ==
    /\ call[t].pc = "gup"
    /\ "gup" \in Failures
    /\ \E missing \in SUBSET call[t].pages \ {{}} :
         \E stale \in [missing -> Pages \cup {None}] :
            \/ /\ \/ None \in {stale[m] : m \in missing}
                  \/ \E g \in Pages : AfterPuts(missing, stale)[g] < 0
               /\ Crash("wild_put")
            \/ /\ None \notin {stale[m] : m \in missing}
               /\ \A g \in Pages : AfterPuts(missing, stale)[g] >= 0
               /\ refs' = AfterPuts(missing, stale)
               /\ Finish(t, "EAGAIN")
               /\ UNCHANGED <<module, opened, users, umagic, mutex, pins, pinning_list, fault>>

NewPinning(t) ==
    /\ call[t].pc = "new_pin"
    /\ \/ \E q \in Pins :
            /\ pins[q].state = "free"
            /\ pins' = [pins EXCEPT ![q] = BarePin]
            /\ call' = [call EXCEPT ![t] = [call[t] EXCEPT !.pc = "fill", !.pin = q]]
            /\ UNCHANGED refs
       \/ /\ \/ "pinning" \in Failures
             \/ \A q \in Pins : pins[q].state # "free"
          /\ Puttable(call[t].pages)
          /\ PutAll(call[t].pages)
          /\ Finish(t, "ENOMEM")
          /\ UNCHANGED pins
    /\ UNCHANGED <<module, opened, users, umagic, mutex, pinning_list, fault>>

(* pinner_alloc_and_fill_sglist.  When there is no memory for the          *)
(* scatterlist the half-built pinning goes to pinner_free_pinning, and the *)
(* page pointers go nowhere: the references stay, and nobody has them.     *)
(* (The array of page pointers, which the successful path forgets to       *)
(* kfree, is memory that nothing reads any more: it is not modelled.)      *)
FillSglist(t) ==
    /\ call[t].pc = "fill"
    /\ \/ /\ pins' = [pins EXCEPT ![call[t].pin] =
                          [BarePin EXCEPT !.state = "live",
                             !.pages = call[t].pages, !.held = call[t].pages]]
          /\ call' = [call EXCEPT ![t] = [call[t] EXCEPT !.pc = "list_add",
                                                         !.pages = {}]]
       \/ /\ "sglist" \in Failures
          /\ call' = [call EXCEPT ![t] = [call[t] EXCEPT !.pc = "free_put",
                                              !.pages = {}, !.ret = "ENOMEM"]]
          /\ UNCHANGED pins
    /\ UNCHANGED <<module, opened, users, umagic, mutex, refs, pinning_list, fault>>

(* The random magic and list_add, at the head and under no lock. *)
ListAdd(t) ==
    LET f == call[t].file
        q == call[t].pin
    IN
    /\ call[t].pc = "list_add"
    /\ f \in users
    /\ \E m \in Magics :
          pins' = [pins EXCEPT ![q] = [pins[q] EXCEPT !.owner = f, !.magic = m]]
    /\ pinning_list' = [pinning_list EXCEPT ![f] = <<q>> \o pinning_list[f]]
    /\ Goto(t, "deliver")
    /\ UNCHANGED <<module, opened, users, umagic, mutex, refs, fault>>

(* An error return that leaves the pinning on the list. *)
DeliverNoCleanup(t) ==
    /\ call[t].pc = "deliver"
    /\ pins[call[t].pin].state = "live"
    /\ Finish(t, "0") \/ ("copy_out" \in Failures /\ Finish(t, "EAGAIN"))
    /\ UNCHANGED <<module, opened, users, umagic, mutex, pins, pinning_list, refs,
                   fault>>

(* dma_map_sg, pinner_send_physlist and the handle.  dma_map_sg reports a  *)
(* failure as 0, which the code takes for success: no path leaves here.    *)
Deliver(t) ==
    /\ call[t].pc = "deliver"
    /\ pins[call[t].pin].state = "live"
    /\ \/ Finish(t, "0")
       \/ \E r \in {"ENOMEM", "EAGAIN"} :
            /\ r = "ENOMEM" => "entries" \in Failures
            /\ r = "EAGAIN" => "copy_out" \in Failures
            /\ call' = [call EXCEPT ![t] = [call[t] EXCEPT !.pc = "free_put",
                                                           !.ret = r]]
    /\ UNCHANGED <<module, opened, users, umagic, mutex, pins, pinning_list, refs,
                   fault>>

-----------------------------------------------------------------------------
(* pinner_do_unpin and pinner_do_flush *)

(* No test that something was found. *)
LookupUnchecked(t) ==
    /\ call[t].pc = "lookup"
    /\ call[t].file \in users
    /\ First(call[t].file) = {}
    /\ Goto(t, IF call[t].op = "unpin" THEN "free_put" ELSE "sync")
    /\ UNCHANGED <<module, opened, users, umagic, mutex, pins, pinning_list, refs,
                   fault>>

(* copy_from_user of the handle, the check of user_magic, and the head of  *)
(* the list.                                                               *)
Lookup(t) ==
    LET f == call[t].file
    IN
    /\ call[t].pc = "lookup"
    /\ f \in users
    /\ \/ "copy_in" \in Failures /\ Finish(t, "EAGAIN")
       \/ \E h \in Handles : /\ h.user # umagic[f] \/ First(f) = {}
                            /\ Finish(t, "EINVAL")
       \/ \E h \in Handles, q \in First(f) :
            /\ h.user = umagic[f]
            /\ call' = [call EXCEPT ![t] = [call[t] EXCEPT !.pc = "walk",
                                                !.pin = q, !.want = h.pin]]
    /\ UNCHANGED <<module, opened, users, umagic, mutex, pins, pinning_list, refs,
                   fault>>

(* One turn of the loop: the pinning under the cursor has the magic, or    *)
(* the cursor moves, or it is back at the head.  Other threads change the  *)
(* list between two turns; a cursor that has been moved to another file's  *)
(* list goes on there.                                                     *)
Walk(t) ==
    LET q == call[t].pin
    IN
    /\ call[t].pc = "walk"
    /\ OnList(q)
    /\ \/ /\ pins[q].magic = call[t].want
          /\ call' = [call EXCEPT ![t] = [call[t] EXCEPT !.want = None,
               !.pc = IF call[t].op = "unpin" THEN "free_put" ELSE "sync"]]
       \/ /\ pins[q].magic # call[t].want
          /\ \E n \in After(q) :
                call' = [call EXCEPT ![t] = [call[t] EXCEPT !.pin = n]]
       \/ /\ pins[q].magic # call[t].want
          /\ After(q) = {}
          /\ pins[q].owner = call[t].file
          /\ Finish(t, "EINVAL")
    /\ UNCHANGED <<module, opened, users, umagic, mutex, pins, pinning_list, refs,
                   fault>>

(* dma_sync_sg_for_cpu and dma_sync_sg_for_device over found->sglist. *)
Sync(t) ==
    /\ call[t].pc = "sync"
    /\ pins[call[t].pin].state = "live"
    /\ Finish(t, "0")
    /\ UNCHANGED <<module, opened, users, umagic, mutex, pins, pinning_list, refs,
                   fault>>

-----------------------------------------------------------------------------
(* pinner_free_pinning, in the three steps between which it matters what   *)
(* another thread does: the pages are put, the scatterlist is freed, and   *)
(* the struct leaves its list and is freed.  A pinning of which only the   *)
(* pages are put still looks complete, and is put again by a thread that   *)
(* finds it.                                                               *)

FreePut(t) ==
    LET q == call[t].pin
    IN
    /\ call[t].pc = "free_put"
    /\ \/ /\ pins[q].state = "live"
          /\ Puttable(pins[q].pages)
          /\ PutAll(pins[q].pages)
          /\ pins' = [pins EXCEPT ![q] = [pins[q] EXCEPT !.held = {}]]
       \/ /\ pins[q].state = "bare"          \* sglist is NULL: nothing is put
          /\ UNCHANGED <<pins, refs>>
    /\ Goto(t, "free_sg")
    /\ UNCHANGED <<module, opened, users, umagic, mutex, pinning_list, fault>>

FreeSg(t) ==
    LET q == call[t].pin
    IN
    /\ call[t].pc = "free_sg"
    /\ \/ /\ pins[q].state = "live"
          /\ pins' = [pins EXCEPT ![q] = [pins[q] EXCEPT !.state = "drained",
                                                         !.pages = {}]]
       \/ /\ pins[q].state = "bare"          \* kfree(NULL)
          /\ UNCHANGED pins
    /\ Goto(t, "free_del")
    /\ UNCHANGED <<module, opened, users, umagic, mutex, refs, pinning_list, fault>>

(* list_del. *)
Unlink(q) ==
    \E i \in 1..Len(pinning_list[pins[q].owner]) :
       /\ pinning_list[pins[q].owner][i] = q
       /\ pinning_list' = [pinning_list EXCEPT ![pins[q].owner] =
                             RemoveAt(pinning_list[pins[q].owner], i)]

(* The struct is freed but stays on its list. *)
FreeDelNoUnlink(t) ==
    LET q == call[t].pin
        o == call[t].op
    IN
    /\ call[t].pc = "free_del"
    /\ OnList(q)
    /\ pins' = [pins EXCEPT ![q] = FreePin]
    /\ call' = [call EXCEPT ![t] = [call[t] EXCEPT !.pin = None,
                  !.pc = IF o \in {"release", "exit"} THEN "rel_loop" ELSE "return"]]
    /\ UNCHANGED <<module, opened, users, umagic, mutex, refs, pinning_list, fault>>

(* pinner_free_pinnings frees one pinning instead of all. *)
FreeDelOnce(t) ==
    LET q == call[t].pin
        o == call[t].op
    IN
    /\ call[t].pc = "free_del"
    /\ OnList(q)
    /\ Unlink(q)
    /\ pins' = [pins EXCEPT ![q] = FreePin]
    /\ call' = [call EXCEPT ![t] = [call[t] EXCEPT !.pin = None,
                  !.pc = IF o \in {"release", "exit"} THEN "rel_lock" ELSE "return"]]
    /\ UNCHANGED <<module, opened, users, umagic, mutex, refs, fault>>

FreeDel(t) ==
    LET q == call[t].pin
        o == call[t].op
    IN
    /\ call[t].pc = "free_del"
    /\ OnList(q)
    /\ Unlink(q)
    /\ pins' = [pins EXCEPT ![q] = FreePin]
    /\ call' = [call EXCEPT ![t] = [call[t] EXCEPT !.pin = None,
                  !.pc = IF o \in {"release", "exit"} THEN "rel_loop" ELSE "return"]]
    /\ UNCHANGED <<module, opened, users, umagic, mutex, refs, fault>>

-----------------------------------------------------------------------------
(* pinner_release and pinner_free_proc_info *)

CloseEntry(t, f) ==
    /\ f \in opened \cap users
    /\ InCall(f) = {}                \* the last reference to the file is gone
    /\ opened' = opened \ {f}
    /\ Begin(t, "release", f, "rel_loop", {})
    /\ UNCHANGED <<module, users, umagic, mutex, pins, refs, pinning_list, fault>>

(* The proc_info goes without its pinnings. *)
RelLoopSkip(t) ==
    /\ call[t].pc = "rel_loop"
    /\ call[t].file \in users
    /\ Goto(t, "rel_lock")
    /\ UNCHANGED <<module, opened, users, umagic, mutex, pins, pinning_list, refs,
                   fault>>

RelLoop(t) ==
    LET f == call[t].file
    IN
    /\ call[t].pc = "rel_loop"
    /\ f \in users
    /\ \/ First(f) = {} /\ Goto(t, "rel_lock")
       \/ \E q \in First(f) :
            call' = [call EXCEPT ![t] = [call[t] EXCEPT !.pc = "free_put",
                                                        !.pin = q]]
    /\ UNCHANGED <<module, opened, users, umagic, mutex, pins, pinning_list, refs,
                   fault>>

RelLock(t) ==
    /\ call[t].pc = "rel_lock"
    /\ mutex = None
    /\ mutex' = t
    /\ Goto(t, "rel_del")
    /\ UNCHANGED <<module, opened, users, umagic, pins, refs, pinning_list, fault>>

RelDel(t) ==
    /\ call[t].pc = "rel_del"
    /\ call[t].file \in users
    /\ users' = users \ {call[t].file}
    /\ mutex' = None
    /\ umagic' = [umagic EXCEPT ![call[t].file] = None]
    /\ IF call[t].op = "exit" THEN Goto(t, "exit_loop") ELSE Finish(t, "0")
    /\ UNCHANGED <<module, opened, pins, refs, pinning_list, fault>>

-----------------------------------------------------------------------------
(* pinner_init and pinner_exit.  A failed misc_register leaves the module  *)
(* out.  pinner_fops has no .owner, so nothing but the administrator's     *)
(* care (RmmodBusy) keeps rmmod away from open files; misc_deregister only *)
(* waits for an open in progress.                                          *)

PinnerInit ==
    /\ module = "out"
    /\ module' = "in"
    /\ UNCHANGED <<opened, users, umagic, mutex, pins, refs, call, pinning_list, fault>>

ExitEntry(t) ==
    /\ module = "in"
    /\ \A u \in Threads : call[u].pc \notin {"open_lock", "open_add"}
    /\ RmmodBusy \/ (opened = {} /\ \A u \in Threads : call[u].pc = "idle")
    /\ module' = "exiting"
    /\ Begin(t, "exit", None, "exit_loop", {})
    /\ UNCHANGED <<opened, users, umagic, mutex, pins, refs, pinning_list, fault>>

ExitLoop(t) ==
    /\ call[t].pc = "exit_loop"
    /\ \/ /\ users = {}
          /\ \A u \in Threads \ {t} : ~Running(u)
          /\ module' = "out"
          /\ Finish(t, "0")
       \/ /\ \E f \in users :
                call' = [call EXCEPT ![t] = [call[t] EXCEPT !.pc = "rel_loop",
                                                            !.file = f]]
          /\ UNCHANGED module
    /\ UNCHANGED <<opened, users, umagic, mutex, pins, refs, pinning_list, fault>>

-----------------------------------------------------------------------------
(* Undefined behaviour that ends the run. *)

(* The next statement reads or frees a struct pinning that is not (or no   *)
(* longer) the thread's, or a proc_info that is gone.  A search that ends  *)
(* on another file's list takes its head for a pinning.                    *)
UseAfterFree(t) ==
    LET q == call[t].pin
    IN
    /\ \/ /\ call[t].pc \in {"deliver", "sync"}
          /\ pins[q].state # "live"
       \/ /\ call[t].pc \in {"free_put", "free_sg"}
          /\ pins[q].state \in {"free", "drained"}
       \/ /\ call[t].pc = "free_del"
          /\ pins[q].state # "free" => pins[q].owner # None /\ ~OnList(q)
       \/ /\ call[t].pc = "walk"
          /\ \/ ~OnList(q)
             \/ /\ OnList(q)
                /\ pins[q].owner # call[t].file
                /\ pins[q].magic # call[t].want
                /\ After(q) = {}
       \/ /\ call[t].pc \in {"lookup", "list_add", "rel_loop", "rel_del"}
          /\ call[t].file \notin users
    /\ Crash("use_after_free")

(* list_del on a struct pinning that list_add never saw: NULL pointers. *)
BadListDel(t) ==
    /\ call[t].pc = "free_del"
    /\ pins[call[t].pin].state # "free"
    /\ pins[call[t].pin].owner = None
    /\ Crash("bad_list_del")

(* put_page on a page that the driver has no reference to. *)
WildPut(t) ==
    /\ \/ /\ call[t].pc = "free_put"
          /\ pins[call[t].pin].state = "live"
          /\ ~Puttable(pins[call[t].pin].pages)
       \/ /\ call[t].pc = "new_pin"
          /\ \/ "pinning" \in Failures
             \/ \A q \in Pins : pins[q].state # "free"
          /\ ~Puttable(call[t].pages)
    /\ Crash("wild_put")

(* The module's text is unmapped under a running thread. *)
CodeGone(t) ==
    /\ call[t].pc = "exit_loop"
    /\ users = {}
    /\ \E u \in Threads \ {t} : Running(u)
    /\ Crash("code_gone")

-----------------------------------------------------------------------------
Return(t) ==
    /\ call[t].pc = "return"
    /\ call' = [call EXCEPT ![t] = IdleCall]
    /\ UNCHANGED <<module, opened, users, umagic, mutex, pins, pinning_list, refs,
                   fault>>

Entry(t) ==
    /\ call[t].pc = "idle"
    /\ \/ ExitEntry(t)
       \/ \E f \in Files :
            \/ OpenEntry(t, f)
            \/ CloseEntry(t, f)
            \/ CallGone(f)
            \/ \E r \in Codes : WriteRejected(t, f, r)
            \/ \E buf \in SUBSET Pages : WritePin(t, f, buf)
            \/ \E o \in HandleOps : WriteHandle(t, f, o)

(* One step of a call that has been entered. *)
Step(t) ==
    \/ OpenLock(t) \/ OpenAdd(t)
    \/ GetUserPages(t) \/ GetUserPagesShort(t) \/ NewPinning(t)
    \/ FillSglist(t) \/ ListAdd(t) \/ Deliver(t)
    \/ Lookup(t) \/ Walk(t) \/ Sync(t)
    \/ FreePut(t) \/ FreeSg(t) \/ FreeDel(t)
    \/ RelLoop(t) \/ RelLock(t) \/ RelDel(t)
    \/ ExitLoop(t)
    \/ UseAfterFree(t) \/ BadListDel(t) \/ WildPut(t) \/ CodeGone(t)
    \/ Return(t)

Init ==
    /\ module = "out"
    /\ opened = {}
    /\ users = {}
    /\ umagic = [f \in Files |-> None]
    /\ mutex = None
    /\ pins = [q \in Pins |-> FreePin]
    /\ pinning_list = [f \in Files |-> <<>>]
    /\ refs = [g \in Pages |-> 0]
    /\ call = [t \in Threads |-> IdleCall]
    /\ fault = "none"

Next == /\ fault = "none"
        /\ PinnerInit \/ \E t \in Threads : Entry(t) \/ Step(t)

Spec == Init /\ [][Next]_vars

(* What the scheduler and the mutex guarantee: a call that can run runs,   *)
(* and a waiter for users_mutex is handed it in the end.                   *)
Fairness == \A t \in Threads : /\ WF_vars(fault = "none" /\ Step(t))
                               /\ SF_vars(fault = "none" /\ OpenLock(t))
                               /\ SF_vars(fault = "none" /\ RelLock(t))

FairSpec == Spec /\ Fairness

-----------------------------------------------------------------------------
(* Properties. *)

(* Where a thread is in the middle of a function, the pointers the         *)
(* function dereferences are set.                                          *)
UsesPin == {"fill", "list_add", "deliver", "walk", "sync", "free_put", "free_sg",
            "free_del"}
UsesFile == UsesPin \cup {"gup", "new_pin", "lookup", "open_lock", "open_add",
                         "rel_loop", "rel_lock", "rel_del"}

PointersSet(c) == /\ c.pc \in UsesPin => c.pin \in Pins
                  /\ c.pc \in UsesFile => c.file \in Files

(* Every variable has its type, and no thread is about to dereference a    *)
(* pinning pointer or a proc_info pointer that is NULL (the `found' of     *)
(* pinner_do_unpin and pinner_do_flush, filp->private_data).               *)
TypeOK ==
    /\ module \in {"out", "in", "exiting"}
    /\ opened \subseteq Files
    /\ users \subseteq Files
    /\ umagic \in [Files -> UMagics \cup {None}]
    /\ mutex \in Threads \cup {None}
    /\ pins \in [Pins -> Pinning]
    /\ pinning_list \in [Files -> Seq(Pins)]
    /\ refs \in [Pages -> Int]
    /\ call \in [Threads -> Call]
    /\ \A t \in Threads : PointersSet(call[t])
    /\ fault \in Faults

(* Who has a reference to page g and will give it back: a pinning that     *)
(* some call can still find or is about to list, and a pin command that    *)
(* has not yet handed its pages to a pinning.                              *)
PinHolders(g) == {q \in Pins :
    /\ g \in pins[q].held
    /\ OnList(q) \/ \E t \in Threads : call[t].pc = "list_add" /\ call[t].pin = q}

CallHolders(g) == {t \in Threads : call[t].pc # "gup" /\ g \in call[t].pages}

(* Reference accounting: the references the driver has taken on a page are *)
(* one for each holder.  A missing put would leak the page, a second one   *)
(* would free it under a DMA transfer.                                     *)
RefsExact == \A g \in Pages :
                refs[g] = Cardinality(PinHolders(g)) + Cardinality(CallHolders(g))

(* The half of it that says that no page is leaked.  When                  *)
(* get_user_pages_fast falls short the driver may drop references that it  *)
(* does not own (pinner.c:280), but it never keeps one for which there is  *)
(* no holder.  When the scatterlist cannot be allocated it does.           *)
RefsNotLeaked == \A g \in Pages :
                    refs[g] <= Cardinality(PinHolders(g)) + Cardinality(CallHolders(g))

(* users_mutex: at most one thread is changing the list of users, and it   *)
(* is the holder of the mutex.                                             *)
UsersExclusive == \A t \in Threads :
                     call[t].pc \in {"open_add", "rel_del"} <=> mutex = t

(* No undefined behaviour: no statement of the driver uses a pinning or a  *)
(* proc_info that is freed, puts a page it does not hold, or runs after    *)
(* the module is unmapped.                                                 *)
NoFault == fault = "none"

(* Nothing outlives its file: whenever no call is under way, the only      *)
(* pinnings are those of open files, linked and complete, and only they    *)
(* keep pages; with every file closed no page is held.                     *)
QuietMeansClean ==
    (\A t \in Threads : ~Running(t)) =>
        /\ \A q \in Pins : \/ pins[q] = FreePin
                           \/ /\ pins[q].state = "live"
                              /\ pins[q].held = pins[q].pages
                              /\ pins[q].owner \in opened /\ OnList(q)
        /\ opened = {} => \A g \in Pages : refs[g] = 0

(* A pin command that returned 0 has published a pinning of its own file   *)
(* that is still there when the caller gets the handle, and one that       *)
(* failed has left nothing behind.                                         *)
PinAllOrNothing ==
    \A t \in Threads :
        (call[t].pc = "return" /\ call[t].op = "pin") =>
            IF call[t].ret = "0"
            THEN /\ pins[call[t].pin].state = "live"
                 /\ pins[call[t].pin].owner = call[t].file
                 /\ pins[call[t].pin].held # {}
            ELSE call[t].pin = None

(* A step never takes anything from a pinning of a file other than the one *)
(* its call is about ("make it very difficult for buggy ... user code to   *)
(* accidentally unpin someone else's pinnings").                           *)
OnlyOwnPinnings ==
    [][\A q \in Pins :
         (pins[q].owner # None /\ pins'[q] # pins[q]) =>
            \E t \in Threads : /\ call'[t] # call[t]
                               /\ call[t].file = pins[q].owner]_vars

(* Every system call on a driver that stays loaded comes back, whatever    *)
(* fails and whatever the other threads do: no lost mutex, no endless      *)
(* search or release loop.  A wild put or a use of freed memory ends what  *)
(* can be said.  (With a file shared by threads a search can be kept going *)
(* for ever by pinnings that come and go under it.)                        *)
CallsReturn == \A t \in Threads :
                  (call[t].pc # "idle") ~>
                      \/ call[t].pc = "idle"
                      \/ module # "in" \/ fault # "none"

-----------------------------------------------------------------------------
(* What the documents say and the driver does not do. *)

(* put_page_list runs only "after succesfully calling get_user_pages_fast  *)
(* but before anything else" (code_commentary.txt): a page is put only by  *)
(* the holder of a reference to it.                                        *)
PutsOnlyHeldPages ==
    /\ fault # "wild_put"
    /\ \A g \in Pages : refs[g] >= Cardinality(PinHolders(g))

-----------------------------------------------------------------------------
(* The driver implements the abstract service: a pinning is the service's  *)
(* from list_add until its pages are put.                                  *)
Serves(q) == pins[q].owner # None /\ pins[q].held # {}

Service == INSTANCE PinService WITH
    open <- users,
    owner <- [q \in Pins |-> IF Serves(q) THEN pins[q].owner ELSE None],
    pinned <- [q \in Pins |-> IF Serves(q) THEN pins[q].held ELSE {}],
    resident <- {g \in Pages : refs[g] > 0}

ImplementsService == Service!Spec
=============================================================================
