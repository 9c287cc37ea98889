----------------------------- MODULE PinService -----------------------------
(***************************************************************************)
(* What the pinner driver promises to its clients, with no threads, locks, *)
(* error paths or struct addresses recycled under anyone's feet.           *)
(*                                                                         *)
(* A client opens a file, asks for sets of pages to be held in memory, and *)
(* gives them back one pinning at a time.  A page of a live pinning is     *)
(* resident, a pinning keeps its owner and its pages for as long as it     *)
(* lives, and a file is only gone when all of its pinnings are.            *)
(***************************************************************************)
EXTENDS FiniteSets, Naturals

CONSTANTS Files, Pins, Pages, MaxPages, None

VARIABLES open,      \* the files the service knows
          owner,     \* Pins -> Files, or None for a pinning that does not exist
          pinned,    \* Pins -> the pages the pinning holds
          resident   \* the pages the service keeps in memory

vars == <<open, owner, pinned, resident>>

Live == {q \in Pins : owner[q] # None}

(* The pages that the service owes to its clients. *)
Owed == UNION {pinned[q] : q \in Live}

Init == /\ open = {}
        /\ owner = [q \in Pins |-> None]
        /\ pinned = [q \in Pins |-> {}]
        /\ resident = {}

(* Pages may be taken early and dropped late: between two steps only what  *)
(* is owed is certain to be resident.                                      *)
KeepOwed == /\ resident' \subseteq Pages
            /\ Owed' \subseteq resident'

Open(f) == /\ f \notin open
           /\ open' = open \cup {f}
           /\ UNCHANGED <<owner, pinned>>

Close(f) == /\ f \in open
            /\ f \notin {owner[q] : q \in Pins}
            /\ open' = open \ {f}
            /\ UNCHANGED <<owner, pinned>>

Pin(f, q, S) == /\ f \in open
                /\ q \notin Live
                /\ Cardinality(S) \in 1..MaxPages
                /\ owner' = [owner EXCEPT ![q] = f]
                /\ pinned' = [pinned EXCEPT ![q] = S]
                /\ UNCHANGED open

Unpin(f, q) == /\ owner[q] = f
               /\ owner' = [owner EXCEPT ![q] = None]
               /\ pinned' = [pinned EXCEPT ![q] = {}]
               /\ UNCHANGED open

Next == /\ KeepOwed
        /\ \/ \E f \in Files :
                 \/ Open(f)
                 \/ Close(f)
                 \/ \E q \in Pins : Unpin(f, q)
                 \/ \E q \in Pins, S \in SUBSET Pages : Pin(f, q, S)
           \/ UNCHANGED <<open, owner, pinned>>

Spec == Init /\ [][Next]_vars
=============================================================================
