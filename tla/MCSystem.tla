------------------------------ MODULE MCSystem ------------------------------
(* Small instances of System: four bytes of data in two physical runs, the *)
(* first at the end of its page, and each run in a page of its own.        *)
EXTENDS System

MCSgPlists == {<<[addr |-> 16, len |-> 6], [addr |-> 32, len |-> 2]>>}

MCDataPlists == {<<[addr |-> 70, len |-> 2], [addr |-> 80, len |-> 2]>>}
=============================================================================
