----------------------------- MODULE Apportion -----------------------------
(***************************************************************************)
(* What an sg_list promises its user.  A data buffer is divided from its   *)
(* start into chunks, one for each successful axidma_add_entry, each chunk *)
(* immediately after the one before.  A call that does not succeed leaves  *)
(* the division as it was.                                                 *)
(***************************************************************************)
EXTENDS Naturals, Sequences, Folds, SequencesExt

VARIABLES
    size,      \* bytes of the data buffer, 0 while there is no list
    chunks,    \* the sizes of the chunks granted so far
    ret        \* the last return code

vars == <<size, chunks, ret>>

Codes == {"SUCCESS", "SG_OOM", "BUF_OOM", "ERROR"}

Granted == FoldLeft(LAMBDA total, n : total + n, 0, chunks)

Init == size = 0 /\ chunks = <<>> /\ ret = "NONE"

New == /\ size = 0
       /\ size' \in Nat \ {0}
       /\ UNCHANGED <<chunks, ret>>

Grant == \E n \in 1..size - Granted :
            /\ chunks' = Append(chunks, n)
            /\ ret' = "SUCCESS"
            /\ UNCHANGED size

Refuse == /\ size # 0
          /\ ret' \in Codes \ {"SUCCESS"}
          /\ UNCHANGED <<size, chunks>>

Delete == /\ size' = 0 /\ chunks' = <<>>
          /\ UNCHANGED ret

Next == New \/ Grant \/ Refuse \/ Delete

Spec == Init /\ [][Next]_vars
=============================================================================
