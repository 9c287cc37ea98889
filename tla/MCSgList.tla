------------------------------ MODULE MCSgList ------------------------------
(* Small instances of SgList: addresses and sizes of at most UINT bytes.   *)
EXTENDS SgList

Run(a, n) == [addr |-> a, len |-> n]

(* Physlists as the pinner sends them: every entry but the last ends at a  *)
(* page boundary, the last one where the buffer does.  The last entries of *)
(* some end between DESC and ALIGN bytes past an aligned address, as that  *)
(* of example.c's malloc(5000) may, or hold no aligned address.            *)
MCSgPlists ==
    { <<Run(16, 14)>>, <<Run(18, 6), Run(40, 8)>>,
      <<Run(23, 1), Run(32, 4), Run(16, 6)>>, <<Run(16, 1)>>, <<Run(17, 13)>>,
      <<Run(16, 11)>>, <<Run(18, 6), Run(40, 3)>>, <<Run(17, 2)>> }

MCDataPlists ==
    { <<Run(64, 7)>>, <<Run(67, 1), Run(80, 4), Run(72, 2)>>, <<Run(66, 2), Run(56, 4)>> }

MCSizes == 0..5
=============================================================================
