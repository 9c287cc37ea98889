------------------------------- MODULE MCS2mm -------------------------------
(* Small instances of S2mm: four bytes of data in two physical runs.       *)
EXTENDS S2mm

MCSgPlists == {<<[addr |-> 16, len |-> 6], [addr |-> 32, len |-> 2]>>}

MCDataPlists == {<<[addr |-> 67, len |-> 2], [addr |-> 80, len |-> 2]>>}

(* These buffers are what the theorems of S2mmProofs ask for: DisjointRuns, *)
(* DisjointData, and NoWrap, which says nothing of an offset past the run. *)
ASSUME BuffersOfTheorems ==
    /\ \A p \in SgPlists \cup DataPlists : \A i, j \in DOMAIN p :
         i # j => \/ p[i].addr + p[i].len <= p[j].addr
                  \/ p[j].addr + p[j].len <= p[i].addr
    /\ \A p \in SgPlists : \A i \in DOMAIN p : \A o \in 0..p[i].len :
         \/ o = 0
         \/ DESC <= o /\ o < p[i].len /\ (p[i].addr + o - DESC) % ALIGN = 0
         => Aligned(p[i], o) <= p[i].len
=============================================================================
