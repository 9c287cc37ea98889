----------------------------- MODULE S2mmProofs -----------------------------
(***************************************************************************)
(* Proofs about the transfers (S2mm), for any buffers, lists and streams:  *)
(* where the DMA is, and what the buffers that the program dequeues are of *)
(* the stream.  The state of the list itself is taken from SgListProofs:   *)
(* its invariants hold in every step of a transfer, because no such step   *)
(* touches the list while it is built.                                     *)
(***************************************************************************)
EXTENDS S2mm, SgListProofs, FiniteSetTheorems

-----------------------------------------------------------------------------
(* Descriptors in memory. *)

StatusWord == [len : Nat, eof : BOOLEAN, complete : BOOLEAN, err : BOOLEAN]

Desc == [buf : Nat, len : Nat, sof : BOOLEAN, eof : BOOLEAN, next : Nat,
         status : StatusWord]

(* Descriptor d is that of entry k in a list of n. *)
IsFor(d, k, n) ==
    /\ d.buf = entries[k].buf_phys /\ d.len = entries[k].len
    /\ d.eof = entries[k].is_EOF
    /\ k # n => d.next = DescOf(k + 1)

(* Memory holds the descriptors of the first n entries. *)
Described(n) ==
    /\ DOMAIN mem = {DescOf(k) : k \in 1..n}
    /\ \A k \in 1..n : \E j \in 1..n :
          DescOf(j) = DescOf(k) /\ IsFor(mem[DescOf(k)], j, n)

MemType ==
    /\ mem \in [DOMAIN mem -> Desc]
    /\ dma = [state |-> dma.state, cur |-> dma.cur, tail |-> dma.tail,
              threshold |-> dma.threshold, timeout |-> dma.timeout,
              count |-> dma.count, byte |-> dma.byte, skip |-> dma.skip, sof |-> dma.sof]
    /\ dma.sof \in {FALSE, SofDma}

(* A list that is not new is in memory as it is. *)
ListWritten ==
    list # "new" => /\ pc \notin {"none", "add"}
                    /\ entries # <<>> /\ Described(Len(entries))

MemInv == MemType /\ ListWritten

(* The DMA writes nothing of a descriptor but its status. *)
OnlyStatus ==
    /\ DOMAIN mem' = DOMAIN mem
    /\ \A a \in DOMAIN mem : /\ mem'[a].buf = mem[a].buf
                             /\ mem'[a].len = mem[a].len
                             /\ mem'[a].eof = mem[a].eof
                             /\ mem'[a].next = mem[a].next

LEMMA StatusWritten ==
    ASSUME MemType, NEW c, NEW s,
           mem' = [mem EXCEPT ![c].status = s], c \in DOMAIN mem => s \in StatusWord
    PROVE  OnlyStatus /\ mem' \in [DOMAIN mem' -> Desc]
<1>1. DOMAIN mem' = DOMAIN mem
  OBVIOUS
<1>2. ASSUME NEW a \in DOMAIN mem
      PROVE  /\ mem'[a] \in Desc
             /\ mem'[a].buf = mem[a].buf /\ mem'[a].len = mem[a].len
             /\ mem'[a].eof = mem[a].eof /\ mem'[a].next = mem[a].next
  <2>1. mem[a] \in Desc
    BY DEF MemType
  <2>2. CASE a # c
    BY <2>1, <2>2
  <2>3. CASE a = c
    <3>1. mem'[a] = [mem[a] EXCEPT !.status = s] /\ s \in StatusWord
      BY <2>3
    <3> QED
      BY <2>1, <3>1 DEF Desc
  <2> QED
    BY <2>2, <2>3
<1>3. mem' \in [DOMAIN mem' -> Desc]
  BY <1>1, <1>2 DEF MemType
<1> QED
  BY <1>1, <1>2, <1>3 DEF OnlyStatus

(* The entries described stay, whatever is appended. *)
LEMMA DescribedKeeps ==
    ASSUME NEW n \in Nat, Described(n), OnlyStatus, sg_plist' = sg_plist,
           \A k \in 1..n : entries'[k] = entries[k]
    PROVE  Described(n)' /\ \A k \in 1..n : DescOf(k)' = DescOf(k)
<1>1. \A k \in 1..n : DescOf(k)' = DescOf(k)
  BY DEF DescOf
<1>2. ASSUME NEW j \in 1..n, NEW a \in DOMAIN mem, IsFor(mem[a], j, n)
      PROVE  IsFor(mem[a], j, n)'
  <2>1. j # n => j + 1 \in 1..n
    OBVIOUS
  <2> QED
    BY <1>1, <1>2, <2>1 DEF IsFor, OnlyStatus
<1>3. ASSUME NEW k \in 1..n
      PROVE  \E j \in 1..n : (DescOf(j) = DescOf(k) /\ IsFor(mem[DescOf(k)], j, n))'
  <2>1. PICK j \in 1..n : DescOf(j) = DescOf(k) /\ IsFor(mem[DescOf(k)], j, n)
    BY DEF Described
  <2>2. DescOf(k) \in DOMAIN mem
    BY DEF Described
  <2>3. IsFor(mem[DescOf(k)], j, n)'
    BY <1>1, <1>2, <2>1, <2>2
  <2> QED
    BY <1>1, <2>1, <2>3
<1>4. DOMAIN mem' = {DescOf(k)' : k \in 1..n}
  BY <1>1 DEF Described, OnlyStatus
<1> QED
  BY <1>1, <1>3, <1>4 DEF Described

-----------------------------------------------------------------------------
(* What each call does to the list and to memory. *)

(* The list may have grown; what it held it holds. *)
Grown ==
    /\ sg_plist' = sg_plist /\ data_plist' = data_plist
    /\ Len(entries) \in Nat /\ Len(entries') \in Nat /\ Len(entries) <= Len(entries')
    /\ \A k \in 1..Len(entries) : entries'[k] = entries[k]

LEMMA Same ==
    ASSUME SgInv, UNCHANGED <<sg_plist, data_plist, entries>>
    PROVE  Grown
<1>1. Len(entries) \in Nat
  BY DEF SgInv, ListType
<1> QED
  BY <1>1 DEF Grown

LEMMA BuildingGrows ==
    ASSUME SgInv, Building
    PROVE  Grown /\ pc = "add" /\ pc' \in {"add", "idle"}
<1>1. pc = "add" /\ entries \in Seq(Entry)
  BY DEF SgInv, ListType, Building, NoDescriptor, NoMemory, NextPart, NoNextPart, LastPart
<1>2. CASE NoDescriptor \/ NoMemory \/ NoNextPart \/ NextPart
  BY <1>1, <1>2, Same
     DEF NoDescriptor, NoMemory, NoNextPart, NextPart, AddFails, AddReturns
<1>3. CASE LastPart
  <2> DEFINE e == SgEntry(add.sz)
             r == Framed(Append(add.new, e))
  <2>1. /\ entries' = entries \o r /\ pc' = "idle"
        /\ UNCHANGED <<sg_plist, data_plist>>
    BY <1>3 DEF LastPart, AddReturns
  <2>2. add.sz \in Nat /\ Space \in Nat /\ add.sz <= Space
    BY <1>1, <1>3, Turn DEF LastPart, SgInv, AddType
  <2>3. add.sz \in 0..Space
    BY <2>2
  <2>4. e \in Entry /\ ~e.is_SOF /\ ~e.is_EOF
    BY <1>1, <2>3, Built
  <2> HIDE DEF e
  <2>5. add.new \in Seq(Entry) /\ NoMarks(add.new)
    BY <1>1 DEF SgInv, AddType, AddTiles
  <2>6. r \in Seq(Entry)
    BY <2>4, <2>5, FramedIs DEF FrameOf
  <2> HIDE DEF r
  <2>7. /\ Len(entries) \in Nat /\ Len(r) \in Nat
        /\ Len(entries \o r) = Len(entries) + Len(r)
        /\ \A k \in 1..Len(entries) : (entries \o r)[k] = entries[k]
    BY <1>1, <2>6
  <2> QED
    BY <1>1, <2>1, <2>7 DEF Grown
<1> QED
  BY <1>2, <1>3 DEF Building

LEMMA BuildKeeps ==
    ASSUME SgInv, MemInv, Build
    PROVE  /\ SgInv' /\ MemInv'
           /\ pc # "none" => Grown /\ pc = "add"
           /\ pc' \in {"add", "idle"} /\ UNCHANGED <<mem, dmaVars>>
<1>1. UNCHANGED <<ctx_lst, to_vist, list, mem, deq, buf, run, dmaVars>>
  BY DEF Build
<1>2. pc \in {"none", "add"}
  BY BuildingGrows DEF Build, ListNew
<1>3. MemInv'
  BY <1>1, <1>2 DEF MemInv, MemType, ListWritten, dmaVars
<1>4. CASE Building
  <2>1. Next
    BY <1>4 DEF Next
  <2> QED
    BY <1>1, <1>3, <1>4, <2>1, SgNext, BuildingGrows
<1>5. CASE \E sp \in SgPlists, dp \in DataPlists : ListNew(sp, dp)
  <2>1. Next /\ pc = "none" /\ pc' = "idle"
    BY <1>5 DEF Next, ListNew
  <2> QED
    BY <1>1, <1>3, <2>1, SgNext
<1> QED
  BY <1>4, <1>5 DEF Build

LEMMA ExtendKeeps ==
    ASSUME SgInv, MemInv, Extend
    PROVE  /\ SgInv' /\ MemInv' /\ Grown /\ UNCHANGED <<entries, mem, dmaVars>>
           /\ pc = "idle" /\ pc' \in {"add", "idle"}
<1>1. PICK sz \in Sizes : AddEntry(sz)
  BY DEF Extend
<1>2. /\ UNCHANGED <<sg_plist, data_plist, entries, offsets>>
      /\ pc = "idle" /\ pc' \in {"add", "idle"}
  BY <1>1 DEF AddEntry, AddFails, AddReturns
<1>3. list' = "new" /\ UNCHANGED <<mem, dmaVars>>
  BY DEF Extend
<1>4. MemInv'
  BY <1>3 DEF MemInv, MemType, ListWritten, dmaVars
<1> QED
  BY <1>1, <1>2, <1>3, <1>4, SgAddEntry, Same

LEMMA DeleteKeeps ==
    ASSUME SgInv, MemInv, Delete
    PROVE  /\ SgInv' /\ MemInv' /\ UNCHANGED <<mem, dmaVars>>
           /\ pc = "idle" /\ pc' = "none"
<1>1. list' = "new" /\ UNCHANGED <<mem, dmaVars>> /\ ListDel
  BY DEF Delete
<1>2. MemInv'
  BY <1>1 DEF MemInv, MemType, ListWritten, dmaVars
<1>3. pc = "idle" /\ pc' = "none"
  BY <1>1 DEF ListDel
<1> QED
  BY <1>1, <1>2, <1>3, SgListDel

(* Steps of the program that leave list and memory as they are. *)
Looking == \/ WaitReturns \/ Dequeuing \/ Consumed \/ ResetTraversal
           \/ \E wait_irq \in WaitIrq, enable_timeout \in Timeouts :
                Transfer(wait_irq, enable_timeout)

LEMMA LookingIs ==
    ASSUME Looking
    PROVE  /\ UNCHANGED <<listVars, mem>>
           /\ pc \notin {"none", "add"} /\ pc' \notin {"none", "add"}
           /\ list' # "new" => list # "new"
<1>1. CASE \E wait_irq \in WaitIrq, enable_timeout \in Timeouts :
             Transfer(wait_irq, enable_timeout)
  BY <1>1 DEF Transfer
<1>2. CASE WaitReturns
  BY <1>2 DEF WaitReturns
<1>3. CASE Dequeuing
  BY <1>3 DEF Dequeuing, DequeueEnd, Dequeue, ReadLen, ReadComplete, ReadEof,
              DequeueReturns, DequeueUnchanged
<1>4. CASE Consumed
  BY <1>4 DEF Consumed, DequeueUnchanged
<1>5. CASE ResetTraversal
  BY <1>5 DEF ResetTraversal, DequeueUnchanged
<1> QED
  BY <1>1, <1>2, <1>3, <1>4, <1>5 DEF Looking

LEMMA LookingDma ==
    ASSUME MemType, Looking
    PROVE  MemType'
<1>1. mem' = mem
  BY LookingIs
<1>2. CASE \E wait_irq \in WaitIrq, enable_timeout \in Timeouts :
             Transfer(wait_irq, enable_timeout)
  BY <1>1, <1>2 DEF Transfer, MemType
<1>3. CASE UNCHANGED dma
  BY <1>1, <1>3 DEF MemType
<1>4. UNCHANGED dma \/ \E wait_irq \in WaitIrq, enable_timeout \in Timeouts :
                         Transfer(wait_irq, enable_timeout)
  BY DEF Looking, WaitReturns, Consumed, ResetTraversal, DequeueUnchanged,
         Dequeuing, DequeueEnd, Dequeue, ReadLen, ReadComplete, ReadEof,
         DequeueReturns, dmaVars
<1> QED
  BY <1>2, <1>3, <1>4

LEMMA LookingKeeps ==
    ASSUME SgInv, MemInv, Looking
    PROVE  SgInv' /\ MemInv' /\ Grown
<1>1. UNCHANGED <<sg_plist, data_plist, entries, offsets, mem>>
  BY LookingIs DEF listVars
<1>2. SgInv'
  BY <1>1, LookingIs, SgKeeps
<1>3. \A k \in 1..Len(entries) : entries'[k] = entries[k]
  BY <1>1
<1>4. ListWritten'
  <2> SUFFICES ASSUME list' # "new" PROVE entries # <<>> /\ Described(Len(entries))'
    BY <1>1, LookingIs DEF ListWritten
  <2>1. entries # <<>> /\ Described(Len(entries))
    BY LookingIs DEF MemInv, ListWritten
  <2>2. OnlyStatus /\ Len(entries) \in Nat
    BY <1>1 DEF OnlyStatus, SgInv, ListType
  <2> QED
    BY <1>1, <1>3, <2>1, <2>2, DescribedKeeps
<1> QED
  BY <1>1, <1>2, <1>4, LookingDma, Same DEF MemInv

LEMMA EntryIs ==
    ASSUME SgInv, pc # "none", NEW k \in 1..Len(entries)
    PROVE  /\ entries[k] \in Entry /\ DescOf(k) \in Nat
           /\ entries \in Seq(Entry) /\ sg_plist \in Physlists
<1>1. entries \in Seq(Entry) /\ sg_plist \in SgPlists
  BY DEF SgInv, ListType
<1>2. sg_plist \in Physlists
  BY <1>1, Buffers
<1>3. entries[k] \in Entry
  BY <1>1, ElementType
<1>4. entries[k].sg_offset \in Nat
  BY <1>3 DEF Entry
<1> QED
  BY <1>1, <1>2, <1>3, <1>4, VirtToPhysType DEF DescOf

LEMMA DescriptorIs ==
    ASSUME SgInv, pc # "none", NEW k \in 1..Len(entries), NEW o \in Nat
    PROVE  Descriptor(k, o) \in Desc /\ IsFor(Descriptor(k, o), k, Len(entries))
<1>1. /\ entries[k] \in Entry /\ sg_plist \in Physlists /\ Len(entries) \in Nat
  BY EntryIs
<1>2. /\ entries[k].buf_phys \in Nat /\ entries[k].len \in Nat
      /\ entries[k].is_SOF \in BOOLEAN /\ entries[k].is_EOF \in BOOLEAN
  BY <1>1 DEF Entry
<1>3. VirtToPhys(sg_plist, o) \in Nat
  BY <1>1, VirtToPhysType
<1>4. k # Len(entries) => DescOf(k + 1) \in Nat
  <2>1. k # Len(entries) => k + 1 \in 1..Len(entries)
    BY <1>1
  <2> QED
    BY <2>1, EntryIs
<1>5. NoStatus \in StatusWord
  BY DEF NoStatus, StatusWord
<1>6. Descriptor(k, o) \in Desc
  BY <1>2, <1>3, <1>4, <1>5 DEF Descriptor, Desc
<1>7. IsFor(Descriptor(k, o), k, Len(entries))
  BY DEF Descriptor, IsFor
<1> QED
  BY <1>6, <1>7

LEMMA WriteKeeps ==
    ASSUME SgInv, MemInv, WriteSgList
    PROVE  SgInv' /\ MemInv' /\ Grown /\ UNCHANGED <<entries, dmaVars>>
           /\ pc = "idle" /\ pc' = "idle" /\ dma.state # "busy"
<1>1. /\ pc = "idle" /\ pc' = pc /\ entries # <<>> /\ list' = "written"
      /\ dma.state # "busy"
      /\ UNCHANGED <<sg_plist, data_plist, entries, offsets, add, dma>>
      /\ UNCHANGED dmaVars
  BY DEF WriteSgList, listVars, dmaVars
<1>2. SgInv'
  BY <1>1, SgKeeps
<1> DEFINE n == Len(entries)
           D == {DescOf(k) : k \in DOMAIN entries}
           Of(a) == CHOOSE k \in DOMAIN entries : a = DescOf(k)
<1>3. DOMAIN entries = 1..n /\ n \in Nat
  BY DEF SgInv, ListType
<1>4. PICK o \in Nat : mem' = [a \in D |-> Descriptor(Of(a), o)]
  <2>1. PICK o \in {0, UINT - 1} : mem' = [a \in D |-> Descriptor(Of(a), o)]
    BY DEF WriteSgList
  <2>2. o \in Nat
    BY Positive
  <2> QED
    BY <2>1, <2>2
<1>5. ASSUME NEW a \in D
      PROVE  Of(a) \in 1..n /\ DescOf(Of(a)) = a
  BY <1>3
<1> HIDE DEF Of
<1>6. ASSUME NEW a \in D
      PROVE  mem'[a] \in Desc /\ IsFor(mem'[a], Of(a), n)
  <2>1. mem'[a] = Descriptor(Of(a), o)
    BY <1>4
  <2> QED
    BY <1>1, <1>5, <2>1, DescriptorIs
<1>7. DOMAIN mem' = D /\ mem' \in [D -> Desc]
  BY <1>4, <1>6
<1>8. MemType'
  BY <1>1, <1>7 DEF MemInv, MemType
<1>9. \A k \in 1..n : DescOf(k)' = DescOf(k)
  BY <1>1 DEF DescOf
<1>10. ASSUME NEW k \in 1..n
       PROVE  \E j \in 1..n : (DescOf(j) = DescOf(k) /\ IsFor(mem[DescOf(k)], j, n))'
  <2>1. DescOf(k) \in D
    BY <1>3
  <2>2. PICK j \in 1..n : DescOf(j) = DescOf(k) /\ IsFor(mem'[DescOf(k)], j, n)
    BY <1>5, <1>6, <2>1
  <2>3. j # n => j + 1 \in 1..n
    <3> HIDE DEF n
    <3> QED
      BY ONLY <1>3, j \in 1..n
  <2>4. IsFor(mem[DescOf(k)], j, n)'
    BY <1>1, <1>9, <2>2, <2>3 DEF IsFor
  <2> QED
    BY <1>9, <2>2, <2>4
<1>11. Described(n)'
  <2>1. DOMAIN mem' = {DescOf(k)' : k \in 1..n}
    BY <1>3, <1>7, <1>9
  <2> QED
    BY <1>1, <1>10, <2>1 DEF Described
<1>12. ListWritten'
  BY <1>1, <1>11 DEF ListWritten
<1> QED
  BY <1>1, <1>2, <1>8, <1>12, Same DEF MemInv

(* The DMA and its faults. *)
Engine == Dma \/ Skip \/ ReceiveFails \/ DelayIrq

LEMMA EngineKeeps ==
    ASSUME SgInv, MemInv, Engine
    PROVE  /\ SgInv' /\ MemInv' /\ Grown /\ OnlyStatus
           /\ UNCHANGED <<listVars, progVars>>
<1>1. UNCHANGED <<listVars, progVars>>
  BY DEF Engine, Dma, Receive, Skip, ReceiveFails, DelayIrq
<1>2. UNCHANGED <<pc, sg_plist, data_plist, entries, offsets, add, list>>
  BY <1>1 DEF listVars, progVars
<1>3. SgInv'
  BY <1>2, SgKeeps
<1>4. MemType' /\ OnlyStatus
  <2>1. CASE Dma
    <3>1. PICK n \in 1..mem[dma.cur].len, eof \in BOOLEAN : Receive(n, eof)
      BY <2>1 DEF Dma
    <3> DEFINE s == [len |-> n, eof |-> eof, complete |-> TRUE, err |-> FALSE]
    <3>2. mem' = [mem EXCEPT ![dma.cur].status = s]
      BY <3>1 DEF Receive
    <3>3. dma.cur \in DOMAIN mem => s \in StatusWord
      <4> SUFFICES ASSUME dma.cur \in DOMAIN mem PROVE n \in Nat
        BY DEF StatusWord
      <4>1. mem[dma.cur] \in Desc
        BY DEF MemInv, MemType
      <4>2. mem[dma.cur].len \in Nat
        BY <4>1 DEF Desc
      <4> QED
        BY <4>2
    <3> HIDE DEF s
    <3>4. OnlyStatus /\ mem' \in [DOMAIN mem' -> Desc]
      BY <3>2, <3>3, StatusWritten DEF MemInv
    <3>5. dma' = [state |-> dma'.state, cur |-> dma'.cur, tail |-> dma'.tail,
                  threshold |-> dma'.threshold, timeout |-> dma'.timeout,
                  count |-> dma'.count, byte |-> dma'.byte, skip |-> dma'.skip, sof |-> dma'.sof]
      BY <3>1 DEF Receive, MemInv, MemType
    <3>6. dma'.sof = dma.sof
      BY <3>1 DEF Receive, MemInv, MemType
    <3> QED
      BY <3>4, <3>5, <3>6 DEF MemInv, MemType
  <2>2. CASE ReceiveFails
    <3> DEFINE s == [mem[dma.cur].status EXCEPT !.err = TRUE]
    <3>1. mem' = [mem EXCEPT ![dma.cur].status = s]
      BY <2>2 DEF ReceiveFails
    <3>2. dma.cur \in DOMAIN mem => s \in StatusWord
      <4> SUFFICES ASSUME dma.cur \in DOMAIN mem PROVE s \in StatusWord
        OBVIOUS
      <4>1. mem[dma.cur] \in Desc
        BY DEF MemInv, MemType
      <4>2. mem[dma.cur].status \in StatusWord
        BY <4>1 DEF Desc
      <4> QED
        BY <4>2 DEF StatusWord
    <3> HIDE DEF s
    <3>3. OnlyStatus /\ mem' \in [DOMAIN mem' -> Desc]
      BY <3>1, <3>2, StatusWritten DEF MemInv
    <3>4. dma' = [dma EXCEPT !.state = "halted"]
      BY <2>2 DEF ReceiveFails
    <3> QED
      BY <3>3, <3>4 DEF MemType, MemInv
  <2>3. CASE DelayIrq
    <3>1. mem' = mem /\ dma' = [dma EXCEPT !.count = 0]
      BY <2>3 DEF DelayIrq
    <3> QED
      BY <3>1 DEF MemType, MemInv, OnlyStatus
  <2>4. CASE Skip
    <3>1. mem' = mem /\ dma' = [dma EXCEPT !.cur = mem[dma.cur].next,
                                !.state = IF dma.cur = dma.tail THEN "idle" ELSE @]
      BY <2>4 DEF Skip
    <3> QED
      BY <3>1 DEF MemType, MemInv, OnlyStatus
  <2> QED
    BY <2>1, <2>2, <2>3, <2>4 DEF Engine
<1>5. ListWritten'
  <2> SUFFICES ASSUME list # "new" PROVE Described(Len(entries))'
    BY <1>2 DEF ListWritten, MemInv
  <2>1. Described(Len(entries)) /\ Len(entries) \in Nat
    BY DEF MemInv, ListWritten, SgInv, ListType
  <2>2. \A k \in 1..Len(entries) : entries'[k] = entries[k]
    BY <1>2
  <2> QED
    BY <1>2, <1>4, <2>1, <2>2, DescribedKeeps
<1> QED
  BY <1>1, <1>2, <1>3, <1>4, <1>5, Same DEF MemInv

-----------------------------------------------------------------------------
(* The DMA at work. *)

(* The DMA is at one of the n entries that were written, and the last of   *)
(* them is its tail; the program may have added more to the list since.    *)
InList ==
    dma.state = "busy" =>
        \E n \in 1..Len(entries) :
            /\ Described(n) /\ dma.tail = DescOf(n)
            /\ \E k \in 1..n : dma.cur = DescOf(k)

S2mmInv == SgInv /\ MemInv /\ InList

LEMMA InListStays ==
    ASSUME InList, Grown, OnlyStatus,
           dma'.state = "busy" => /\ dma.state = "busy" /\ dma'.tail = dma.tail
                                  /\ dma'.cur = dma.cur
    PROVE  InList'
<1> SUFFICES ASSUME dma'.state = "busy"
             PROVE  \E n \in 1..Len(entries') :
                       /\ Described(n)' /\ dma'.tail = DescOf(n)'
                       /\ \E k \in 1..n : dma'.cur = DescOf(k)'
  BY DEF InList
<1>1. PICK n \in 1..Len(entries) :
         /\ Described(n) /\ dma.tail = DescOf(n)
         /\ \E k \in 1..n : dma.cur = DescOf(k)
  BY DEF InList
<1>2. /\ n \in Nat /\ n \in 1..Len(entries') /\ n \in 1..n
      /\ \A k \in 1..n : entries'[k] = entries[k]
      /\ sg_plist' = sg_plist
  BY DEF Grown
<1>3. Described(n)' /\ \A k \in 1..n : DescOf(k)' = DescOf(k)
  BY <1>1, <1>2, DescribedKeeps
<1> QED
  BY <1>1, <1>2, <1>3

(* A descriptor that is done is the tail, or leads to the next. *)
LEMMA NextDescriptor ==
    ASSUME SgInv, InList, dma.state = "busy"
    PROVE  \E n \in 1..Len(entries) :
              /\ Described(n) /\ dma.tail = DescOf(n)
              /\ \E k \in 1..n :
                    /\ dma.cur = DescOf(k) /\ dma.cur \in DOMAIN mem
                    /\ IsFor(mem[dma.cur], k, n)
<1>1. PICK n \in 1..Len(entries) :
         /\ Described(n) /\ dma.tail = DescOf(n)
         /\ \E k \in 1..n : dma.cur = DescOf(k)
  BY DEF InList
<1>2. PICK k \in 1..n : dma.cur = DescOf(k)
  BY <1>1
<1>3. PICK j \in 1..n : DescOf(j) = DescOf(k) /\ IsFor(mem[DescOf(k)], j, n)
  BY <1>1 DEF Described
<1>4. DescOf(k) \in DOMAIN mem
  BY <1>1 DEF Described
<1>5. dma.cur = DescOf(j) /\ dma.cur \in DOMAIN mem /\ IsFor(mem[dma.cur], j, n)
  BY <1>2, <1>3, <1>4
<1> QED
  BY <1>1, <1>5

LEMMA InListDma ==
    ASSUME SgInv, MemInv, InList, Dma \/ Skip
    PROVE  InList'
<1> SUFFICES ASSUME dma'.state = "busy"
             PROVE  \E n \in 1..Len(entries') :
                       /\ Described(n)' /\ dma'.tail = DescOf(n)'
                       /\ \E k \in 1..n : dma'.cur = DescOf(k)'
  BY DEF InList
<1>1. /\ dma.state = "busy" /\ dma.cur # dma.tail
      /\ dma'.tail = dma.tail /\ dma'.cur = mem[dma.cur].next
  <2>1. CASE Skip
    BY <2>1 DEF Skip, MemInv, MemType
  <2>2. CASE Dma
    <3>1. PICK r, eof : Receive(r, eof)
      BY <2>2 DEF Dma
    <3> QED
      BY <3>1 DEF Receive, MemInv, MemType
  <2> QED
    BY <2>1, <2>2
<1>2. dma.state = "busy"
  BY <1>1
<1>3. PICK n \in 1..Len(entries) :
         /\ Described(n) /\ dma.tail = DescOf(n)
         /\ \E k \in 1..n : /\ dma.cur = DescOf(k) /\ dma.cur \in DOMAIN mem
                            /\ IsFor(mem[dma.cur], k, n)
  BY <1>2, NextDescriptor
<1>4. PICK k \in 1..n : /\ dma.cur = DescOf(k) /\ IsFor(mem[dma.cur], k, n)
  BY <1>3
<1>5. k # n /\ dma'.cur = DescOf(k + 1)
  BY <1>1, <1>3, <1>4 DEF IsFor
<1>6. Grown /\ OnlyStatus
  BY EngineKeeps DEF Engine
<1>7. /\ n \in Nat /\ n \in 1..Len(entries') /\ k + 1 \in 1..n /\ n \in 1..n
      /\ \A i \in 1..n : entries'[i] = entries[i]
      /\ sg_plist' = sg_plist
  BY <1>5, <1>6 DEF Grown
<1>8. Described(n)' /\ \A i \in 1..n : DescOf(i)' = DescOf(i)
  BY <1>3, <1>6, <1>7, DescribedKeeps
<1> QED
  BY <1>1, <1>3, <1>5, <1>7, <1>8

LEMMA InListTransfer ==
    ASSUME SgInv, MemInv, InList, NEW w, NEW t, Transfer(w, t)
    PROVE  InList'
<1> SUFFICES ASSUME dma'.state = "busy"
             PROVE  \E n \in 1..Len(entries') :
                       /\ Described(n)' /\ dma'.tail = DescOf(n)'
                       /\ \E k \in 1..n : dma'.cur = DescOf(k)'
  BY DEF InList
<1>1. /\ list # "new" /\ UNCHANGED <<sg_plist, entries, mem>>
      /\ dma'.tail = DescOf(Len(entries)) /\ dma'.cur = DescOf(1)
  BY DEF Transfer, listVars, MemInv, MemType
<1>2. PICK n \in Nat \ {0} : n = Len(entries) /\ Described(n)
  BY <1>1 DEF MemInv, ListWritten, SgInv, ListType
<1>3. OnlyStatus /\ n \in 1..n /\ 1 \in 1..n /\ \A k \in 1..n : entries'[k] = entries[k]
  BY <1>1, <1>2 DEF OnlyStatus
<1>4. Described(n)' /\ \A k \in 1..n : DescOf(k)' = DescOf(k)
  BY <1>1, <1>2, <1>3, DescribedKeeps
<1> QED
  BY <1>1, <1>2, <1>3, <1>4

LEMMA S2mmInitInv == S2mmInit => S2mmInv
<1> SUFFICES ASSUME S2mmInit PROVE S2mmInv
  OBVIOUS
<1>1. SgInv
  BY SgInit DEF S2mmInit
<1>2. /\ mem = <<>> /\ list = "new" /\ dma.state = "idle"
      /\ dma = [state |-> "idle", cur |-> 0, tail |-> 0,
                threshold |-> 1, timeout |-> FALSE, count |-> 0, byte |-> 0,
                skip |-> FALSE, sof |-> dma.sof]
      /\ dma.sof \in {FALSE, SofDma}
  <2>1. PICK sof \in {FALSE, SofDma} :
           dma = [state |-> "idle", cur |-> 0, tail |-> 0,
                  threshold |-> 1, timeout |-> FALSE, count |-> 0, byte |-> 0,
                  skip |-> FALSE, sof |-> sof]
    BY DEF S2mmInit
  <2>2. dma.sof = sof /\ dma.state = "idle"
    BY <2>1
  <2> QED
    BY <2>1, <2>2 DEF S2mmInit
<1>3. DOMAIN <<>> = {}
  OBVIOUS
<1>4. mem \in [DOMAIN mem -> Desc]
  BY <1>2, <1>3
<1> QED
  BY <1>1, <1>2, <1>4 DEF S2mmInv, MemInv, MemType, ListWritten, InList

LEMMA S2mmNextInv ==
    ASSUME S2mmInv, [S2mmNext]_svars
    PROVE  S2mmInv'
<1> USE DEF S2mmInv
<1>1. CASE Build
  <2>1. /\ SgInv' /\ MemInv' /\ UNCHANGED <<mem, dmaVars>>
        /\ pc # "none" => Grown
    BY <1>1, BuildKeeps
  <2>2. dma.state = "busy" => pc # "none"
    <3>1. Len(<<>>) = 0
      OBVIOUS
    <3> QED
      BY <3>1 DEF InList, SgInv, ListType, Empty
  <2>3. UNCHANGED dma /\ OnlyStatus
    BY <2>1 DEF dmaVars, OnlyStatus
  <2> QED
    BY <2>1, <2>2, <2>3, InListStays DEF InList
<1>2. CASE Extend
  <2>1. /\ SgInv' /\ MemInv' /\ Grown /\ UNCHANGED <<mem, dmaVars>>
    BY <1>2, ExtendKeeps
  <2>2. UNCHANGED dma /\ OnlyStatus
    BY <2>1 DEF dmaVars, OnlyStatus
  <2> QED
    BY <2>1, <2>2, InListStays
<1>3. CASE WriteSgList
  BY <1>3, WriteKeeps DEF InList, dmaVars
<1>4. CASE dma.state # "busy" /\ Delete
  BY <1>4, DeleteKeeps DEF InList, dmaVars
<1>5. ASSUME NEW w \in WaitIrq, NEW t \in Timeouts, Transfer(w, t) PROVE S2mmInv'
  <2>1. SgInv' /\ MemInv'
    BY <1>5, LookingKeeps DEF Looking
  <2> QED
    BY <1>5, <2>1, InListTransfer
<1>6. CASE WaitReturns \/ Dequeuing \/ Consumed \/ ResetTraversal
  <2>1. SgInv' /\ MemInv' /\ Grown /\ UNCHANGED mem
    BY <1>6, LookingKeeps, LookingIs DEF Looking
  <2>2. UNCHANGED dma /\ OnlyStatus
    BY <1>6, <2>1 DEF OnlyStatus, WaitReturns, Consumed, ResetTraversal,
       DequeueUnchanged, Dequeuing, DequeueEnd, Dequeue, ReadLen, ReadComplete,
       ReadEof, DequeueReturns, dmaVars
  <2> QED
    BY <2>1, <2>2, InListStays
<1>7. CASE Dma \/ Skip
  BY <1>7, EngineKeeps, InListDma DEF Engine
<1>8. CASE ReceiveFails \/ DelayIrq
  <2>1. SgInv' /\ MemInv' /\ Grown /\ OnlyStatus
    BY <1>8, EngineKeeps DEF Engine
  <2>2. dma'.state = "busy" => /\ dma.state = "busy" /\ dma'.tail = dma.tail
                               /\ dma'.cur = dma.cur
    BY <1>8 DEF ReceiveFails, DelayIrq, MemInv, MemType
  <2> QED
    BY <2>1, <2>2, InListStays
<1>9. CASE UNCHANGED svars
  <2>1. UNCHANGED <<pc, sg_plist, data_plist, entries, offsets, add, mem, dma, list>>
    BY <1>9 DEF svars, listVars, progVars, dmaVars
  <2>2. SgInv' /\ Grown /\ OnlyStatus
    BY <2>1, SgKeeps, Same DEF OnlyStatus
  <2>3. MemType'
    BY <2>1 DEF MemInv, MemType
  <2>4. ListWritten'
    BY <2>1 DEF MemInv, ListWritten, Described, IsFor, DescOf
  <2> QED
    BY <2>1, <2>2, <2>3, <2>4, InListStays DEF MemInv
<1> QED
  BY <1>1, <1>2, <1>3, <1>4, <1>5, <1>6, <1>7, <1>8, <1>9 DEF S2mmNext

LEMMA InvStaysInList == S2mmInv => DmaStaysInList
<1> SUFFICES ASSUME S2mmInv, dma.state = "busy"
             PROVE  \E k \in DOMAIN entries :
                       /\ dma.cur = DescOf(k) /\ dma.cur \in DOMAIN mem
                       /\ mem[dma.cur].buf = entries[k].buf_phys
                       /\ mem[dma.cur].len = entries[k].len
  BY DEF DmaStaysInList
<1>1. PICK n \in 1..Len(entries) :
         \E k \in 1..n : /\ dma.cur = DescOf(k) /\ dma.cur \in DOMAIN mem
                         /\ IsFor(mem[dma.cur], k, n)
  BY NextDescriptor DEF S2mmInv
<1>2. PICK k \in 1..n : /\ dma.cur = DescOf(k) /\ dma.cur \in DOMAIN mem
                        /\ IsFor(mem[dma.cur], k, n)
  BY <1>1
<1>3. DOMAIN entries = 1..Len(entries) /\ Len(entries) \in Nat
  BY DEF S2mmInv, SgInv, ListType
<1>4. k \in DOMAIN entries
  BY <1>2, <1>3
<1> QED
  BY <1>2, <1>4 DEF IsFor

(* DmaStaysInList: whatever list the program has built and extended since, *)
(* and however the stream cut its packets, a running DMA is at a           *)
(* descriptor that s2mm_write_sg_list wrote for an entry of the list, and  *)
(* never follows the next pointer of the last.                             *)
THEOREM DmaFollowsList == S2mmSpec => []DmaStaysInList
<1>1. S2mmInv /\ [S2mmNext]_svars => S2mmInv'
  BY S2mmNextInv
<1> QED
  BY <1>1, S2mmInitInv, InvStaysInList, PTL DEF S2mmSpec

-----------------------------------------------------------------------------
(* Where the descriptors are. *)

(* The runs of a descriptor buffer share no byte of physical memory. *)
DisjointRuns ==
    \A p \in SgPlists : \A i, j \in DOMAIN p :
        i # j => \/ p[i].addr + p[i].len <= p[j].addr
                 \/ p[j].addr + p[j].len <= p[i].addr

(* No descriptor buffer has room for as many descriptors as the interrupt  *)
(* threshold has values: the count of chunks fits its field.               *)
FewDescriptors == \A p \in SgPlists : SizeOf(p) < IRQ_FIELD * DESC

LEMMA OffsetsAre ==
    ASSUME SgInv, PlacedInv
    PROVE  /\ Len(entries) \in Nat
           /\ \A k \in 1..Len(entries) :
                /\ entries[k].sg_offset \in Nat
                /\ Placed(entries[k].sg_offset)
                /\ k # 1 => entries[k - 1].sg_offset + DESC <= entries[k].sg_offset
<1>1. entries \in Seq(Entry) /\ Apart(entries, 0, offsets.sg)
  BY DEF SgInv, ListType, PlacedInv
<1>2. ASSUME NEW k \in 1..Len(entries) PROVE entries[k].sg_offset \in Nat
  <2>1. entries[k] \in Entry
    BY <1>1, ElementType
  <2> QED
    BY <2>1 DEF Entry
<1> QED
  BY <1>1, <1>2 DEF Apart

LEMMA Increasing ==
    ASSUME SgInv, PlacedInv, NEW j \in 1..Len(entries), NEW k \in 1..Len(entries), j < k
    PROVE  entries[j].sg_offset + DESC <= entries[k].sg_offset
<1> DEFINE N == Len(entries)
           o(i) == entries[i].sg_offset
           S == {d \in Nat : j + (d + 1) <= N => o(j) + DESC <= o(j + (d + 1))}
<1>1. /\ N \in Nat /\ DESC \in Nat
      /\ \A i \in 1..N : o(i) \in Nat /\ (i # 1 => o(i - 1) + DESC <= o(i))
  BY OffsetsAre, Positive
<1> HIDE DEF N, o
<1>2. j \in 1..N /\ k \in 1..N
  BY DEF N
<1>3. 0 \in S
  <2> SUFFICES ASSUME j + (0 + 1) <= N PROVE o(j) + DESC <= o(j + (0 + 1))
    OBVIOUS
  <2>1. j + (0 + 1) \in 1..N /\ j + (0 + 1) # 1 /\ (j + (0 + 1)) - 1 = j
    BY <1>1, <1>2
  <2> QED
    BY <2>1, <1>1
<1>4. ASSUME NEW d \in Nat, d \in S PROVE d + 1 \in S
  <2> SUFFICES ASSUME j + ((d + 1) + 1) <= N PROVE o(j) + DESC <= o(j + ((d + 1) + 1))
    OBVIOUS
  <2> DEFINE m == j + ((d + 1) + 1)
             l == j + (d + 1)
  <2>1. m \in 1..N /\ m # 1 /\ m - 1 = l /\ l \in 1..N
    BY <1>1, <1>2
  <2>2. o(j) + DESC <= o(l)
    BY <1>1, <1>4, <2>1
  <2> HIDE DEF m, l
  <2>3. o(l) + DESC <= o(m) /\ o(l) \in Nat /\ o(m) \in Nat /\ o(j) \in Nat
    BY <1>1, <1>2, <2>1
  <2>4. o(j) + DESC <= o(m)
    BY <1>1, <2>2, <2>3
  <2> QED
    BY <2>4 DEF m
<1>5. Nat \subseteq S
  <2> HIDE DEF S
  <2> QED
    BY <1>3, <1>4, NatSetInduction
<1>6. (k - j) - 1 \in Nat /\ j + (((k - j) - 1) + 1) = k
  BY <1>1, <1>2
<1>7. o(j) + DESC <= o(k)
  <2>1. (k - j) - 1 \in S
    BY <1>5, <1>6
  <2>2. k <= N
    BY <1>1, <1>2
  <2> QED
    BY <2>1, <2>2, <1>6
<1> QED
  BY <1>7 DEF o

LEMMA InRun ==
    ASSUME NEW addr \in Nat, NEW len \in Nat, NEW b \in Nat, NEW x \in Nat, NEW n \in Nat,
           b <= x, x + n <= b + len
    PROVE  /\ addr + x - b \in Nat
           /\ addr <= addr + x - b /\ (addr + x - b) + n <= addr + len
OBVIOUS

LEMMA NotInBoth ==
    ASSUME NEW a \in Nat, NEW la \in Nat, NEW b \in Nat, NEW lb \in Nat,
           NEW x \in Nat, NEW n \in Nat \ {0},
           a <= x, x + n <= a + la, b <= x, x + n <= b + lb
    PROVE  ~(a + la <= b \/ b + lb <= a)
OBVIOUS

(* The run a descriptor is in, and its address. *)
LEMMA PlacedIn ==
    ASSUME SgInv, PlacedInv, NEW k \in 1..Len(entries)
    PROVE  \E i \in 1..Len(sg_plist) :
              LET o == entries[k].sg_offset IN
              /\ sg_plist \in SgPlists /\ sg_plist \in Physlists
              /\ i \in 1..Len(sg_plist) + 1
              /\ Before(sg_plist, i) <= o
              /\ o + DESC <= Before(sg_plist, i) + sg_plist[i].len
              /\ DescOf(k) = sg_plist[i].addr + o - Before(sg_plist, i)
              /\ Before(sg_plist, i) \in Nat /\ o \in Nat
              /\ sg_plist[i].addr \in Nat /\ sg_plist[i].len \in Nat
              /\ DescOf(k) \in Nat /\ sg_plist[i].addr <= DescOf(k)
              /\ DescOf(k) + DESC <= sg_plist[i].addr + sg_plist[i].len
<1> DEFINE o == entries[k].sg_offset
           i == GetEntryIndex(sg_plist, o)
<1>1. o \in Nat /\ i # 0 /\ o + DESC <= Before(sg_plist, i) + sg_plist[i].len
  BY OffsetsAre DEF Placed
<1>2. sg_plist \in SgPlists
  <2>1. Len(<<>>) = 0 /\ 1..0 = {}
    OBVIOUS
  <2> QED
    BY <2>1 DEF SgInv, ListType, Empty
<1>3. sg_plist \in Physlists
  BY <1>2, Buffers
<1>4. Holds(sg_plist, i, o)
  BY <1>1, <1>3, IndexHolds
<1>5. DescOf(k) = sg_plist[i].addr + o - Before(sg_plist, i)
  BY <1>1, <1>3, <1>4, IndexIs DEF DescOf
<1> HIDE DEF i, o
<1>6. i \in 1..Len(sg_plist) /\ i \in 1..Len(sg_plist) + 1
  BY <1>3, <1>4, Offsets DEF Holds
<1>7. Before(sg_plist, i) \in Nat /\ sg_plist[i].addr \in Nat /\ sg_plist[i].len \in Nat
  BY <1>3, <1>6, Offsets
<1>8. Before(sg_plist, i) <= o
  BY <1>4 DEF Holds
<1>9. /\ DescOf(k) \in Nat /\ sg_plist[i].addr <= DescOf(k)
      /\ DescOf(k) + DESC <= sg_plist[i].addr + sg_plist[i].len
  <2> DEFINE ad == sg_plist[i].addr
             le == sg_plist[i].len
             b == Before(sg_plist, i)
  <2>1. /\ ad \in Nat /\ le \in Nat /\ b \in Nat /\ o \in Nat /\ DESC \in Nat
        /\ b <= o /\ o + DESC <= b + le
    BY <1>1, <1>7, <1>8, Positive
  <2>2. DescOf(k) = ad + o - b
    BY <1>5
  <2> HIDE DEF ad, le, b
  <2>3. ad + o - b \in Nat /\ ad <= ad + o - b /\ (ad + o - b) + DESC <= ad + le
    BY ONLY <2>1, InRun
  <2> QED
    BY <2>2, <2>3 DEF ad, le
<1> QED
  BY <1>1, <1>2, <1>3, <1>5, <1>6, <1>7, <1>8, <1>9 DEF o

(* Every entry has an address of its own for its descriptor. *)
LEMMA OneAddress ==
    ASSUME DisjointRuns, SgInv, PlacedInv,
           NEW j \in 1..Len(entries), NEW k \in 1..Len(entries), DescOf(j) = DescOf(k)
    PROVE  j = k
<1>0. DESC \in Nat \ {0}
  BY Positive
<1>1. ASSUME NEW a \in 1..Len(entries), NEW b \in 1..Len(entries), a < b
      PROVE  DescOf(a) # DescOf(b)
  <2> DEFINE p == sg_plist
             x == entries[a].sg_offset
             y == entries[b].sg_offset
  <2>1. PICK i \in 1..Len(p) :
              /\ p \in SgPlists
              /\ Before(p, i) <= x /\ x + DESC <= Before(p, i) + p[i].len
              /\ DescOf(a) = p[i].addr + x - Before(p, i)
              /\ Before(p, i) \in Nat /\ x \in Nat /\ p[i].addr \in Nat /\ p[i].len \in Nat
              /\ DescOf(a) \in Nat /\ p[i].addr <= DescOf(a)
              /\ DescOf(a) + DESC <= p[i].addr + p[i].len
    BY PlacedIn
  <2>2. PICK l \in 1..Len(p) :
              /\ p \in Physlists
              /\ Before(p, l) <= y /\ y + DESC <= Before(p, l) + p[l].len
              /\ DescOf(b) = p[l].addr + y - Before(p, l)
              /\ Before(p, l) \in Nat /\ y \in Nat /\ p[l].addr \in Nat /\ p[l].len \in Nat
              /\ DescOf(b) \in Nat /\ p[l].addr <= DescOf(b)
              /\ DescOf(b) + DESC <= p[l].addr + p[l].len
    BY PlacedIn
  <2>3. x + DESC <= y
    BY <1>1, Increasing
  <2> HIDE DEF x, y
  <2>4. CASE i = l
    <3>1. /\ DescOf(a) = p[i].addr + x - Before(p, i)
          /\ DescOf(b) = p[i].addr + y - Before(p, i)
          /\ p[i].addr \in Nat /\ Before(p, i) \in Nat /\ x \in Nat /\ y \in Nat
          /\ x < y
      BY <1>0, <2>1, <2>2, <2>3, <2>4
    <3> HIDE DEF p
    <3> QED
      BY ONLY <3>1
  <2>5. CASE i # l
    <3>1. i \in DOMAIN p /\ l \in DOMAIN p
      BY <2>2, Offsets
    <3>2. p[i].addr + p[i].len <= p[l].addr \/ p[l].addr + p[l].len <= p[i].addr
      BY <2>1, <2>5, <3>1 DEF DisjointRuns
    <3> HIDE DEF p
    <3> QED
      BY ONLY <1>0, <2>1, <2>2, <3>2, NotInBoth
  <2> QED
    BY <2>4, <2>5
<1>2. j \in Nat /\ k \in Nat
  BY OffsetsAre
<1> QED
  BY <1>1, <1>2

(* There are fewer entries than values of the interrupt threshold. *)
LEMMA FewEntries ==
    ASSUME FewDescriptors, SgInv, PlacedInv, entries # <<>>
    PROVE  Len(entries) < IRQ_FIELD
<1> DEFINE N == Len(entries)
           o(i) == entries[i].sg_offset
           S == {d \in Nat : d + 1 <= N => (d + 1) * DESC <= o(d + 1) + DESC}
<1>1. /\ N \in Nat /\ DESC \in Nat \ {0}
      /\ \A i \in 1..N : o(i) \in Nat /\ (i # 1 => o(i - 1) + DESC <= o(i))
  BY OffsetsAre, Positive
<1>2. N # 0
  BY DEF SgInv, ListType
<1>3. N \in 1..N
  BY <1>1, <1>2
<1>4. PICK i \in 1..Len(sg_plist) :
              /\ sg_plist \in SgPlists /\ sg_plist \in Physlists
              /\ i \in 1..Len(sg_plist) + 1
              /\ o(N) + DESC <= Before(sg_plist, i) + sg_plist[i].len
  BY <1>3, PlacedIn
<1> HIDE DEF N, o
<1>5. 0 \in S
  <2>1. (0 + 1) * DESC = DESC /\ 0 + 1 = 1
    BY <1>1
  <2>2. 1 <= N => o(1) \in Nat
    BY <1>1
  <2> QED
    BY <1>1, <2>1, <2>2
<1>6. ASSUME NEW d \in Nat, d \in S PROVE d + 1 \in S
  <2> SUFFICES ASSUME (d + 1) + 1 <= N
               PROVE  ((d + 1) + 1) * DESC <= o((d + 1) + 1) + DESC
    OBVIOUS
  <2> DEFINE m == d + 1
             l == m + 1
  <2>1. m \in 1..N /\ l \in 1..N /\ l # 1 /\ l - 1 = m /\ m * DESC <= o(m) + DESC
    BY <1>1, <1>6
  <2> HIDE DEF m
  <2>2. l * DESC = m * DESC + DESC /\ m * DESC \in Nat
    BY <1>1, <2>1
  <2> HIDE DEF l
  <2>3. o(m) \in Nat /\ o(l) \in Nat /\ o(m) + DESC <= o(l)
    BY <1>1, <2>1
  <2>4. l * DESC <= o(l) + DESC
    BY ONLY <1>1, <2>1, <2>2, <2>3
  <2> QED
    BY <2>4 DEF l, m
<1>7. Nat \subseteq S
  <2> HIDE DEF S
  <2> QED
    BY <1>5, <1>6, NatSetInduction
<1>8. N * DESC <= o(N) + DESC
  <2>1. N - 1 \in Nat /\ (N - 1) + 1 = N
    BY <1>1, <1>2
  <2>2. N - 1 \in S
    BY <1>7, <2>1
  <2> QED
    BY <1>1, <2>1, <2>2
<1>9. o(N) + DESC <= SizeOf(sg_plist) /\ SizeOf(sg_plist) \in Nat
  <2>1. /\ i + 1 \in 1..Len(sg_plist) + 1 /\ Len(sg_plist) + 1 \in 1..Len(sg_plist) + 1
        /\ i + 1 <= Len(sg_plist) + 1
    BY <1>4, Offsets
  <2>2. /\ Before(sg_plist, i + 1) = Before(sg_plist, i) + sg_plist[i].len
        /\ Before(sg_plist, i + 1) <= SizeOf(sg_plist)
        /\ Before(sg_plist, i + 1) \in Nat /\ SizeOf(sg_plist) \in Nat
    BY <1>4, <2>1, Offsets DEF SizeOf
  <2>3. o(N) \in Nat
    BY <1>1, <1>3
  <2> QED
    BY <1>1, <1>4, <2>2, <2>3
<1>10. SizeOf(sg_plist) < IRQ_FIELD * DESC
  BY <1>4 DEF FewDescriptors
<1>11. IRQ_FIELD \in Nat
  BY S2mmAssumption
<1>12. N * DESC < IRQ_FIELD * DESC
  <2>1. N * DESC \in Nat /\ IRQ_FIELD * DESC \in Nat /\ o(N) \in Nat
    BY <1>1, <1>3, <1>11
  <2> QED
    BY <1>1, <1>8, <1>9, <1>10, <2>1
<1>13. N < IRQ_FIELD
  BY ONLY <1>1, <1>11, <1>12, LessMultiple
<1> QED
  BY <1>13 DEF N

-----------------------------------------------------------------------------
(* Packets counted. *)

(* How many of the first k entries end a chunk. *)
Eofs(k) == Cardinality({i \in 1..k : entries[i].is_EOF})

LEMMA EofsType ==
    ASSUME NEW k \in Nat
    PROVE  IsFiniteSet({i \in 1..k : entries[i].is_EOF}) /\ Eofs(k) \in 0..k
<1>1. IsFiniteSet(1..k) /\ Cardinality(1..k) = k
  BY FS_Interval
<1>2. {i \in 1..k : entries[i].is_EOF} \subseteq 1..k
  OBVIOUS
<1>3. /\ IsFiniteSet({i \in 1..k : entries[i].is_EOF})
      /\ Cardinality({i \in 1..k : entries[i].is_EOF}) <= k
  BY <1>1, <1>2, FS_Subset
<1> QED
  BY <1>3, FS_CardinalityType DEF Eofs

LEMMA EofsStart == Eofs(0) = 0
<1>1. Eofs(0) \in 0..0
  BY EofsType
<1> QED
  BY <1>1

LEMMA EofsStep ==
    ASSUME NEW k \in Nat \ {0}
    PROVE  Eofs(k) = IF entries[k].is_EOF THEN Eofs(k - 1) + 1 ELSE Eofs(k - 1)
<1> DEFINE A == {i \in 1..k : entries[i].is_EOF}
           B == {i \in 1..k - 1 : entries[i].is_EOF}
<1>1. k - 1 \in Nat /\ k \notin B
  OBVIOUS
<1>2. A = IF entries[k].is_EOF THEN B \cup {k} ELSE B
  OBVIOUS
<1>3. IsFiniteSet(B)
  BY <1>1, EofsType
<1> HIDE DEF A, B
<1>4. Cardinality(B \cup {k}) = Cardinality(B) + 1
  BY <1>1, <1>3, FS_AddElement
<1>5. Cardinality(A) = IF entries[k].is_EOF THEN Cardinality(B) + 1 ELSE Cardinality(B)
  BY <1>2, <1>4
<1> QED
  BY <1>5 DEF Eofs, A, B

(* The last entry ends a chunk: before it, fewer chunks have ended. *)
LEMMA EofsLast ==
    ASSUME SgInv, entries # <<>>
    PROVE  /\ Len(entries) \in Nat \ {0} /\ entries[Len(entries)].is_EOF
           /\ \A k \in 0..Len(entries) - 1 : Eofs(k) < Eofs(Len(entries))
           /\ EofCount = Eofs(Len(entries))
<1>1. /\ Len(entries) \in Nat \ {0} /\ entries[Len(entries)].is_EOF
      /\ DOMAIN entries = 1..Len(entries)
  BY DEF SgInv, ListType, ListTiles, WellFramed
<1>2. ASSUME NEW k \in 0..Len(entries) - 1
      PROVE  Eofs(k) < Eofs(Len(entries))
  <2> DEFINE n == Len(entries)
             A == {i \in 1..k : entries[i].is_EOF}
             B == {i \in 1..n : entries[i].is_EOF}
  <2>1. n \in Nat /\ k \in Nat /\ k < n
    BY <1>1
  <2>2. n \in B /\ n \notin A /\ A \subseteq B
    BY <1>1
  <2>3. IsFiniteSet(B) /\ Eofs(n) \in Nat /\ Eofs(k) \in Nat
    <3>1. IsFiniteSet(B) /\ Eofs(n) \in 0..n
      BY <2>1, EofsType
    <3>2. Eofs(k) \in 0..k
      BY <2>1, EofsType
    <3> HIDE DEF n, B
    <3> QED
      BY <2>1, <3>1, <3>2
  <2>4. /\ Cardinality(A) <= Cardinality(B)
        /\ Cardinality(A) = Cardinality(B) => A = B
    BY <2>2, <2>3, FS_Subset
  <2> HIDE DEF n
  <2>5. Eofs(k) = Cardinality(A) /\ Eofs(n) = Cardinality(B)
    BY DEF Eofs
  <2> HIDE DEF A, B
  <2>6. Cardinality(A) # Cardinality(B)
    BY <2>2, <2>4
  <2>7. Eofs(k) < Eofs(n)
    BY <2>3, <2>4, <2>5, <2>6
  <2> QED
    BY <2>7 DEF n
<1>3. EofCount = Eofs(Len(entries))
  BY <1>1 DEF EofCount, Eofs
<1> QED
  BY <1>1, <1>2, <1>3

(* The threshold axidma_s2mm_transfer writes is the number of chunks. *)
LEMMA ThresholdIs ==
    ASSUME FewDescriptors, SgInv, PlacedInv, entries # <<>>
    PROVE  Threshold = Eofs(Len(entries))
<1>1. Len(entries) < IRQ_FIELD /\ Len(entries) \in Nat \ {0} /\ IRQ_FIELD \in Nat \ {0}
  BY FewEntries, EofsLast, S2mmAssumption
<1>2. Eofs(Len(entries)) \in 0..Len(entries)
  BY <1>1, EofsType
<1>3. Eofs(0) < Eofs(Len(entries)) /\ EofCount = Eofs(Len(entries))
  <2>1. 0 \in 0..Len(entries) - 1
    BY <1>1
  <2> QED
    BY <2>1, EofsLast
<1> DEFINE c == Eofs(Len(entries))
<1>4. c \in 0..IRQ_FIELD - 1 /\ c # 0 /\ EofCount = c
  BY <1>1, <1>2, <1>3, EofsStart
<1> HIDE DEF c
<1>5. c % IRQ_FIELD = c
  BY ONLY <1>1, <1>4, ModKeeps
<1>6. Threshold = c
  BY <1>4, <1>5 DEF Threshold
<1> QED
  BY <1>6 DEF c

-----------------------------------------------------------------------------
(* What a transfer has received, told descriptor by descriptor.            *)

(* The runs of a data buffer share no byte of physical memory. *)
DisjointData ==
    \A p \in DataPlists : \A i, j \in DOMAIN p :
        i # j => \/ p[i].addr + p[i].len <= p[j].addr
                 \/ p[j].addr + p[j].len <= p[i].addr

(* The DMA fills one descriptor after another: it does so by itself, or    *)
(* the stream ends its packets where the list ends its chunks.             *)
InOrder == OneEach \/ ~SofDma

(* The status word of an entry's descriptor. *)
Word(k) == mem[DescOf(k)].status

(* j descriptors are done in the transfer.  Packet p[k], after q[k] of its *)
(* bytes, is what the stream is at when the DMA comes to descriptor k.     *)
Ledgers == [1..Len(entries) + 1 -> Nat]

(* A descriptor is left with its entry's length in it, or at the end of a  *)
(* packet; in a list that was written for this transfer the others are as  *)
(* s2mm_write_sg_entry left them.                                          *)
WordsRead(j) ==
    /\ \A k \in 1..j : /\ Word(k).len \in 1..entries[k].len
                       /\ ~Word(k).eof => Word(k).len = entries[k].len
    /\ list # "reused" =>
         \A k \in j + 1..Len(entries) : ~Word(k).complete /\ Word(k).len = 0

Advances(j, p, q) ==
    /\ p[1] = 1
    /\ \A k \in 1..j : IF Word(k).eof
                       THEN p[k + 1] = p[k] + 1 /\ q[k + 1] = 0
                       ELSE p[k + 1] = p[k] /\ q[k + 1] = q[k] + Word(k).len

Accounted(j, p, q) ==
    /\ list # "written" => p[j + 1] = Len(ended) + 1 /\ q[j + 1] = dma.byte
    /\ \A k \in 1..j : Word(k).eof => /\ p[k] \in 1..Len(ended)
                                      /\ ended[p[k]] = q[k] + Word(k).len

(* The bytes are where the entries say. *)
Filled(j, p, q) ==
    \A k \in 1..j : \A x \in 0..Word(k).len - 1 :
        /\ entries[k].buf_phys + x \in DOMAIN dram
        /\ DisjointData => dram[entries[k].buf_phys + x] = <<p[k], q[k] + x>>

EngineAt(j) ==
    /\ list = "written" => j = 0 /\ dma.state # "busy"
    /\ dma.state = "busy" => /\ j < Len(entries) /\ dma.cur = DescOf(j + 1)
                             /\ dma.tail = DescOf(Len(entries))
    /\ list # "written" /\ dma.state \notin {"busy", "halted"} => j = Len(entries)

Received(j, p, q) ==
    /\ WordsRead(j) /\ Advances(j, p, q) /\ Accounted(j, p, q)
    /\ Filled(j, p, q) /\ EngineAt(j)

-----------------------------------------------------------------------------
(* What the program has taken of it. *)

(* A packet that the list was too short for counts when it is taken. *)
Taken(j, p, q) ==
    LET n == Len(entries) IN
    /\ run.taken = 0 => to_vist = 1
    /\ ~run.broken =>
         IF to_vist \in 1..n
         THEN /\ to_vist - 1 <= j /\ run.taken = p[to_vist] - 1
              /\ to_vist > 1 => Word(to_vist - 1).eof
         ELSE /\ j = n
              /\ run.taken = p[n + 1] - 1 + (IF q[n + 1] = 0 THEN 0 ELSE 1)

(* The descriptors judged so far are done, the packet is the one that      *)
(* to_vist began with, and the length is that of the entries passed.       *)
Judged(j, p, q) ==
    LET e == deq.e
        v == to_vist
        sum == entries[e].data_offset - deq.base +
                 (IF pc = "len" THEN 0 ELSE Word(e).len)
    IN /\ IF pc \in {"len", "complete"} THEN e = v \/ e - 1 <= j ELSE e <= j
       /\ \A k \in v..e - 1 : ~Word(k).eof
       /\ pc = "return" => Word(e).eof \/ e = Len(entries)
       /\ \A k \in v..e : /\ p[k] = p[v]
                          /\ q[k] = q[v] + entries[k].data_offset - deq.base
       /\ deq.len <= sum
       /\ deq.quiet => deq.len = sum

Places == {"len", "complete", "eof", "return"}

AtPlace(j, p, q) ==
    pc \in Places =>
        /\ deq.e \in 1..Len(entries) /\ to_vist \in 1..deq.e
        /\ pc = "eof" => deq.e # Len(entries)
        /\ deq.base = entries[to_vist].data_offset
        /\ deq.quiet => dma.state # "busy"
        /\ deq.code = "TRANSFER_SUCCESS" /\ ~StaleStatus(deq) => Judged(j, p, q)

Ledger(j, p, q) == Received(j, p, q) /\ Taken(j, p, q) /\ AtPlace(j, p, q)

(* The buffer returned is as the properties have it, while it is looked at. *)
Got ==
    pc = "got" =>
        /\ buf.code = "TRANSFER_SUCCESS" /\ buf.quiet => dma.state # "busy"
        /\ buf.code = "END_OF_LIST" => to_vist = NULL
        /\ FreshSuccess
        /\ DisjointData => DequeuedIsNthPacket

StreamType ==
    /\ dma.byte \in Nat /\ ~dma.skip /\ ended \in Seq(Nat)
    /\ deq \in [e : Int, base : Int, len : Nat,
                code : {"TRANSFER_SUCCESS", "TRANSFER_FAILED"}, quiet : BOOLEAN]
    /\ run \in [transfers : Nat, taken : Nat, broken : BOOLEAN]

StreamInv ==
    /\ StreamType /\ Got
    /\ pc \in Places \cup {"got"} => list # "new"
    /\ list # "new" =>
         \E j \in 0..Len(entries) : \E p, q \in Ledgers : Ledger(j, p, q)
DequeueInv == S2mmInv /\ PlacedInv /\ StreamInv

(* What the ledger is read against. *)
LEMMA OwnDescriptor ==
    ASSUME DisjointRuns, SgInv, PlacedInv, MemInv, list # "new",
           NEW k \in 1..Len(entries)
    PROVE  /\ DescOf(k) \in DOMAIN mem /\ mem[DescOf(k)] \in Desc
           /\ IsFor(mem[DescOf(k)], k, Len(entries))
           /\ Word(k) \in StatusWord
<1>1. Described(Len(entries))
  BY DEF MemInv, ListWritten
<1>2. PICK j \in 1..Len(entries) :
         DescOf(j) = DescOf(k) /\ IsFor(mem[DescOf(k)], j, Len(entries))
  BY <1>1 DEF Described
<1>3. j = k
  BY <1>2, OneAddress
<1>4. DescOf(k) \in DOMAIN mem
  BY <1>1 DEF Described
<1>5. mem[DescOf(k)] \in Desc
  BY <1>4 DEF MemInv, MemType
<1> QED
  BY <1>2, <1>3, <1>4, <1>5 DEF Word, Desc

LEMMA EntriesAre ==
    ASSUME SgInv, MemInv, list # "new"
    PROVE  /\ Len(entries) \in Nat \ {0} /\ DOMAIN entries = 1..Len(entries)
           /\ pc \notin {"none", "add"}
           /\ data_plist \in DataPlists /\ data_plist \in Physlists
           /\ entries[1].data_offset = 0
           /\ \A k \in 1..Len(entries) :
                /\ entries[k].data_offset \in Nat /\ entries[k].len \in Nat
                /\ entries[k].buf_phys \in Nat
                /\ k # 1 => entries[k].data_offset =
                              entries[k - 1].data_offset + entries[k - 1].len
<1>1. /\ entries \in Seq(Entry) /\ entries # <<>> /\ pc \notin {"none", "add"}
      /\ data_plist \in DataPlists /\ Follow(entries, 0, offsets.data)
  BY DEF MemInv, ListWritten, SgInv, ListType, ListTiles
<1>2. Len(entries) \in Nat \ {0} /\ DOMAIN entries = 1..Len(entries)
  BY <1>1
<1>3. ASSUME NEW k \in 1..Len(entries)
      PROVE  /\ entries[k].data_offset \in Nat /\ entries[k].len \in Nat
             /\ entries[k].buf_phys \in Nat
  <2>1. entries[k] \in Entry
    BY <1>1, ElementType
  <2> QED
    BY <2>1 DEF Entry
<1>4. entries[1].data_offset = 0
  BY <1>1 DEF Follow
<1>5. \A k \in 1..Len(entries) : k # 1 => k \in 2..Len(entries)
  BY <1>2
<1> QED
  BY <1>1, <1>2, <1>3, <1>4, <1>5, Buffers DEF Follow

(* Descriptors keep all of their status that the ledger reads. *)
SameWords ==
    \A k \in 1..Len(entries) :
        /\ Word(k)'.len = Word(k).len /\ Word(k)'.eof = Word(k).eof
        /\ Word(k)'.complete = Word(k).complete

LEMMA ReceivedStays ==
    ASSUME SameWords, UNCHANGED <<entries, sg_plist, dram, ended, list>>,
           Len(entries) \in Nat,
           NEW j \in 0..Len(entries), NEW p, NEW q, Received(j, p, q),
           dma'.byte = dma.byte, EngineAt(j)'
    PROVE  Received(j, p, q)'
<1> USE DEF Received
<1>1. \A k \in 1..j : k \in 1..Len(entries)
  OBVIOUS
<1>2. \A k \in j + 1..Len(entries) : k \in 1..Len(entries)
  OBVIOUS
<1>3. WordsRead(j)'
  BY <1>1, <1>2 DEF WordsRead, SameWords
<1>4. Advances(j, p, q)'
  BY <1>1 DEF Advances, SameWords
<1>5. Accounted(j, p, q)'
  BY <1>1 DEF Accounted, SameWords
<1>6. Filled(j, p, q)'
  <2> SUFFICES ASSUME NEW k \in 1..j, NEW x \in 0..(Word(k)'.len - 1)
               PROVE  /\ entries[k].buf_phys + x \in DOMAIN dram
                      /\ DisjointData => dram[entries[k].buf_phys + x] = <<p[k], q[k] + x>>
    BY DEF Filled, DisjointData
  <2>1. x \in 0..Word(k).len - 1
    BY <1>1 DEF SameWords
  <2> QED
    BY <2>1 DEF Filled
<1> QED
  BY <1>3, <1>4, <1>5, <1>6

(* A program that is not moved on by a step of the DMA. *)
LEMMA ProgramStays ==
    ASSUME SameWords, UNCHANGED <<entries, to_vist, run, pc, deq, list>>,
           dma'.state = "busy" => dma.state = "busy",
           dma.state = "halted" => dma'.state = "halted", dma'.sof = dma.sof,
           Len(entries) \in Nat,
           NEW j \in 0..Len(entries), NEW p, NEW q, Taken(j, p, q), AtPlace(j, p, q)
    PROVE  Taken(j, p, q)' /\ AtPlace(j, p, q)'
<1>1. Taken(j, p, q)'
  <2>1. to_vist \in 1..Len(entries) /\ to_vist > 1 => to_vist - 1 \in 1..Len(entries)
    OBVIOUS
  <2> QED
    BY <2>1 DEF Taken, SameWords
<1>2. ASSUME pc \in Places, deq.e \in 1..Len(entries), to_vist \in 1..deq.e, Judged(j, p, q)
      PROVE  Judged(j, p, q)'
  <2>1. \A k \in to_vist..deq.e - 1 : k \in 1..Len(entries)
    BY <1>2
  <2> QED
    BY <1>2, <2>1 DEF Judged, SameWords
<1>3. ~StaleStatus(deq)' => ~StaleStatus(deq)
  BY DEF StaleStatus
<1> QED
  BY <1>1, <1>2, <1>3 DEF AtPlace

LEMMA S2mmPlaced ==
    ASSUME NoWrap, SgInv, PlacedInv, MemInv, [S2mmNext]_svars
    PROVE  PlacedInv'
<1>1. CASE Build \/ Extend
  <2>1. Next
    BY <1>1 DEF Build, Extend, Next
  <2> QED
    BY <2>1, PlacedNext
<1>2. CASE Delete
  <2>1. Next
    BY <1>2 DEF Delete, Next
  <2> QED
    BY <2>1, PlacedNext
<1>3. CASE WriteSgList
  <2>1. UNCHANGED <<sg_plist, entries, offsets, add>> /\ pc' = "idle"
    BY <1>3 DEF WriteSgList, listVars
  <2> QED
    BY <2>1, PlacedKeeps
<1>4. CASE Looking
  BY <1>4, LookingIs, PlacedKeeps DEF listVars
<1>5. CASE Engine
  BY <1>5, EngineKeeps, PlacedKeeps DEF listVars, progVars
<1>6. CASE UNCHANGED svars
  BY <1>6, PlacedKeeps DEF svars, listVars, progVars
<1> QED
  BY <1>1, <1>2, <1>3, <1>4, <1>5, <1>6 DEF S2mmNext, Looking, Engine

-----------------------------------------------------------------------------
(* Types. *)

LEMMA StreamTypeSame ==
    ASSUME StreamType, UNCHANGED <<deq, run, ended>>,
           dma'.byte = dma.byte, dma'.skip = dma.skip
    PROVE  StreamType'
BY DEF StreamType

LEMMA NothingSkipped ==
    ASSUME InOrder, MemInv, NEW n, NEW eof \in BOOLEAN, Receive(n, eof)
    PROVE  /\ ~dma'.skip
           /\ dma'.state = IF dma.cur = dma.tail THEN "idle" ELSE "busy"
<1> DEFINE d == mem[dma.cur]
<1>1. ~EndsEarly(d, eof) /\ ~Freezes(d, eof)
  <2>1. dma.sof \in {FALSE, SofDma}
    BY DEF MemInv, MemType
  <2> QED
    BY <2>1 DEF InOrder, EndsEarly, Freezes, Receive
<1> QED
  BY <1>1 DEF Receive, MemInv, MemType

LEMMA DmaType ==
    ASSUME InOrder, StreamType, SgInv, MemInv, InList, Dma
    PROVE  StreamType'
<1>1. PICK n \in 1..mem[dma.cur].len, eof \in BOOLEAN : Receive(n, eof)
  BY DEF Dma
<1>2. dma.cur \in DOMAIN mem
  BY <1>1, NextDescriptor DEF Receive
<1>3. mem[dma.cur] \in Desc
  BY <1>2 DEF MemInv, MemType
<1>4. n \in Nat
  BY <1>3 DEF Desc
<1>5. /\ UNCHANGED <<deq, run>>
      /\ ended' = IF eof THEN Append(ended, dma.byte + n) ELSE ended
      /\ dma'.byte = IF eof THEN 0 ELSE dma.byte + n
  BY <1>1 DEF Receive, progVars, MemInv, MemType
<1>6. dma.byte + n \in Nat
  BY <1>4 DEF StreamType
<1>7. ended' \in Seq(Nat) /\ dma'.byte \in Nat
  BY <1>5, <1>6 DEF StreamType
<1> QED
  BY <1>1, <1>5, <1>7, NothingSkipped DEF StreamType

LEMMA TransferType ==
    ASSUME StreamType, MemInv, NEW w, NEW t, Transfer(w, t)
    PROVE  StreamType'
<1>1. /\ ended' = <<>> /\ deq' = deq
      /\ run' = [run EXCEPT !.transfers = @ + 1, !.broken = @ \/ run.taken # 0]
  BY DEF Transfer
<1>2. dma'.byte = dma.byte /\ (~dma.skip => ~dma'.skip)
  BY DEF Transfer, MemInv, MemType
<1>3. run' \in [transfers : Nat, taken : Nat, broken : BOOLEAN]
  <2>1. run.transfers + 1 \in Nat /\ (run.broken \/ run.taken # 0) \in BOOLEAN
    BY DEF StreamType
  <2> QED
    BY <1>1, <2>1 DEF StreamType
<1> QED
  BY <1>1, <1>2, <1>3 DEF StreamType

LEMMA RunReset ==
    ASSUME StreamType, UNCHANGED <<deq, ended, dma>>,
           run' = [run EXCEPT !.taken = 0, !.broken = FALSE]
    PROVE  StreamType' /\ run'.taken = 0 /\ run'.broken = FALSE
BY DEF StreamType

(* The bytes read are those of the descriptors judged. *)
LEMMA DequeueingType ==
    ASSUME DisjointRuns, SgInv, PlacedInv, MemInv, StreamType,
           list # "new", pc \in Places => deq.e \in 1..Len(entries),
           Dequeuing
    PROVE  StreamType'
<1>1. UNCHANGED <<ended, dma>>
  BY DEF Dequeuing, DequeueEnd, Dequeue, ReadLen, ReadComplete, ReadEof,
         DequeueReturns, DequeueUnchanged, dmaVars
<1>2. CASE DequeueEnd
  BY <1>1, <1>2 DEF DequeueEnd, StreamType
<1>3. CASE Dequeue
  <2>1. entries[to_vist].data_offset \in Int /\ to_vist \in Int
    BY <1>3, EntriesAre DEF Dequeue
  <2> QED
    BY <1>1, <1>3, <2>1 DEF Dequeue, StreamType, NoDeq
<1>4. CASE ReadLen
  <2>1. Word(deq.e) \in StatusWord
    BY <1>4, OwnDescriptor DEF ReadLen, Places
  <2>2. Status.len \in Nat
    BY <2>1 DEF Status, Word, StatusWord
  <2>3. deq' = [deq EXCEPT !.len = deq.len + Status.len] /\ run' = run
    BY <1>4 DEF ReadLen
  <2>4. deq.len + Status.len \in Nat
    BY <2>2 DEF StreamType
  <2> HIDE DEF Status
  <2> QED
    BY <1>1, <2>3, <2>4 DEF StreamType
<1>5. CASE ReadComplete
  BY <1>1, <1>5 DEF ReadComplete, StreamType
<1>6. CASE ReadEof
  <2>1. run' = run /\ (deq' = deq \/ deq' = [deq EXCEPT !.e = deq.e + 1])
    BY <1>6 DEF ReadEof
  <2>2. deq.e + 1 \in Int
    BY DEF StreamType
  <2> QED
    BY <1>1, <2>1, <2>2 DEF StreamType
<1>7. CASE DequeueReturns
  <2>1. /\ deq' = NoDeq
        /\ run' = [run EXCEPT !.taken = run.taken + 1,
                     !.broken = \/ run.broken \/ deq.code = "TRANSFER_FAILED"
                                \/ StaleStatus(deq)]
    BY <1>7 DEF DequeueReturns
  <2>2. /\ run.taken + 1 \in Nat
        /\ (run.broken \/ deq.code = "TRANSFER_FAILED" \/ StaleStatus(deq)) \in BOOLEAN
    BY DEF StreamType
  <2>3. NoDeq \in [e : Int, base : Int, len : Nat,
                   code : {"TRANSFER_SUCCESS", "TRANSFER_FAILED"}, quiet : BOOLEAN]
    BY DEF NoDeq, NULL
  <2> QED
    BY <1>1, <2>1, <2>2, <2>3 DEF StreamType
<1> QED
  BY <1>2, <1>3, <1>4, <1>5, <1>6, <1>7 DEF Dequeuing

-----------------------------------------------------------------------------
(* The program dequeues. *)

(* The ledger, with what it is read against. *)
Kept(j, p, q) ==
    /\ SgInv /\ PlacedInv /\ MemInv /\ StreamType /\ list # "new"
    /\ j \in 0..Len(entries) /\ p \in Ledgers /\ q \in Ledgers
    /\ Ledger(j, p, q)

LEMMA MemoryStays ==
    ASSUME SgInv, MemInv, list # "new",
           UNCHANGED <<entries, sg_plist, mem, dram, ended, list, dma>>,
           NEW j \in 0..Len(entries), NEW p, NEW q, Received(j, p, q)
    PROVE  Received(j, p, q)' /\ SameWords
<1>1. Len(entries) \in Nat /\ \A k : DescOf(k)' = DescOf(k)
  BY EntriesAre DEF DescOf
<1>2. SameWords
  BY <1>1 DEF SameWords, Word
<1>3. EngineAt(j)'
  BY <1>1 DEF Received, EngineAt
<1> QED
  BY <1>1, <1>2, <1>3, ReceivedStays

LEMMA LedgerTypes ==
    ASSUME NEW j, NEW p, NEW q, Kept(j, p, q)
    PROVE  /\ Len(entries) \in Nat \ {0} /\ j \in Nat /\ j <= Len(entries)
           /\ \A k \in 1..Len(entries) + 1 : p[k] \in Nat /\ q[k] \in Nat
           /\ \A k \in 1..Len(entries) :
                /\ entries[k].data_offset \in Nat /\ entries[k].len \in Nat
                /\ entries[k].buf_phys \in Nat
                /\ k # 1 => entries[k].data_offset =
                              entries[k - 1].data_offset + entries[k - 1].len
           /\ entries[1].data_offset = 0
<1>1. Len(entries) \in Nat \ {0}
  BY EntriesAre DEF Kept
<1> QED
  BY <1>1, EntriesAre DEF Kept, Ledgers

LEMMA WordTypes ==
    ASSUME DisjointRuns, NEW j, NEW p, NEW q, Kept(j, p, q), NEW k \in 1..Len(entries)
    PROVE  /\ Word(k).len \in Nat /\ Word(k).eof \in BOOLEAN
           /\ Word(k).complete \in BOOLEAN
<1>1. Word(k) \in StatusWord
  BY OwnDescriptor DEF Kept
<1> QED
  BY <1>1 DEF StatusWord

LEMMA EndStep ==
    ASSUME NEW j, NEW p, NEW q, Kept(j, p, q), DequeueEnd
    PROVE  Taken(j, p, q)' /\ AtPlace(j, p, q)' /\ Got'
<1>1. /\ to_vist \in {NULL, SENTINEL} /\ to_vist' = NULL /\ pc' = "got"
      /\ buf' = EndOfList /\ UNCHANGED <<run, entries, mem, sg_plist>>
  BY DEF DequeueEnd, DequeueUnchanged, listVars
<1>2. NULL \notin 1..Len(entries) /\ SENTINEL \notin 1..Len(entries)
      /\ NULL # 1 /\ SENTINEL # 1
  BY LedgerTypes DEF NULL, SENTINEL
<1>3. Taken(j, p, q)
  BY DEF Kept, Ledger
<1>4. Taken(j, p, q)'
  BY <1>1, <1>2, <1>3 DEF Taken
<1>5. buf'.code = "END_OF_LIST"
  BY <1>1 DEF EndOfList, NoBuf
<1>6. Got'
  BY <1>1, <1>5 DEF Got, FreshSuccess, DequeuedIsNthPacket
<1>7. AtPlace(j, p, q)'
  BY <1>1 DEF AtPlace, Places
<1> QED
  BY <1>4, <1>6, <1>7

LEMMA StartStep ==
    ASSUME NEW j, NEW p, NEW q, Kept(j, p, q), Dequeue
    PROVE  Taken(j, p, q)' /\ AtPlace(j, p, q)' /\ Got'
<1> DEFINE v == to_vist
<1>1. /\ v \in DOMAIN entries /\ pc' = "len"
      /\ deq' = [NoDeq EXCEPT !.e = v, !.base = entries[v].data_offset,
                              !.quiet = dma.state # "busy"]
      /\ UNCHANGED <<to_vist, run, entries, mem, sg_plist, dma>>
  BY DEF Dequeue, DequeueUnchanged, listVars, dmaVars
<1>2. /\ deq'.e = v /\ deq'.base = entries[v].data_offset /\ deq'.len = 0
      /\ deq'.quiet = (dma.state # "busy")
  BY <1>1 DEF NoDeq
<1>3. v \in 1..Len(entries) /\ Len(entries) \in Nat
  BY <1>1, EntriesAre DEF Kept
<1>4. Taken(j, p, q)'
  <2>1. Taken(j, p, q) /\ \A k : Word(k)' = Word(k)
    BY <1>1 DEF Kept, Ledger, Word, DescOf
  <2> QED
    BY <1>1, <2>1 DEF Taken
<1>5. Judged(j, p, q)'
  <2>1. v \in 1..Len(entries) + 1 /\ v..v - 1 = {} /\ v..v = {v}
    BY <1>3
  <2>2. q[v] \in Nat /\ entries[v].data_offset \in Nat
    BY <1>3, <2>1, LedgerTypes
  <2>3. q[v] = q[v] + entries[v].data_offset - entries[v].data_offset
    BY <2>2
  <2> QED
    BY <1>1, <1>2, <2>1, <2>2, <2>3 DEF Judged
<1>6. AtPlace(j, p, q)'
  <2>1. v \in 1..v
    BY <1>3
  <2> QED
    BY <1>1, <1>2, <1>3, <1>5, <2>1 DEF AtPlace, Places
<1>7. Got'
  BY <1>1 DEF Got
<1> QED
  BY <1>4, <1>6, <1>7

(* Reads of a status word. *)
LEMMA TakenStays ==
    ASSUME NEW j, NEW p, NEW q, Kept(j, p, q),
           UNCHANGED <<to_vist, run, entries, mem, sg_plist>>
    PROVE  Taken(j, p, q)'
<1>1. Taken(j, p, q) /\ \A k : Word(k)' = Word(k)
  BY DEF Kept, Ledger, Word, DescOf
<1> QED
  BY <1>1 DEF Taken

LEMMA LenStep ==
    ASSUME DisjointRuns, NEW j, NEW p, NEW q, Kept(j, p, q), ReadLen
    PROVE  Taken(j, p, q)' /\ AtPlace(j, p, q)' /\ Got'
<1>1. /\ pc = "len" /\ pc' = "complete"
      /\ deq' = [deq EXCEPT !.len = deq.len + Word(deq.e).len]
      /\ UNCHANGED <<to_vist, run, entries, mem, sg_plist, dma, list>>
  BY DEF ReadLen, DequeueUnchanged, listVars, dmaVars, Status, Word
<1>2. /\ deq'.e = deq.e /\ deq'.base = deq.base /\ deq'.len = deq.len + Word(deq.e).len
      /\ deq'.quiet = deq.quiet /\ deq'.code = deq.code
      /\ deq.len \in Nat /\ deq.base \in Int
  BY <1>1 DEF Kept, StreamType
<1>3. AtPlace(j, p, q) /\ \A k : Word(k)' = Word(k)
  BY <1>1 DEF Kept, Ledger, Word, DescOf
<1>4. deq.e \in 1..Len(entries) /\ to_vist \in 1..deq.e
  BY <1>1, <1>3 DEF AtPlace, Places
<1>5. ASSUME Judged(j, p, q) PROVE Judged(j, p, q)'
  <2> DEFINE l == Word(deq.e).len
             s == entries[deq.e].data_offset - deq.base
  <2>1. l \in Nat /\ s \in Int
    BY <1>2, <1>4, WordTypes, LedgerTypes
  <2>2. deq.len <= s + 0 /\ (deq.quiet => deq.len = s + 0)
    BY <1>1, <1>5 DEF Judged
  <2>3. deq.len + l <= s + l /\ (deq.quiet => deq.len + l = s + l)
    <3> HIDE DEF l, s
    <3> QED
      BY <1>2, <2>1, <2>2
  <2> QED
    BY <1>1, <1>2, <1>3, <1>5, <2>3 DEF Judged
<1>6. ~StaleStatus(deq)' => ~StaleStatus(deq)
  BY <1>1, <1>2 DEF StaleStatus
<1>7. AtPlace(j, p, q)'
  BY <1>1, <1>2, <1>3, <1>4, <1>5, <1>6 DEF AtPlace, Places
<1> QED
  BY <1>1, <1>7, TakenStays DEF Got

(* A descriptor that is seen complete, and may be trusted, is done. *)
LEMMA CompleteIsDone ==
    ASSUME DisjointRuns, NEW j, NEW p, NEW q, Kept(j, p, q),
           NEW k \in 1..Len(entries), Word(k).complete,
           deq.quiet => dma.state # "busy", ~StaleStatus(deq)
    PROVE  k <= j
<1>1. Len(entries) \in Nat /\ j \in Nat
  BY LedgerTypes
<1>2. WordsRead(j) /\ EngineAt(j)
  BY DEF Kept, Ledger, Received
<1>3. CASE list # "reused"
  <2>1. k \notin j + 1..Len(entries)
    BY <1>2, <1>3 DEF WordsRead
  <2> QED
    BY <1>1, <2>1
<1>4. CASE list = "reused"
  <2>1. j = Len(entries)
    BY <1>2, <1>4 DEF EngineAt, StaleStatus
  <2> QED
    BY <1>1, <2>1
<1> QED
  BY <1>3, <1>4

LEMMA CompleteStep ==
    ASSUME DisjointRuns, NEW j, NEW p, NEW q, Kept(j, p, q), ReadComplete
    PROVE  Taken(j, p, q)' /\ AtPlace(j, p, q)' /\ Got'
<1>1. /\ pc = "complete" /\ pc' = IF deq.e = Len(entries) THEN "return" ELSE "eof"
      /\ deq' = IF ~Word(deq.e).complete \/ Word(deq.e).err
                THEN [deq EXCEPT !.code = "TRANSFER_FAILED"] ELSE deq
      /\ UNCHANGED <<to_vist, run, entries, mem, sg_plist, dma, list>>
  BY DEF ReadComplete, DequeueUnchanged, listVars, dmaVars, Status, Word
<1>2. /\ deq'.e = deq.e /\ deq'.base = deq.base /\ deq'.len = deq.len
      /\ deq'.quiet = deq.quiet
      /\ deq'.code = "TRANSFER_SUCCESS" =>
           deq.code = "TRANSFER_SUCCESS" /\ Word(deq.e).complete
  BY <1>1 DEF Kept, StreamType
<1>3. AtPlace(j, p, q) /\ \A k : Word(k)' = Word(k)
  BY <1>1 DEF Kept, Ledger, Word, DescOf
<1>4. /\ deq.e \in 1..Len(entries) /\ to_vist \in 1..deq.e
      /\ deq.quiet => dma.state # "busy"
  BY <1>1, <1>3 DEF AtPlace, Places
<1>5. ASSUME Judged(j, p, q), deq.e <= j PROVE Judged(j, p, q)'
  BY <1>1, <1>2, <1>3, <1>5 DEF Judged
<1>6. ~StaleStatus(deq)' => ~StaleStatus(deq)
  BY <1>1, <1>2 DEF StaleStatus
<1>7. deq'.code = "TRANSFER_SUCCESS" /\ ~StaleStatus(deq)' => deq.e <= j
  BY <1>2, <1>4, <1>6, CompleteIsDone
<1>8. AtPlace(j, p, q)'
  BY <1>1, <1>2, <1>3, <1>4, <1>5, <1>6, <1>7 DEF AtPlace, Places
<1> QED
  BY <1>1, <1>8, TakenStays DEF Got

LEMMA EofStep ==
    ASSUME DisjointRuns, NEW j, NEW p, NEW q, Kept(j, p, q), ReadEof
    PROVE  Taken(j, p, q)' /\ AtPlace(j, p, q)' /\ Got'
<1> DEFINE e == deq.e
           v == to_vist
<1>1. /\ pc = "eof"
      /\ IF Word(e).eof THEN pc' = "return" /\ UNCHANGED deq
                        ELSE pc' = "len" /\ deq' = [deq EXCEPT !.e = e + 1]
      /\ UNCHANGED <<to_vist, run, entries, mem, sg_plist, dma, list>>
  BY DEF ReadEof, DequeueUnchanged, listVars, dmaVars, Status, Word
<1>2. AtPlace(j, p, q) /\ \A k : Word(k)' = Word(k)
  BY <1>1 DEF Kept, Ledger, Word, DescOf
<1>3. /\ e \in 1..Len(entries) /\ v \in 1..e /\ e # Len(entries)
      /\ deq.base = entries[v].data_offset
      /\ deq.quiet => dma.state # "busy"
  BY <1>1, <1>2 DEF AtPlace, Places
<1>4. CASE Word(e).eof
  <2>1. Judged(j, p, q) => Judged(j, p, q)'
    BY <1>1, <1>2, <1>4 DEF Judged
  <2>2. ~StaleStatus(deq)' => ~StaleStatus(deq)
    BY <1>1, <1>4 DEF StaleStatus
  <2>3. AtPlace(j, p, q)'
    BY <1>1, <1>2, <1>4, <2>1, <2>2 DEF AtPlace, Places
  <2> QED
    BY <1>1, <1>4, <2>3, TakenStays DEF Got
<1>5. CASE ~Word(e).eof
  <2>1. /\ deq'.e = e + 1 /\ deq'.base = deq.base /\ deq'.len = deq.len
        /\ deq'.quiet = deq.quiet /\ deq'.code = deq.code /\ pc' = "len"
        /\ deq.len \in Nat /\ deq.base \in Int
    BY <1>1, <1>5 DEF Kept, StreamType
  <2>2. /\ e + 1 \in 1..Len(entries) /\ v \in 1..e + 1 /\ e \in Nat /\ v \in Nat
        /\ e + 1 # 1 /\ (e + 1) - 1 = e /\ e \in v..e
        /\ e \in 1..Len(entries) + 1 /\ e + 1 \in 1..Len(entries) + 1
    BY <1>3, LedgerTypes
  <2>3. ASSUME Judged(j, p, q) PROVE Judged(j, p, q)'
    <3>1. /\ e <= j /\ \A k \in v..e - 1 : ~Word(k).eof
          /\ \A k \in v..e : p[k] = p[v] /\ q[k] = q[v] + entries[k].data_offset - deq.base
          /\ deq.len <= entries[e].data_offset - deq.base + Word(e).len
          /\ deq.quiet => deq.len = entries[e].data_offset - deq.base + Word(e).len
      BY <1>1, <2>3 DEF Judged
    <3>2. e \in 1..j
      BY <1>3, <2>2, <3>1, LedgerTypes
    <3>3. /\ p[e + 1] = p[e] /\ q[e + 1] = q[e] + Word(e).len
          /\ Word(e).len = entries[e].len
      BY <1>5, <3>2 DEF Kept, Ledger, Received, Advances, WordsRead
    <3>4. entries[e + 1].data_offset = entries[e].data_offset + entries[e].len
      BY <2>2, LedgerTypes
    <3>5. /\ entries[e].data_offset \in Nat /\ entries[e].len \in Nat
          /\ q[e] \in Nat /\ q[v] \in Nat
      <4>1. v \in 1..Len(entries) + 1
        BY <1>3, <2>2
      <4> QED
        BY <1>3, <2>2, <4>1, LedgerTypes
    <3>6. \A k \in v..(e + 1) - 1 : ~Word(k).eof
      <4>1. \A k \in v..(e + 1) - 1 : k \in v..e - 1 \/ k = e
        BY <2>2
      <4> QED
        BY <1>5, <3>1, <4>1
    <3>7. p[e + 1] = p[v] /\ q[e + 1] = q[v] + entries[e + 1].data_offset - deq.base
      <4>1. p[e] = p[v] /\ q[e] = q[v] + entries[e].data_offset - deq.base
        BY <2>2, <3>1
      <4> HIDE DEF e, v
      <4> QED
        BY <2>1, <3>3, <3>4, <3>5, <4>1
    <3>8. \A k \in v..e + 1 : p[k] = p[v] /\ q[k] = q[v] + entries[k].data_offset - deq.base
      <4>1. \A k \in v..e + 1 : k \in v..e \/ k = e + 1
        BY <2>2
      <4> QED
        BY <3>1, <3>7, <4>1
    <3>9. /\ deq.len <= entries[e + 1].data_offset - deq.base + 0
          /\ deq.quiet => deq.len = entries[e + 1].data_offset - deq.base + 0
      <4> HIDE DEF e
      <4> QED
        BY <2>1, <3>1, <3>3, <3>4, <3>5
    <3> QED
      BY <1>1, <1>2, <2>1, <2>2, <3>1, <3>6, <3>8, <3>9 DEF Judged
  <2>4. ~StaleStatus(deq)' => ~StaleStatus(deq)
    BY <1>1, <2>1 DEF StaleStatus
  <2>5. AtPlace(j, p, q)'
    BY <1>1, <1>2, <1>3, <2>1, <2>2, <2>3, <2>4 DEF AtPlace, Places
  <2> QED
    BY <1>1, <2>1, <2>5, TakenStays DEF Got
<1> QED
  BY <1>4, <1>5

-----------------------------------------------------------------------------
(* Bytes of the entries. *)

LEMMA ByteHeld ==
    ASSUME SgInv, MemInv, list # "new", NEW k \in 1..Len(entries),
           NEW x \in 0..entries[k].len - 1
    PROVE  LET o == entries[k].data_offset + x IN
           /\ o \in Nat /\ entries[k].buf_phys + x = VirtToPhys(data_plist, o)
           /\ \E i \in 1..Len(data_plist) : Holds(data_plist, i, o)
<1>1. /\ data_plist \in Physlists /\ k \in DOMAIN entries
      /\ entries[k].data_offset \in Nat /\ entries[k].len \in Nat
  BY EntriesAre
<1>2. InOneRun(entries[k])
  BY DEF SgInv, ListTiles
<1>3. PICK i \in 1..Len(data_plist) :
         /\ Before(data_plist, i) <= entries[k].data_offset
         /\ entries[k].data_offset + entries[k].len <= Before(data_plist, i + 1)
  BY <1>2 DEF InOneRun
<1>4. /\ Before(data_plist, i + 1) = Before(data_plist, i) + data_plist[i].len
      /\ Before(data_plist, i) \in Nat /\ data_plist[i].len \in Nat
  <2>1. i \in 1..Len(data_plist) + 1
    BY <1>1, Offsets
  <2> QED
    BY <1>1, <2>1, Offsets
<1>5. Holds(data_plist, i, entries[k].data_offset + x)
  BY <1>1, <1>3, <1>4 DEF Holds
<1>6. entries[k].buf_phys + x = VirtToPhys(data_plist, entries[k].data_offset + x)
  BY <1>1, InvPhysical DEF EntriesArePhysical
<1> QED
  BY <1>1, <1>5, <1>6

LEMMA SameRun ==
    ASSUME NEW addr \in Nat, NEW start \in Nat, NEW a \in Nat, NEW b \in Nat,
           addr + a - start = addr + b - start
    PROVE  a = b
OBVIOUS

LEMMA OtherRun ==
    ASSUME NEW addr1 \in Nat, NEW len1 \in Nat, NEW start1 \in Nat, NEW a \in Nat,
           NEW addr2 \in Nat, NEW len2 \in Nat, NEW start2 \in Nat, NEW b \in Nat,
           start1 <= a, a < start1 + len1, start2 <= b, b < start2 + len2,
           addr1 + len1 <= addr2 \/ addr2 + len2 <= addr1
    PROVE  addr1 + a - start1 # addr2 + b - start2
OBVIOUS

LEMMA WithinPart ==
    ASSUME NEW o \in Nat, NEW start \in Nat, NEW len \in Nat, NEW all \in Nat,
           start <= o, o < start + len, len <= all
    PROVE  o - start \in 0..len - 1 /\ o - start \in 0..all - 1 /\ start + (o - start) = o
OBVIOUS

LEMMA AlongPacket ==
    ASSUME NEW here \in Nat, NEW there \in Nat, NEW from \in Nat, NEW to \in Nat,
           NEW x \in Nat, there = here + to - from
    PROVE  there + ((from + x) - to) = here + x
OBVIOUS

(* No two bytes of a data buffer are in one place. *)
LEMMA OneByte ==
    ASSUME DisjointData, NEW p \in DataPlists, NEW a \in Nat, NEW b \in Nat,
           NEW i \in 1..Len(p), NEW l \in 1..Len(p), Holds(p, i, a), Holds(p, l, b),
           VirtToPhys(p, a) = VirtToPhys(p, b)
    PROVE  a = b
<1>1. p \in Physlists
  BY Buffers
<1>2. /\ i \in DOMAIN p /\ l \in DOMAIN p
      /\ i \in 1..Len(p) + 1 /\ l \in 1..Len(p) + 1
  BY <1>1, Offsets
<1>3. /\ Before(p, i) \in Nat /\ p[i].addr \in Nat /\ p[i].len \in Nat
      /\ Before(p, l) \in Nat /\ p[l].addr \in Nat /\ p[l].len \in Nat
  BY <1>1, <1>2, Offsets
<1>4. /\ VirtToPhys(p, a) = p[i].addr + a - Before(p, i)
      /\ VirtToPhys(p, b) = p[l].addr + b - Before(p, l)
  BY <1>1, IndexIs
<1>5. /\ Before(p, i) <= a /\ a < Before(p, i) + p[i].len
      /\ Before(p, l) <= b /\ b < Before(p, l) + p[l].len
  BY DEF Holds
<1>6. CASE i = l
  <2> DEFINE ad == p[i].addr
             s == Before(p, i)
  <2>1. /\ ad \in Nat /\ s \in Nat
        /\ VirtToPhys(p, a) = ad + a - s /\ VirtToPhys(p, b) = ad + b - s
    BY <1>3, <1>4, <1>6
  <2> HIDE DEF ad, s
  <2>2. ad + a - s = ad + b - s
    BY <2>1
  <2> QED
    BY <2>1, <2>2, SameRun
<1>7. CASE i # l
  <2>1. p[i].addr + p[i].len <= p[l].addr \/ p[l].addr + p[l].len <= p[i].addr
    BY <1>2, <1>7 DEF DisjointData
  <2> DEFINE ad1 == p[i].addr
             len1 == p[i].len
             s1 == Before(p, i)
             ad2 == p[l].addr
             len2 == p[l].len
             s2 == Before(p, l)
  <2>2. /\ ad1 \in Nat /\ len1 \in Nat /\ s1 \in Nat
        /\ ad2 \in Nat /\ len2 \in Nat /\ s2 \in Nat
        /\ s1 <= a /\ a < s1 + len1 /\ s2 <= b /\ b < s2 + len2
        /\ ad1 + len1 <= ad2 \/ ad2 + len2 <= ad1
        /\ VirtToPhys(p, a) = ad1 + a - s1 /\ VirtToPhys(p, b) = ad2 + b - s2
    BY <1>3, <1>4, <1>5, <2>1
  <2> HIDE DEF ad1, len1, s1, ad2, len2, s2
  <2>3. ad1 + a - s1 # ad2 + b - s2
    BY <2>2, OtherRun
  <2> QED
    BY <2>2, <2>3
<1> QED
  BY <1>6, <1>7

LEMMA EntriesApart ==
    ASSUME SgInv, MemInv, list # "new",
           NEW k \in 1..Len(entries), NEW m \in 1..Len(entries), k < m
    PROVE  entries[k].data_offset + entries[k].len <= entries[m].data_offset
<1> DEFINE N == Len(entries)
           o(i) == entries[i].data_offset
           l(i) == entries[i].len
           S == {d \in Nat : k + (d + 1) <= N => o(k) + l(k) <= o(k + (d + 1))}
<1>1. /\ N \in Nat
      /\ \A i \in 1..N : /\ o(i) \in Nat /\ l(i) \in Nat
                         /\ i # 1 => o(i) = o(i - 1) + l(i - 1)
  BY EntriesAre
<1> HIDE DEF N, o, l
<1>2. k \in 1..N /\ m \in 1..N
  BY DEF N
<1>3. 0 \in S
  <2> SUFFICES ASSUME k + (0 + 1) <= N PROVE o(k) + l(k) <= o(k + (0 + 1))
    OBVIOUS
  <2>1. k + (0 + 1) \in 1..N /\ k + (0 + 1) # 1 /\ (k + (0 + 1)) - 1 = k
    BY <1>1, <1>2
  <2>2. o(k + (0 + 1)) = o(k) + l(k) /\ o(k) + l(k) \in Nat
    BY <1>1, <1>2, <2>1
  <2> QED
    BY <2>2
<1>4. ASSUME NEW d \in Nat, d \in S PROVE d + 1 \in S
  <2> SUFFICES ASSUME k + ((d + 1) + 1) <= N
               PROVE  o(k) + l(k) <= o(k + ((d + 1) + 1))
    OBVIOUS
  <2> DEFINE b == k + ((d + 1) + 1)
             a == k + (d + 1)
  <2>1. b \in 1..N /\ b # 1 /\ b - 1 = a /\ a \in 1..N
    BY <1>1, <1>2
  <2>2. o(k) + l(k) <= o(a)
    BY <1>1, <1>4, <2>1
  <2> HIDE DEF a, b
  <2>3. o(b) = o(a) + l(a) /\ o(a) \in Nat /\ l(a) \in Nat /\ o(k) \in Nat /\ l(k) \in Nat
    BY <1>1, <1>2, <2>1
  <2>4. o(k) + l(k) <= o(b)
    BY <2>2, <2>3
  <2> QED
    BY <2>4 DEF b
<1>5. Nat \subseteq S
  <2> HIDE DEF S
  <2> QED
    BY <1>3, <1>4, NatSetInduction
<1>6. (m - k) - 1 \in Nat /\ k + (((m - k) - 1) + 1) = m
  BY <1>1, <1>2
<1>7. o(k) + l(k) <= o(m)
  <2>1. (m - k) - 1 \in S
    BY <1>5, <1>6
  <2>2. m <= N
    BY <1>1, <1>2
  <2> QED
    BY <2>1, <2>2, <1>6
<1> QED
  BY <1>7 DEF o, l

(* Bytes of two entries are in two places. *)
LEMMA TwoPlaces ==
    ASSUME DisjointData, SgInv, MemInv, list # "new",
           NEW k \in 1..Len(entries), NEW x \in 0..entries[k].len - 1,
           NEW m \in 1..Len(entries), NEW y \in 0..entries[m].len - 1, k < m
    PROVE  entries[k].buf_phys + x # entries[m].buf_phys + y
<1> DEFINE a == entries[k].data_offset + x
           b == entries[m].data_offset + y
<1>1. /\ data_plist \in DataPlists
      /\ entries[k].data_offset \in Nat /\ entries[k].len \in Nat
      /\ entries[m].data_offset \in Nat /\ entries[m].len \in Nat
  BY EntriesAre
<1>2. entries[k].data_offset + entries[k].len <= entries[m].data_offset
  BY EntriesApart
<1>3. a # b
  BY <1>1, <1>2
<1>4. /\ a \in Nat /\ entries[k].buf_phys + x = VirtToPhys(data_plist, a)
      /\ \E i \in 1..Len(data_plist) : Holds(data_plist, i, a)
  BY ByteHeld
<1>5. /\ b \in Nat /\ entries[m].buf_phys + y = VirtToPhys(data_plist, b)
      /\ \E i \in 1..Len(data_plist) : Holds(data_plist, i, b)
  BY ByteHeld
<1> HIDE DEF a, b
<1> QED
  BY <1>1, <1>3, <1>4, <1>5, OneByte

(* Entries v to e hold one packet, which ends in none before e. *)
Spans(v, e, p, q) ==
    /\ \A k \in v..e - 1 : ~Word(k).eof
    /\ \A k \in v..e : /\ p[k] = p[v]
                       /\ q[k] = q[v] + entries[k].data_offset - entries[v].data_offset

(* Where the program reads the data buffer at o there is byte x of packet n. *)
Carries(o, n, x) ==
    LET a == VirtToPhys(data_plist, o)
    IN a \in DOMAIN dram /\ (DisjointData => dram[a] = <<n, x>>)

(* Every byte of the buffer that begins with entry v and ends in entry e   *)
(* has been received, and is that byte of the packet.                      *)
LEMMA Covered ==
    ASSUME DisjointRuns, NEW j, NEW p, NEW q, Kept(j, p, q),
           NEW e \in 1..Len(entries), NEW v \in 1..e, e <= j, Spans(v, e, p, q),
           NEW x \in Nat,
           entries[v].data_offset + x < entries[e].data_offset + Word(e).len
    PROVE  Carries(entries[v].data_offset + x, p[v], q[v] + x)
<1> DEFINE o == entries[v].data_offset + x
           S == {k \in 1..e : v <= k /\ entries[k].data_offset <= o}
           k == Max(S)
<1>1. /\ Len(entries) \in Nat /\ e \in Nat /\ v \in Nat /\ v <= e /\ e <= Len(entries)
      /\ v \in 1..Len(entries)
  BY LedgerTypes
<1>2. entries[v].data_offset \in Nat /\ o \in Nat
  BY <1>1, LedgerTypes
<1>3. v \in S /\ S \in SUBSET (1..e)
  BY <1>1, <1>2
<1>4. k \in S /\ \A i \in S : i <= k
  <2> HIDE DEF S
  <2> QED
    BY <1>1, <1>3, MaxUpTo
<1> HIDE DEF k
<1>5. /\ k \in 1..Len(entries) /\ k \in v..e /\ k \in 1..j /\ k \in 1..Len(entries) + 1
      /\ k \in Nat /\ entries[k].data_offset <= o /\ j \in Nat
      /\ v \in 1..Len(entries) + 1
  BY <1>1, <1>4, LedgerTypes
<1>6. /\ entries[k].data_offset \in Nat /\ entries[k].len \in Nat
      /\ entries[k].buf_phys \in Nat /\ Word(k).len \in Nat
      /\ q[k] \in Nat /\ q[v] \in Nat
      /\ Word(k).len <= entries[k].len
  <2>1. WordsRead(j)
    BY DEF Kept, Ledger, Received
  <2>2. Word(k).len \in 1..entries[k].len
    BY <1>5, <2>1 DEF WordsRead
  <2>3. entries[k].len \in Nat
    BY <1>5, LedgerTypes
  <2> QED
    BY <1>5, <2>2, <2>3, LedgerTypes
<1>7. o < entries[k].data_offset + Word(k).len
  <2>1. CASE k = e
    BY <2>1
  <2>2. CASE k # e
    <3>1. k \in v..e - 1 /\ k + 1 \in 1..e /\ v <= k + 1 /\ k + 1 \in 1..Len(entries)
          /\ k + 1 # 1 /\ (k + 1) - 1 = k /\ ~(k + 1 <= k)
      BY <1>1, <1>5, <2>2
    <3>2. Word(k).len = entries[k].len
      BY <1>5, <3>1 DEF Spans, Kept, Ledger, Received, WordsRead
    <3>3. entries[k + 1].data_offset = entries[k].data_offset + entries[k].len
      BY <3>1, LedgerTypes
    <3>4. k + 1 \notin S
      BY <1>4, <3>1
    <3>5. ~(entries[k + 1].data_offset <= o)
      BY <3>1, <3>4
    <3> HIDE DEF o
    <3> QED
      BY <1>2, <1>6, <3>2, <3>3, <3>5
  <2> QED
    BY <2>1, <2>2
<1> DEFINE y == o - entries[k].data_offset
<1>8. /\ y \in 0..Word(k).len - 1 /\ y \in 0..entries[k].len - 1
      /\ entries[k].data_offset + y = o
  <2> HIDE DEF o
  <2> QED
    BY <1>2, <1>5, <1>6, <1>7, WithinPart
<1>9. entries[k].buf_phys + y = VirtToPhys(data_plist, o)
  BY <1>5, <1>8, ByteHeld DEF Kept
<1>10. /\ entries[k].buf_phys + y \in DOMAIN dram
       /\ DisjointData => dram[entries[k].buf_phys + y] = <<p[k], q[k] + y>>
  BY <1>5, <1>8 DEF Kept, Ledger, Received, Filled
<1>11. p[k] = p[v] /\ q[k] + y = q[v] + x
  <2>1. p[k] = p[v] /\ q[k] = q[v] + entries[k].data_offset - entries[v].data_offset
    BY <1>5 DEF Spans
  <2> DEFINE from == entries[v].data_offset
             to == entries[k].data_offset
             qk == q[k]
             qv == q[v]
  <2>2. /\ from \in Nat /\ to \in Nat /\ qk \in Nat /\ qv \in Nat
        /\ qk = qv + to - from
    BY <1>2, <1>6, <2>1
  <2>3. qk + ((from + x) - to) = qv + x
    <3> HIDE DEF from, to, qk, qv
    <3> QED
      BY <2>2, AlongPacket
  <2> QED
    BY <2>1, <2>3
<1>12. /\ VirtToPhys(data_plist, o) \in DOMAIN dram
       /\ DisjointData => dram[VirtToPhys(data_plist, o)] = <<p[v], q[v] + x>>
  BY <1>9, <1>10, <1>11
<1> QED
  BY <1>12 DEF Carries

-----------------------------------------------------------------------------
(* The buffer is handed out. *)

(* What is known of it then. *)
LEMMA AtReturn ==
    ASSUME DisjointRuns, NEW j, NEW p, NEW q, Kept(j, p, q), pc = "return",
           deq.code = "TRANSFER_SUCCESS", ~StaleStatus(deq)
    PROVE  LET e == deq.e
               v == to_vist
               b == entries[v].data_offset
           IN /\ e \in 1..Len(entries) /\ v \in 1..e /\ e <= j /\ deq.base = b
              /\ b \in Nat /\ b <= entries[e].data_offset
              /\ Word(e).len \in Nat \ {0} /\ entries[e].data_offset \in Nat
              /\ q[v] \in Nat /\ p[v] \in Nat /\ deq.len \in Nat
              /\ Word(e).eof \/ e = Len(entries)
              /\ Spans(v, e, p, q)
              /\ deq.len <= entries[e].data_offset - b + Word(e).len
              /\ deq.quiet => deq.len = entries[e].data_offset - b + Word(e).len
<1> DEFINE e == deq.e
           v == to_vist
<1>1. /\ e \in 1..Len(entries) /\ v \in 1..e /\ deq.base = entries[v].data_offset
      /\ Judged(j, p, q)
  BY DEF Kept, Ledger, AtPlace, Places
<1>2. /\ e <= j /\ e \in Nat /\ v \in Nat /\ v <= e /\ v \in 1..Len(entries)
      /\ v \in 1..Len(entries) + 1 /\ e \in 1..j
  BY <1>1, LedgerTypes DEF Judged
<1>3. /\ entries[v].data_offset \in Nat /\ entries[e].data_offset \in Nat
      /\ entries[v].len \in Nat /\ entries[e].len \in Nat
      /\ q[v] \in Nat /\ p[v] \in Nat /\ deq.len \in Nat
  BY <1>1, <1>2, LedgerTypes DEF Kept, StreamType
<1>4. Word(e).len \in Nat \ {0}
  <2>1. Word(e).len \in 1..entries[e].len
    BY <1>2 DEF Kept, Ledger, Received, WordsRead
  <2> QED
    BY <1>3, <2>1
<1>5. entries[v].data_offset <= entries[e].data_offset
  <2>1. CASE v = e
    BY <1>3, <2>1
  <2>2. CASE v # e
    <3>1. v < e
      BY <1>2, <2>2
    <3>2. entries[v].data_offset + entries[v].len <= entries[e].data_offset
      BY <1>1, <1>2, <3>1, EntriesApart DEF Kept
    <3> QED
      BY <1>3, <3>2
  <2> QED
    BY <2>1, <2>2
<1> QED
  BY <1>1, <1>2, <1>3, <1>4, <1>5 DEF Judged, Spans

LEMMA NoFurther ==
    ASSUME NEW b \in Nat, NEW o \in Nat, NEW w \in Nat \ {0}, NEW n \in Nat,
           b <= o, n <= o - b + w, NEW x \in 0..n - 1
    PROVE  x \in Nat /\ b + x < o + w
OBVIOUS

(* The packet's bytes are under the buffer. *)
LEMMA UnderBuffer ==
    ASSUME DisjointRuns, NEW j, NEW p, NEW q, Kept(j, p, q), pc = "return",
           deq.code = "TRANSFER_SUCCESS", ~StaleStatus(deq),
           NEW x, x = 0 \/ x \in 0..deq.len - 1
    PROVE  Carries(deq.base + x, p[to_vist], q[to_vist] + x)
<1> DEFINE e == deq.e
           v == to_vist
           b == entries[v].data_offset
           o == entries[e].data_offset
           w == Word(e).len
<1>1. /\ e \in 1..Len(entries) /\ v \in 1..e /\ e <= j /\ deq.base = b
      /\ b \in Nat /\ b <= o /\ w \in Nat \ {0} /\ o \in Nat /\ deq.len \in Nat
      /\ Spans(v, e, p, q)
      /\ deq.len <= o - b + w
  BY AtReturn
<1>2. x \in Nat /\ b + x < o + w
  <2> HIDE DEF b, o, w
  <2>1. CASE x = 0
    BY <1>1, <2>1
  <2>2. CASE x \in 0..deq.len - 1
    BY <1>1, <2>2, NoFurther
  <2> QED
    BY <2>1, <2>2
<1>3. Carries(entries[v].data_offset + x, p[v], q[v] + x)
  <2> HIDE DEF e, v
  <2> QED
    BY <1>1, <1>2, Covered
<1> QED
  BY <1>1, <1>3

(* Which packet it is, when the traversal has not lost count. *)
LEMMA WhichPacket ==
    ASSUME DisjointRuns, NEW j, NEW p, NEW q, Kept(j, p, q), pc = "return",
           deq.code = "TRANSFER_SUCCESS", ~StaleStatus(deq), ~run.broken
    PROVE  LET e == deq.e
               v == to_vist
           IN /\ run.taken + 1 = p[v]
              /\ q[v] = 0 \/ deq.base = 0
              /\ IF Word(e).eof
                 THEN /\ p[e + 1] = p[v] + 1 /\ q[e + 1] = 0 /\ p[v] \in 1..Len(ended)
                      /\ deq.quiet => ended[p[v]] = q[v] + deq.len
                 ELSE /\ e = Len(entries) /\ p[e + 1] = p[v] /\ q[e + 1] # 0
                      /\ p[v] = Len(ended) + 1
<1> DEFINE e == deq.e
           v == to_vist
           b == entries[v].data_offset
           o == entries[e].data_offset
           w == Word(e).len
<1>1. /\ e \in 1..Len(entries) /\ v \in 1..e /\ e <= j /\ deq.base = b
      /\ b \in Nat /\ b <= o /\ w \in Nat \ {0} /\ o \in Nat /\ deq.len \in Nat
      /\ q[v] \in Nat /\ p[v] \in Nat
      /\ Word(e).eof \/ e = Len(entries)
      /\ Spans(v, e, p, q)
      /\ deq.quiet => deq.len = o - b + w
  BY AtReturn
<1>2. /\ Len(entries) \in Nat /\ j \in Nat /\ j <= Len(entries) /\ e \in Nat /\ v \in Nat
      /\ e \in 1..j /\ e \in v..e /\ v \in 1..Len(entries) /\ j # 0
  BY <1>1, LedgerTypes
<1>3. /\ v - 1 <= j /\ run.taken = p[v] - 1 /\ (v > 1 => Word(v - 1).eof)
  BY <1>2 DEF Kept, Ledger, Taken
<1>4. run.taken + 1 = p[v]
  BY <1>1, <1>3
<1>5. q[v] = 0 \/ deq.base = 0
  <2>1. CASE v = 1
    BY <1>1, <2>1, LedgerTypes
  <2>2. CASE v # 1
    <3>1. v - 1 \in 1..j /\ (v - 1) + 1 = v /\ v > 1
      BY <1>2, <1>3, <2>2
    <3>2. q[(v - 1) + 1] = 0
      BY <1>3, <3>1 DEF Kept, Ledger, Received, Advances
    <3> QED
      BY <3>1, <3>2
  <2> QED
    BY <2>1, <2>2
<1>6. /\ Advances(j, p, q) /\ Accounted(j, p, q) /\ EngineAt(j)
  BY DEF Kept, Ledger, Received
<1>7. p[e] = p[v] /\ q[e] = q[v] + o - b
  BY <1>1, <1>2 DEF Spans
<1>8. CASE Word(e).eof
  <2>1. /\ p[e + 1] = p[e] + 1 /\ q[e + 1] = 0 /\ p[e] \in 1..Len(ended)
        /\ ended[p[e]] = q[e] + w
    BY <1>2, <1>6, <1>8 DEF Advances, Accounted
  <2>2. deq.quiet => q[e] + w = q[v] + deq.len
    <3> DEFINE qv == q[v]
               qe == q[e]
    <3>1. qv \in Nat /\ qe = qv + o - b /\ (deq.quiet => deq.len = o - b + w)
      BY <1>1, <1>7
    <3>2. deq.quiet => qe + w = qv + deq.len
      <4> HIDE DEF qv, qe, o, b, w
      <4> QED
        BY <1>1, <3>1
    <3> QED
      BY <3>2
  <2> QED
    BY <1>4, <1>5, <1>7, <1>8, <2>1, <2>2
<1>9. CASE ~Word(e).eof
  <2>1. e = Len(entries) /\ j = e
    BY <1>1, <1>2, <1>9
  <2>2. p[e + 1] = p[e] /\ q[e + 1] = q[e] + w
    BY <1>2, <1>6, <1>9 DEF Advances
  <2>3. p[j + 1] = Len(ended) + 1
    BY <1>2, <1>6 DEF Accounted, EngineAt
  <2>4. q[e] \in Nat
    <3>1. e \in 1..Len(entries) + 1
      BY <1>2
    <3> QED
      BY <3>1, LedgerTypes
  <2>5. q[e + 1] # 0
    BY <1>1, <2>2, <2>4
  <2> QED
    BY <1>4, <1>5, <1>7, <1>9, <2>1, <2>2, <2>3, <2>5
<1> QED
  BY <1>8, <1>9

LEMMA ReturnStep ==
    ASSUME DisjointRuns, NEW j, NEW p, NEW q, Kept(j, p, q), DequeueReturns
    PROVE  Taken(j, p, q)' /\ AtPlace(j, p, q)' /\ Got'
<1> DEFINE e == deq.e
           v == to_vist
           N == Len(entries)
           Trusted == deq.code = "TRANSFER_SUCCESS" /\ ~StaleStatus(deq)
<1>1. /\ pc = "return" /\ pc' = "got"
      /\ to_vist' = NextEntry(e)
      /\ buf' = [base |-> deq.base, len |-> deq.len, code |-> deq.code,
                 quiet |-> deq.quiet]
      /\ run' = [run EXCEPT !.taken = run.taken + 1,
                   !.broken = \/ run.broken \/ deq.code = "TRANSFER_FAILED"
                              \/ StaleStatus(deq)]
      /\ UNCHANGED <<entries, mem, sg_plist, data_plist, dma, list, dram, ended>>
  BY DEF DequeueReturns, DequeueUnchanged, listVars, dmaVars
<1>2. /\ run'.taken = run.taken + 1 /\ run.taken \in Nat
      /\ ~run'.broken => ~run.broken /\ Trusted
      /\ deq.code \in {"TRANSFER_SUCCESS", "TRANSFER_FAILED"}
  BY <1>1 DEF Kept, StreamType
<1>3. /\ buf'.base = deq.base /\ buf'.len = deq.len /\ buf'.code = deq.code
      /\ buf'.quiet = deq.quiet
  BY <1>1
<1>4. /\ e \in 1..N /\ N \in Nat
      /\ deq.quiet => dma.state # "busy"
      /\ \A k : Word(k)' = Word(k)
  BY <1>1, LedgerTypes DEF Kept, Ledger, AtPlace, Places, Word, DescOf
<1>5. Taken(j, p, q)'
  <2>1. run'.taken # 0
    BY <1>2
  <2>2. ASSUME ~run'.broken
        PROVE  IF to_vist' \in 1..N
               THEN /\ to_vist' - 1 <= j /\ run'.taken = p[to_vist'] - 1
                    /\ to_vist' > 1 => Word(to_vist' - 1).eof
               ELSE /\ j = N
                    /\ run'.taken = p[N + 1] - 1 + (IF q[N + 1] = 0 THEN 0 ELSE 1)
    <3>1. Trusted /\ ~run.broken
      BY <1>2, <2>2
    <3>2. /\ run.taken + 1 = p[v]
          /\ IF Word(e).eof THEN p[e + 1] = p[v] + 1 /\ q[e + 1] = 0
                            ELSE e = N /\ p[e + 1] = p[v] /\ q[e + 1] # 0
      BY <1>1, <3>1, WhichPacket
    <3>3. e <= j /\ p[v] \in Nat /\ j \in Nat /\ j <= N
      BY <1>1, <3>1, AtReturn, LedgerTypes
    <3>4. CASE e = N
      <4>1. to_vist' \notin 1..N /\ j = N
        BY <1>1, <1>4, <3>3, <3>4 DEF NextEntry, SENTINEL
      <4>2. CASE Word(e).eof
        <5>1. p[N + 1] = p[v] + 1 /\ q[N + 1] = 0
          BY <3>2, <3>4, <4>2
        <5>2. run'.taken = p[N + 1] - 1 + 0
          BY <1>2, <3>2, <3>3, <5>1
        <5> QED
          BY <4>1, <5>1, <5>2
      <4>3. CASE ~Word(e).eof
        <5>1. p[N + 1] = p[v] /\ q[N + 1] # 0
          BY <3>2, <3>4, <4>3
        <5>2. run'.taken = p[N + 1] - 1 + 1
          BY <1>2, <3>2, <3>3, <5>1
        <5> QED
          BY <4>1, <5>1, <5>2
      <4> QED
        BY <4>2, <4>3
    <3>5. CASE e # N
      <4>1. /\ to_vist' = e + 1 /\ e + 1 \in 1..N /\ (e + 1) - 1 = e
            /\ Word(e).eof /\ p[e + 1] = p[v] + 1
        <5>1. e + 1 \in 1..N /\ (e + 1) - 1 = e
          BY <1>4, <3>5
        <5>2. to_vist' = e + 1
          BY <1>1, <3>5 DEF NextEntry
        <5> QED
          BY <3>2, <3>5, <5>1, <5>2
      <4>2. run'.taken = p[e + 1] - 1
        BY <1>2, <3>2, <3>3, <4>1
      <4> QED
        BY <3>3, <4>1, <4>2
    <3> QED
      BY <3>4, <3>5
  <2> QED
    BY <1>1, <1>4, <2>1, <2>2 DEF Taken
<1>6. AtPlace(j, p, q)'
  BY <1>1 DEF AtPlace, Places
<1>7. ASSUME NEW x, x = 0 \/ x \in 0..deq.len - 1, Trusted
      PROVE  /\ VirtToPhys(data_plist, deq.base + x) \in DOMAIN dram
             /\ DisjointData =>
                  dram[VirtToPhys(data_plist, deq.base + x)] = <<p[v], q[v] + x>>
  <2>1. Carries(deq.base + x, p[v], q[v] + x)
    BY <1>1, <1>7, UnderBuffer
  <2> QED
    BY <2>1 DEF Carries
<1>8. FreshSuccess'
  <2> SUFFICES ASSUME buf'.code = "TRANSFER_SUCCESS", ~StaleStatus(buf)'
               PROVE  /\ VirtToPhys(data_plist', buf'.base + 0) \in DOMAIN dram'
                      /\ \A x \in 0..buf'.len - 1 :
                           VirtToPhys(data_plist', buf'.base + x) \in DOMAIN dram'
    BY DEF FreshSuccess, Landed
  <2>1. Trusted
    BY <1>1, <1>3 DEF StaleStatus
  <2> HIDE DEF Trusted
  <2> QED
    BY <1>1, <1>3, <1>7, <2>1
<1>9. ASSUME DisjointData, buf'.code = "TRANSFER_SUCCESS", buf'.quiet, ~run'.broken
      PROVE  HoldsThisPacket(buf)'
  <2>1. Trusted /\ ~run.broken /\ deq.quiet
    BY <1>2, <1>3, <1>9
  <2>2. /\ run'.taken = p[v] /\ (q[v] = 0 \/ deq.base = 0)
        /\ IF Word(e).eof THEN p[v] \in 1..Len(ended) /\ ended[p[v]] = q[v] + deq.len
                          ELSE e = N /\ p[v] = Len(ended) + 1
    BY <1>1, <1>2, <2>1, WhichPacket
  <2>3. q[v] \in Nat /\ p[v] \in Nat
    BY <1>1, <2>1, AtReturn
  <2> HIDE DEF Trusted
  <2>4. /\ VirtToPhys(data_plist, deq.base + 0) \in DOMAIN dram
        /\ dram[VirtToPhys(data_plist, deq.base + 0)] = <<p[v], q[v] + 0>>
    BY <1>7, <1>9, <2>1
  <2> DEFINE start == dram[VirtToPhys(data_plist, deq.base + 0)][2]
  <2>5. start = q[v]
    BY <2>3, <2>4
  <2>6. \A x \in 0..deq.len - 1 :
           /\ VirtToPhys(data_plist, deq.base + x) \in DOMAIN dram
           /\ dram[VirtToPhys(data_plist, deq.base + x)] = <<run'.taken, start + x>>
    BY <1>7, <1>9, <2>1, <2>2, <2>5
  <2>7. IF run'.taken <= Len(ended) THEN ended[run'.taken] = start + deq.len
                                    ELSE to_vist' = SENTINEL
    <3>1. Len(ended) \in Nat
      BY DEF Kept, StreamType
    <3>2. CASE Word(e).eof
      <4>1. p[v] <= Len(ended) /\ ended[p[v]] = q[v] + deq.len
        BY <2>2, <3>1, <3>2
      <4> QED
        BY <2>2, <2>5, <4>1
    <3>3. CASE ~Word(e).eof
      <4>1. ~(p[v] <= Len(ended)) /\ to_vist' = SENTINEL
        BY <1>1, <2>2, <3>1, <3>3 DEF NextEntry
      <4> QED
        BY <2>2, <4>1
    <3> QED
      BY <3>2, <3>3
  <2> HIDE DEF start
  <2>8. start = dram'[VirtToPhys(data_plist', buf'.base + 0)][2]
    BY <1>1, <1>3 DEF start
  <2>9. start = 0 \/ buf'.base = 0
    BY <1>3, <2>2, <2>5
  <2> QED
    BY <1>1, <1>3, <2>4, <2>6, <2>7, <2>8, <2>9 DEF HoldsThisPacket, ThisPacket
<1>10. Got'
  <2>1. buf'.code # "END_OF_LIST"
    BY <1>2, <1>3
  <2>2. DisjointData => DequeuedIsNthPacket'
    BY <1>9 DEF DequeuedIsNthPacket
  <2>3. buf'.quiet => dma'.state # "busy"
    BY <1>1, <1>3, <1>4
  <2>4. DisjointData' = DisjointData
    BY DEF DisjointData
  <2> QED
    BY <1>8, <2>1, <2>2, <2>3, <2>4 DEF Got
<1> QED
  BY <1>5, <1>6, <1>10

(* Every step of a dequeue. *)
LEMMA DequeueingStep ==
    ASSUME DisjointRuns, NEW j, NEW p, NEW q, Kept(j, p, q), Dequeuing
    PROVE  Ledger(j, p, q)' /\ Got' /\ UNCHANGED <<entries, list>>
<1>1. UNCHANGED <<entries, sg_plist, mem, dram, ended, list, dma>>
  BY DEF Dequeuing, DequeueEnd, Dequeue, ReadLen, ReadComplete, ReadEof,
         DequeueReturns, DequeueUnchanged, listVars, dmaVars
<1>2. Received(j, p, q)'
  BY <1>1, MemoryStays DEF Kept, Ledger
<1>3. Taken(j, p, q)' /\ AtPlace(j, p, q)' /\ Got'
  BY EndStep, StartStep, LenStep, CompleteStep, EofStep, ReturnStep DEF Dequeuing
<1> QED
  BY <1>1, <1>2, <1>3 DEF Ledger

(* The other steps of the program that leave the list and the DMA alone. *)
LEMMA IdleStep ==
    ASSUME NEW j, NEW p, NEW q, Kept(j, p, q),
           WaitReturns \/ Consumed \/ ResetTraversal
    PROVE  Ledger(j, p, q)' /\ Got' /\ StreamType' /\ UNCHANGED <<entries, list>>
<1>1. /\ UNCHANGED <<entries, sg_plist, mem, dram, ended, list, dma, deq>>
      /\ pc' = "idle"
  BY DEF WaitReturns, Consumed, ResetTraversal, DequeueUnchanged, listVars, dmaVars
<1>2. Received(j, p, q)'
  BY <1>1, MemoryStays DEF Kept, Ledger
<1>3. AtPlace(j, p, q)' /\ Got'
  BY <1>1 DEF AtPlace, Places, Got
<1>4. CASE UNCHANGED <<to_vist, run>>
  <2>1. Taken(j, p, q)'
    BY <1>1, <1>4, TakenStays
  <2>2. StreamType'
    BY <1>1, <1>4, StreamTypeSame DEF Kept
  <2> QED
    BY <1>1, <1>2, <1>3, <2>1, <2>2 DEF Ledger
<1>5. CASE ResetTraversal
  <2>1. to_vist' = First /\ run' = [run EXCEPT !.taken = 0, !.broken = FALSE]
    BY <1>5 DEF ResetTraversal
  <2>2. entries # <<>> /\ 1 \in 1..Len(entries) /\ ~(1 > 1) /\ j \in Nat
    <3>1. entries # <<>>
      BY DEF Kept, MemInv, ListWritten
    <3> QED
      BY <3>1, LedgerTypes
  <2>3. to_vist' = 1
    BY <2>1, <2>2 DEF First
  <2>4. StreamType' /\ run'.taken = 0 /\ run'.broken = FALSE
    BY <1>1, <2>1, RunReset DEF Kept
  <2>5. p[1] = 1
    BY DEF Kept, Ledger, Received, Advances
  <2>6. 1 - 1 <= j /\ 0 = p[1] - 1
    BY <2>2, <2>5
  <2>7. Taken(j, p, q)'
    BY <1>1, <2>2, <2>3, <2>4, <2>6 DEF Taken
  <2> QED
    BY <1>1, <1>2, <1>3, <2>4, <2>7 DEF Ledger
<1> QED
  BY <1>4, <1>5 DEF WaitReturns, Consumed

-----------------------------------------------------------------------------
(* The DMA does a descriptor. *)

(* Descriptor c is done, with n bytes, and the ledger goes on by an entry. *)
OneMore(c, p, q, p2, q2, n, eof) ==
    /\ c \in 1..Len(entries) /\ p2 \in Ledgers /\ q2 \in Ledgers
    /\ \A k \in 1..c : p2[k] = p[k] /\ q2[k] = q[k]
    /\ p2[c + 1] = (IF eof THEN p[c] + 1 ELSE p[c])
    /\ q2[c + 1] = (IF eof THEN 0 ELSE q[c] + n)
    /\ \A k \in 1..Len(entries) : k # c => Word(k)' = Word(k)
    /\ Word(c)'.len = n /\ Word(c)'.eof = eof
    /\ n \in 1..entries[c].len /\ (eof \/ n = entries[c].len)
    /\ UNCHANGED <<entries, sg_plist, list>>

LEMMA DoneOne ==
    ASSUME DisjointRuns, NEW j, NEW p, NEW q, Kept(j, p, q),
           NEW n, NEW eof \in BOOLEAN, Receive(n, eof)
    PROVE  \E p2, q2 : /\ OneMore(j + 1, p, q, p2, q2, n, eof)
                       /\ dma.cur = DescOf(j + 1) /\ dma.tail = DescOf(Len(entries))
                       /\ mem[dma.cur].buf = entries[j + 1].buf_phys
                       /\ j + 1 # Len(entries) => mem[dma.cur].next = DescOf(j + 2)
<1> DEFINE c == j + 1
           N == Len(entries)
           s == [len |-> n, eof |-> eof, complete |-> TRUE, err |-> FALSE]
           p2 == [p EXCEPT ![c + 1] = IF eof THEN p[c] + 1 ELSE p[c]]
           q2 == [q EXCEPT ![c + 1] = IF eof THEN 0 ELSE q[c] + n]
<1>1. /\ dma.state = "busy" /\ n \in 1..mem[dma.cur].len
      /\ eof \/ n = mem[dma.cur].len
      /\ mem' = [mem EXCEPT ![dma.cur].status = s]
      /\ UNCHANGED <<entries, sg_plist, list>>
  BY DEF Receive, listVars, progVars
<1>2. j < N /\ dma.cur = DescOf(c) /\ dma.tail = DescOf(N)
  BY <1>1 DEF Kept, Ledger, Received, EngineAt
<1>3. /\ N \in Nat /\ j \in Nat /\ c \in 1..N /\ c \in 1..N + 1 /\ c + 1 \in 1..N + 1
      /\ c + 1 = j + 2 /\ \A k \in 1..c : k # c + 1 /\ k \in 1..N + 1
  BY <1>2, LedgerTypes
<1>4. /\ DescOf(c) \in DOMAIN mem /\ mem[DescOf(c)] \in Desc
      /\ IsFor(mem[DescOf(c)], c, N)
  BY <1>3, OwnDescriptor DEF Kept
<1>5. entries[c].len \in Nat /\ n \in 1..entries[c].len /\ n \in Nat
  BY <1>1, <1>2, <1>3, <1>4, LedgerTypes DEF IsFor
<1>6. Word(c)' = s
  <2>1. DescOf(c)' = DescOf(c)
    BY <1>1 DEF DescOf
  <2>2. mem'[DescOf(c)] = [mem[DescOf(c)] EXCEPT !.status = s]
    BY <1>1, <1>2, <1>4
  <2>3. mem'[DescOf(c)].status = s
    <3> HIDE DEF s
    <3> QED
      BY <1>4, <2>2 DEF Desc
  <2> QED
    BY <2>1, <2>3 DEF Word
<1>7. ASSUME NEW k \in 1..N, k # c PROVE Word(k)' = Word(k)
  <2>1. DescOf(k)' = DescOf(k) /\ DescOf(k) # dma.cur
    BY <1>1, <1>2, <1>3, <1>7, OneAddress DEF DescOf, Kept
  <2>2. mem'[DescOf(k)] = mem[DescOf(k)]
    <3>1. DescOf(k) \in DOMAIN mem
      BY OwnDescriptor DEF Kept
    <3> QED
      BY <1>1, <2>1, <3>1
  <2> QED
    BY <2>1, <2>2 DEF Word
<1>8. /\ p \in [1..N + 1 -> Nat] /\ q \in [1..N + 1 -> Nat]
      /\ p[c] \in Nat /\ q[c] \in Nat
  BY <1>3 DEF Kept, Ledgers
<1>9. /\ p2 \in Ledgers /\ q2 \in Ledgers
      /\ \A k \in 1..c : p2[k] = p[k] /\ q2[k] = q[k]
      /\ p2[c + 1] = (IF eof THEN p[c] + 1 ELSE p[c])
      /\ q2[c + 1] = (IF eof THEN 0 ELSE q[c] + n)
  <2>1. /\ (IF eof THEN p[c] + 1 ELSE p[c]) \in Nat
        /\ (IF eof THEN 0 ELSE q[c] + n) \in Nat
    BY <1>5, <1>8
  <2> HIDE DEF c, N
  <2> QED
    BY <1>3, <1>8, <2>1 DEF Ledgers, N
<1>10. s.len = n /\ s.eof = eof
  OBVIOUS
<1> HIDE DEF p2, q2, s
<1>11. OneMore(c, p, q, p2, q2, n, eof)
  <2>1. eof \/ n = entries[c].len
    BY <1>1, <1>2, <1>4 DEF IsFor
  <2> QED
    BY <1>1, <1>3, <1>5, <1>6, <1>7, <1>9, <1>10, <2>1 DEF OneMore
<1>12. /\ mem[dma.cur].buf = entries[c].buf_phys
       /\ c # N => mem[dma.cur].next = DescOf(j + 2)
  BY <1>2, <1>3, <1>4 DEF IsFor
<1> QED
  BY <1>2, <1>11, <1>12

LEMMA MoreRead ==
    ASSUME NEW j, NEW p, NEW q, Kept(j, p, q), NEW p2, NEW q2, NEW n, NEW eof \in BOOLEAN,
           OneMore(j + 1, p, q, p2, q2, n, eof)
    PROVE  WordsRead(j + 1)' /\ Advances(j + 1, p2, q2)'
<1> DEFINE c == j + 1
           N == Len(entries)
<1>1. /\ j \in Nat /\ N \in Nat /\ c \in 1..N /\ c \in 1..c /\ entries[c].len \in Nat
      /\ \A k \in 1..c : k \in 1..N /\ (k = c \/ (k \in 1..j /\ k # c /\ k + 1 \in 1..c))
      /\ \A k \in c + 1..N : k \in j + 1..N /\ k \in 1..N /\ k # c
      /\ 1 \in 1..c
  BY LedgerTypes DEF OneMore
<1>2. WordsRead(j) /\ Advances(j, p, q)
  BY DEF Kept, Ledger, Received
<1> HIDE DEF c
<1>3. OneMore(c, p, q, p2, q2, n, eof)
  BY DEF c
<1>4. WordsRead(c)'
  BY <1>1, <1>2, <1>3 DEF WordsRead, OneMore
<1>5. ASSUME NEW k \in 1..c
      PROVE  IF Word(k)'.eof
             THEN p2[k + 1] = p2[k] + 1 /\ q2[k + 1] = 0
             ELSE p2[k + 1] = p2[k] /\ q2[k + 1] = q2[k] + Word(k)'.len
  <2>1. CASE k = c
    BY <1>1, <1>3, <2>1 DEF OneMore
  <2>2. CASE k # c
    <3>1. /\ k \in 1..j /\ Word(k)' = Word(k) /\ p2[k] = p[k] /\ q2[k] = q[k]
          /\ p2[k + 1] = p[k + 1] /\ q2[k + 1] = q[k + 1]
      BY <1>1, <1>3, <2>2 DEF OneMore
    <3> QED
      BY <1>2, <3>1 DEF Advances
  <2> QED
    BY <2>1, <2>2
<1>6. p2[1] = 1
  BY <1>1, <1>2, <1>3 DEF Advances, OneMore
<1>7. Advances(c, p2, q2)'
  BY <1>5, <1>6 DEF Advances
<1> QED
  BY <1>4, <1>7 DEF c

LEMMA MoreAccounted ==
    ASSUME NEW j, NEW p, NEW q, Kept(j, p, q), NEW p2, NEW q2, NEW n, NEW eof \in BOOLEAN,
           OneMore(j + 1, p, q, p2, q2, n, eof), list # "written",
           ended' = IF eof THEN Append(ended, dma.byte + n) ELSE ended,
           dma'.byte = IF eof THEN 0 ELSE dma.byte + n
    PROVE  Accounted(j + 1, p2, q2)'
<1> DEFINE c == j + 1
           N == Len(entries)
<1>1. /\ j \in Nat /\ N \in Nat /\ c \in 1..N /\ c \in 1..c /\ entries[c].len \in Nat
      /\ \A k \in 1..c : k \in 1..N /\ (k = c \/ (k \in 1..j /\ k # c))
  BY LedgerTypes DEF OneMore
<1>2. Accounted(j, p, q)
  BY DEF Kept, Ledger, Received
<1>3. p[c] = Len(ended) + 1 /\ q[c] = dma.byte /\ dma.byte \in Nat /\ ended \in Seq(Nat)
  BY <1>2 DEF Accounted, Kept, StreamType
<1> HIDE DEF c
<1>4. OneMore(c, p, q, p2, q2, n, eof)
  BY DEF c
<1>5. n \in Nat
  BY <1>1, <1>4 DEF OneMore
<1>6. /\ Len(ended) \in Nat /\ dma.byte + n \in Nat
      /\ eof => Len(ended') = Len(ended) + 1 /\ ended'[Len(ended) + 1] = dma.byte + n
      /\ \A i \in 1..Len(ended) : i \in 1..Len(ended') /\ ended'[i] = ended[i]
  BY <1>3, <1>5
<1>7. p2[c + 1] = Len(ended') + 1 /\ q2[c + 1] = dma'.byte
  <2>1. CASE eof
    BY <1>3, <1>4, <1>6, <2>1 DEF OneMore
  <2>2. CASE ~eof
    BY <1>3, <1>4, <1>6, <2>2 DEF OneMore
  <2> QED
    BY <2>1, <2>2
<1>8. ASSUME NEW k \in 1..c, Word(k)'.eof
      PROVE  p2[k] \in 1..Len(ended') /\ ended'[p2[k]] = q2[k] + Word(k)'.len
  <2>1. CASE k = c
    <3>1. /\ p2[k] = Len(ended) + 1 /\ q2[k] = dma.byte /\ Word(k)'.len = n /\ eof
      BY <1>1, <1>3, <1>4, <1>8, <2>1 DEF OneMore
    <3>2. Len(ended) + 1 \in 1..Len(ended')
      BY <1>6, <3>1
    <3> QED
      BY <1>6, <3>1, <3>2
  <2>2. CASE k # c
    <3>1. k \in 1..j /\ Word(k)' = Word(k) /\ p2[k] = p[k] /\ q2[k] = q[k]
      BY <1>1, <1>4, <2>2 DEF OneMore
    <3>2. p[k] \in 1..Len(ended) /\ ended[p[k]] = q[k] + Word(k).len
      BY <1>2, <1>8, <3>1 DEF Accounted
    <3> QED
      BY <1>6, <3>1, <3>2
  <2> QED
    BY <2>1, <2>2
<1>9. Accounted(c, p2, q2)'
  BY <1>7, <1>8 DEF Accounted
<1> QED
  BY <1>9 DEF c

LEMMA MoreFilled ==
    ASSUME DisjointRuns, NEW j, NEW p, NEW q, Kept(j, p, q), NEW p2, NEW q2,
           NEW n, NEW eof \in BOOLEAN,
           OneMore(j + 1, p, q, p2, q2, n, eof), list # "written",
           NEW b, b = entries[j + 1].buf_phys,
           dram' = [a \in DOMAIN dram \cup b..b + n - 1 |->
                     IF a \in b..b + n - 1
                     THEN <<Len(ended) + 1, dma.byte + a - b>> ELSE dram[a]]
    PROVE  Filled(j + 1, p2, q2)' /\ DOMAIN dram \subseteq DOMAIN dram'
<1> DEFINE c == j + 1
           N == Len(entries)
<1>1. /\ j \in Nat /\ N \in Nat /\ c \in 1..N /\ c \in 1..c
      /\ entries[c].len \in Nat /\ entries[c].buf_phys \in Nat
      /\ \A k \in 1..c : k \in 1..N /\ (k = c \/ (k \in 1..j /\ k < c))
  BY LedgerTypes DEF OneMore
<1>2. p[c] = Len(ended) + 1 /\ q[c] = dma.byte /\ dma.byte \in Nat
  BY DEF Accounted, Kept, Ledger, Received, StreamType
<1>3. WordsRead(j) /\ Filled(j, p, q)
  BY DEF Kept, Ledger, Received
<1> HIDE DEF c
<1>4. OneMore(c, p, q, p2, q2, n, eof) /\ b = entries[c].buf_phys /\ entries' = entries
  BY DEF c, OneMore
<1>5. n \in 1..entries[c].len /\ n \in Nat /\ b \in Nat
  BY <1>1, <1>4 DEF OneMore
<1>6. DOMAIN dram \subseteq DOMAIN dram'
  OBVIOUS
<1>7. ASSUME NEW k \in 1..c, NEW x \in 0..(Word(k)'.len) - 1
      PROVE  /\ entries[k].buf_phys + x \in DOMAIN dram'
             /\ DisjointData => dram'[entries[k].buf_phys + x] = <<p2[k], q2[k] + x>>
  <2>1. CASE k = c
    <3>1. Word(k)'.len = n /\ p2[k] = Len(ended) + 1 /\ q2[k] = dma.byte
      BY <1>1, <1>2, <1>4, <2>1 DEF OneMore
    <3>2. b + x \in b..b + n - 1 /\ dma.byte + (b + x) - b = dma.byte + x
      <4> DEFINE y == dma.byte
      <4>1. x \in 0..n - 1 /\ y \in Nat
        BY <1>2, <1>7, <3>1
      <4> HIDE DEF y
      <4>2. b + x \in b..b + n - 1 /\ y + (b + x) - b = y + x
        BY <1>5, <4>1
      <4> QED
        BY <4>2 DEF y
    <3>3. b + x \in DOMAIN dram' /\ dram'[b + x] = <<Len(ended) + 1, dma.byte + x>>
      BY <3>2
    <3> QED
      BY <1>4, <2>1, <3>1, <3>3
  <2>2. CASE k # c
    <3>1. /\ k \in 1..j /\ k < c /\ k \in 1..N
          /\ Word(k)' = Word(k) /\ p2[k] = p[k] /\ q2[k] = q[k]
      BY <1>1, <1>4, <2>2 DEF OneMore
    <3> DEFINE a == entries[k].buf_phys + x
    <3>2. x \in 0..Word(k).len - 1 /\ x \in 0..entries[k].len - 1
      <4>1. Word(k).len \in 1..entries[k].len /\ entries[k].len \in Nat
        BY <1>3, <3>1, LedgerTypes DEF WordsRead
      <4> QED
        BY <1>7, <3>1, <4>1
    <3>3. a \in DOMAIN dram /\ (DisjointData => dram[a] = <<p[k], q[k] + x>>)
      BY <1>3, <3>1, <3>2 DEF Filled
    <3>4. ASSUME DisjointData PROVE a \notin b..b + n - 1
      <4> SUFFICES ASSUME a \in b..b + n - 1 PROVE FALSE
        OBVIOUS
      <4>1. PICK y \in 0..n - 1 : a = b + y
        <5>1. a - b \in 0..n - 1 /\ a = b + (a - b)
          <6> HIDE DEF a
          <6> QED
            BY <1>5
        <5> QED
          BY <5>1
      <4>2. y \in 0..entries[c].len - 1
        BY <1>1, <1>5
      <4>3. a # entries[c].buf_phys + y
        BY <1>1, <3>1, <3>2, <3>4, <4>2, TwoPlaces DEF Kept
      <4> QED
        BY <1>4, <4>1, <4>3
    <3>5. DisjointData => dram'[a] = dram[a]
      BY <3>3, <3>4
    <3> QED
      BY <1>6, <3>1, <3>3, <3>5
  <2> QED
    BY <2>1, <2>2
<1>8. Filled(c, p2, q2)'
  <2>1. DisjointData' = DisjointData
    BY DEF DisjointData
  <2> QED
    BY <1>4, <1>7, <2>1 DEF Filled
<1> QED
  BY <1>6, <1>8 DEF c

LEMMA MoreEngine ==
    ASSUME NEW j, NEW p, NEW q, Kept(j, p, q), NEW p2, NEW q2, NEW n, NEW eof,
           OneMore(j + 1, p, q, p2, q2, n, eof), list # "written",
           dma.cur = DescOf(j + 1), dma.tail = DescOf(Len(entries)),
           dma'.tail = dma.tail,
           dma'.state = IF dma.cur = dma.tail THEN "idle" ELSE "busy",
           j + 1 # Len(entries) => dma'.cur = DescOf(j + 2),
           DescOf(j + 1) = DescOf(Len(entries)) => j + 1 = Len(entries)
    PROVE  EngineAt(j + 1)'
<1>1. /\ j \in Nat /\ Len(entries) \in Nat /\ j + 1 <= Len(entries)
      /\ (j + 1) + 1 = j + 2
  BY LedgerTypes DEF OneMore
<1>2. /\ entries' = entries /\ list' = list /\ \A k : DescOf(k)' = DescOf(k)
  BY DEF OneMore, DescOf
<1>3. dma'.state = "busy" => j + 1 # Len(entries)
  BY DEF OneMore
<1>4. dma'.state # "busy" => j + 1 = Len(entries)
  OBVIOUS
<1> QED
  BY <1>1, <1>2, <1>3, <1>4 DEF EngineAt

(* A program in the middle of a dequeue, or between two. *)
LEMMA MoreTaken ==
    ASSUME NEW j, NEW p, NEW q, Kept(j, p, q), NEW p2, NEW q2, NEW n, NEW eof,
           OneMore(j + 1, p, q, p2, q2, n, eof), UNCHANGED <<to_vist, run>>
    PROVE  Taken(j + 1, p2, q2)'
<1> DEFINE c == j + 1
           N == Len(entries)
<1>1. j \in Nat /\ N \in Nat /\ c \in 1..N /\ j # N
  BY LedgerTypes DEF OneMore
<1>2. Taken(j, p, q)
  BY DEF Kept, Ledger
<1>3. /\ \A k \in 1..c : p2[k] = p[k]
      /\ \A k \in 1..N : k # c => Word(k)' = Word(k)
      /\ entries' = entries
  BY DEF OneMore
<1>4. ASSUME ~run.broken
      PROVE  /\ to_vist \in 1..N /\ to_vist - 1 <= c /\ run.taken = p2[to_vist] - 1
             /\ to_vist > 1 => Word(to_vist - 1)'.eof
  <2>1. /\ to_vist \in 1..N /\ to_vist - 1 <= j /\ run.taken = p[to_vist] - 1
        /\ to_vist > 1 => Word(to_vist - 1).eof
    BY <1>1, <1>2, <1>4 DEF Taken
  <2>2. to_vist \in 1..c /\ to_vist - 1 <= c
    BY <1>1, <2>1
  <2>3. to_vist > 1 => to_vist - 1 \in 1..N /\ to_vist - 1 # c
    BY <1>1, <2>1
  <2> QED
    BY <1>3, <2>1, <2>2, <2>3
<1>5. run.taken = 0 => to_vist = 1
  BY <1>2 DEF Taken
<1> QED
  BY <1>3, <1>4, <1>5 DEF Taken

LEMMA MoreJudged ==
    ASSUME DisjointRuns, NEW j, NEW p, NEW q, Kept(j, p, q), NEW p2, NEW q2,
           NEW n, NEW eof, OneMore(j + 1, p, q, p2, q2, n, eof),
           list # "reused", ~deq.quiet,
           deq.e \in 1..Len(entries), to_vist \in 1..deq.e,
           deq.base = entries[to_vist].data_offset,
           UNCHANGED <<to_vist, deq, pc>>, pc \in Places, Judged(j, p, q)
    PROVE  Judged(j + 1, p2, q2)'
<1> DEFINE c == j + 1
           N == Len(entries)
           e == deq.e
           v == to_vist
           s == entries[e].data_offset - deq.base
<1>1. /\ j \in Nat /\ N \in Nat /\ c \in 1..N /\ e \in Nat /\ v \in Nat
      /\ e \in 1..N /\ v \in 1..e /\ v <= e
  BY LedgerTypes DEF OneMore
<1>2. /\ IF pc \in {"len", "complete"} THEN e = v \/ e - 1 <= j ELSE e <= j
      /\ \A k \in v..e - 1 : ~Word(k).eof
      /\ pc = "return" => Word(e).eof \/ e = N
      /\ \A k \in v..e : p[k] = p[v] /\ q[k] = q[v] + entries[k].data_offset - deq.base
      /\ deq.len <= s + (IF pc = "len" THEN 0 ELSE Word(e).len)
  BY DEF Judged
<1>3. /\ \A k \in 1..c : p2[k] = p[k] /\ q2[k] = q[k]
      /\ \A k \in 1..N : k # c => Word(k)' = Word(k)
      /\ entries' = entries /\ Word(c)'.len = n /\ n \in 1..entries[c].len
      /\ p2 \in Ledgers /\ q2 \in Ledgers
  BY DEF OneMore
<1>4. IF pc \in {"len", "complete"} THEN e = v \/ e - 1 <= c ELSE e <= c
  BY <1>1, <1>2
<1>5. \A k \in v..e - 1 : ~Word(k)'.eof
  <2>1. \A k \in v..e - 1 : k \in 1..N /\ k # c
    BY <1>1, <1>2
  <2> QED
    BY <1>2, <1>3, <2>1
<1>6. pc = "return" => Word(e)'.eof \/ e = N
  <2>1. pc = "return" => e # c
    BY <1>1, <1>2
  <2> QED
    BY <1>1, <1>2, <1>3, <2>1
<1>7. \A k \in v..e : p2[k] = p2[v] /\ q2[k] = q2[v] + entries[k].data_offset - deq.base
  <2>1. CASE e = v
    <3>1. v..e = {v} /\ v \in 1..N + 1 /\ v \in 1..N
      BY <1>1, <2>1
    <3>2. q2[v] \in Nat /\ entries[v].data_offset \in Nat
      BY <1>3, <3>1, LedgerTypes DEF Ledgers
    <3>3. q2[v] = q2[v] + entries[v].data_offset - deq.base
      BY <3>2
    <3> QED
      BY <3>1, <3>3
  <2>2. CASE e # v
    <3>1. v \in 1..c /\ \A k \in v..e : k \in 1..c
      BY <1>1, <1>2, <2>2
    <3> QED
      BY <1>2, <1>3, <3>1
  <2> QED
    BY <2>1, <2>2
<1>8. deq.len <= s + (IF pc = "len" THEN 0 ELSE Word(e)'.len)
  <2>1. Word(e)' = Word(e) \/ e = c
    BY <1>1, <1>3
  <2>2. CASE pc = "len" \/ Word(e)' = Word(e)
    BY <1>2, <2>2
  <2>3. CASE pc # "len" /\ e = c
    <3>1. Word(c).len = 0
      <4>1. WordsRead(j)
        BY DEF Kept, Ledger, Received
      <4>2. c \in j + 1..N
        BY <1>1
      <4> QED
        BY <4>1, <4>2 DEF WordsRead
    <3>2. deq.len \in Nat /\ s \in Int /\ n \in Nat
      <4>1. /\ v \in 1..N /\ entries[e].data_offset \in Nat /\ entries[c].len \in Nat
        BY <1>1, LedgerTypes
      <4>2. entries[v].data_offset \in Nat
        BY <4>1, LedgerTypes
      <4> QED
        BY <1>3, <4>1, <4>2 DEF Kept, StreamType
    <3>3. deq.len <= s + 0
      BY <1>2, <2>3, <3>1
    <3>4. deq.len <= s + n
      <4> HIDE DEF s
      <4> QED
        BY <3>2, <3>3
    <3> QED
      BY <1>3, <2>3, <3>4
  <2> QED
    BY <2>1, <2>2, <2>3
<1> QED
  BY <1>3, <1>4, <1>5, <1>6, <1>7, <1>8 DEF Judged

LEMMA DmaStep ==
    ASSUME InOrder, DisjointRuns, NEW j, NEW p, NEW q, Kept(j, p, q), Got, Dma
    PROVE  /\ UNCHANGED <<entries, list>> /\ Got' /\ j + 1 \in 0..Len(entries)
           /\ \E p2, q2 \in Ledgers : Ledger(j + 1, p2, q2)'
<1>1. PICK n \in 1..mem[dma.cur].len, eof \in BOOLEAN : Receive(n, eof)
  BY DEF Dma
<1>2. PICK p2, q2 : /\ OneMore(j + 1, p, q, p2, q2, n, eof)
                    /\ dma.cur = DescOf(j + 1) /\ dma.tail = DescOf(Len(entries))
                    /\ mem[dma.cur].buf = entries[j + 1].buf_phys
                    /\ j + 1 # Len(entries) => mem[dma.cur].next = DescOf(j + 2)
  BY <1>1, DoneOne
<1> DEFINE b == mem[dma.cur].buf
<1>3. /\ dma.state = "busy"
      /\ UNCHANGED <<pc, to_vist, deq, buf, run, list, entries, data_plist>>
      /\ ended' = (IF eof THEN Append(ended, dma.byte + n) ELSE ended)
      /\ dram' = [a \in DOMAIN dram \cup b..b + n - 1 |->
                     IF a \in b..b + n - 1
                     THEN <<Len(ended) + 1, dma.byte + a - b>> ELSE dram[a]]
  BY <1>1 DEF Receive, listVars, progVars
<1>4. /\ dma'.byte = (IF eof THEN 0 ELSE dma.byte + n)
      /\ dma'.tail = dma.tail /\ dma'.cur = mem[dma.cur].next /\ dma'.sof = dma.sof
      /\ dma'.state = (IF dma.cur = dma.tail THEN "idle" ELSE "busy")
  BY <1>1, NothingSkipped DEF Receive, Kept, MemInv, MemType
<1> HIDE DEF b
<1>5. list # "written"
  BY <1>3 DEF Kept, Ledger, Received, EngineAt
<1>6. /\ j + 1 \in 1..Len(entries) /\ Len(entries) \in 1..Len(entries)
      /\ j + 1 \in 0..Len(entries) /\ p2 \in Ledgers /\ q2 \in Ledgers
  BY <1>2, LedgerTypes DEF OneMore
<1>7. Filled(j + 1, p2, q2)' /\ DOMAIN dram \subseteq DOMAIN dram'
  <2>1. b = entries[j + 1].buf_phys
    BY <1>2 DEF b
  <2> QED
    BY <1>2, <1>3, <1>5, <2>1, MoreFilled
<1>8. EngineAt(j + 1)'
  <2>1. DescOf(j + 1) = DescOf(Len(entries)) => j + 1 = Len(entries)
    BY <1>6, OneAddress DEF Kept
  <2> QED
    BY <1>2, <1>4, <1>5, <2>1, MoreEngine
<1>9. Received(j + 1, p2, q2)'
  <2>1. WordsRead(j + 1)' /\ Advances(j + 1, p2, q2)'
    BY <1>2, MoreRead
  <2>2. Accounted(j + 1, p2, q2)'
    BY <1>2, <1>3, <1>4, <1>5, MoreAccounted
  <2> QED
    BY <1>7, <1>8, <2>1, <2>2 DEF Received
<1>10. Taken(j + 1, p2, q2)'
  BY <1>2, <1>3, MoreTaken
<1>11. AtPlace(j + 1, p2, q2)'
  <2> SUFFICES ASSUME pc \in Places
               PROVE  /\ deq.e \in 1..Len(entries) /\ to_vist \in 1..deq.e
                      /\ pc = "eof" => deq.e # Len(entries)
                      /\ deq.base = entries[to_vist].data_offset
                      /\ deq.quiet => dma'.state # "busy"
                      /\ deq.code = "TRANSFER_SUCCESS" /\ ~StaleStatus(deq)' =>
                           Judged(j + 1, p2, q2)'
    BY <1>3 DEF AtPlace
  <2>1. /\ deq.e \in 1..Len(entries) /\ to_vist \in 1..deq.e
        /\ pc = "eof" => deq.e # Len(entries)
        /\ deq.base = entries[to_vist].data_offset
        /\ deq.quiet => dma.state # "busy"
        /\ deq.code = "TRANSFER_SUCCESS" /\ ~StaleStatus(deq) => Judged(j, p, q)
    BY DEF Kept, Ledger, AtPlace
  <2>2. ~deq.quiet
    BY <1>3, <2>1
  <2>3. ASSUME deq.code = "TRANSFER_SUCCESS", ~StaleStatus(deq)'
        PROVE  Judged(j + 1, p2, q2)'
    <3>1. list # "reused" /\ ~StaleStatus(deq)
      BY <1>3, <2>2, <2>3 DEF StaleStatus
    <3> QED
      BY <1>2, <1>3, <2>1, <2>2, <2>3, <3>1, MoreJudged
  <2> QED
    BY <2>1, <2>2, <2>3
<1>12. Got'
  <2> SUFFICES ASSUME pc = "got"
               PROVE  /\ buf.code = "TRANSFER_SUCCESS" => ~buf.quiet
                      /\ buf.code = "END_OF_LIST" => to_vist = NULL
                      /\ FreshSuccess'
    BY <1>3 DEF Got, DequeuedIsNthPacket
  <2>1. /\ buf.code = "TRANSFER_SUCCESS" => ~buf.quiet
        /\ buf.code = "END_OF_LIST" => to_vist = NULL
        /\ FreshSuccess
    BY <1>3 DEF Got
  <2>2. ~StaleStatus(buf)' => ~StaleStatus(buf)
    BY <1>3, <1>4 DEF StaleStatus
  <2>3. FreshSuccess'
    BY <1>3, <1>7, <2>1, <2>2 DEF FreshSuccess, Landed
  <2> QED
    BY <2>1, <2>3
<1> QED
  BY <1>3, <1>6, <1>9, <1>10, <1>11, <1>12 DEF Ledger

(* The other steps of the DMA write no word that the ledger reads. *)
LEMMA QuietDmaStep ==
    ASSUME DisjointRuns, NEW j, NEW p, NEW q, Kept(j, p, q), Got, InList,
           ReceiveFails \/ DelayIrq
    PROVE  Ledger(j, p, q)' /\ Got' /\ StreamType' /\ UNCHANGED <<entries, list>>
<1>1. UNCHANGED <<listVars, progVars, dram, ended>>
  BY DEF ReceiveFails, DelayIrq
<1>2. /\ dma'.byte = dma.byte /\ dma'.skip = dma.skip /\ dma'.sof = dma.sof
      /\ dma'.cur = dma.cur /\ dma'.tail = dma.tail
      /\ \/ dma'.state = dma.state
         \/ dma.state = "busy" /\ dma'.state = "halted"
  BY DEF ReceiveFails, DelayIrq, Kept, MemInv, MemType
<1>3. /\ UNCHANGED <<entries, sg_plist, data_plist, list, pc, to_vist, deq, buf, run>>
      /\ \A k : DescOf(k)' = DescOf(k)
  BY <1>1 DEF listVars, progVars, DescOf
<1>4. SameWords
  <2>1. CASE DelayIrq
    BY <1>3, <2>1 DEF DelayIrq, SameWords, Word
  <2>2. CASE ReceiveFails
    <3> SUFFICES ASSUME NEW k \in 1..Len(entries)
                 PROVE  /\ Word(k)'.len = Word(k).len /\ Word(k)'.eof = Word(k).eof
                        /\ Word(k)'.complete = Word(k).complete
      BY DEF SameWords
    <3>1. mem' = [mem EXCEPT ![dma.cur].status.err = TRUE]
      BY <2>2 DEF ReceiveFails
    <3> DEFINE a == DescOf(k)
    <3>2. a \in DOMAIN mem /\ mem[a] \in Desc /\ Word(k) \in StatusWord
      BY OwnDescriptor DEF Kept
    <3>3. CASE a # dma.cur
      <4>1. mem'[a] = mem[a]
        BY <3>1, <3>2, <3>3
      <4> QED
        BY <1>3, <4>1 DEF Word
    <3>4. CASE a = dma.cur
      <4>1. mem'[a] = [mem[a] EXCEPT !.status = [mem[a].status EXCEPT !.err = TRUE]]
        BY <3>1, <3>2, <3>4
      <4>2. mem'[a].status = [mem[a].status EXCEPT !.err = TRUE]
        BY <3>2, <4>1 DEF Desc
      <4>3. mem[a].status \in StatusWord
        BY <3>2 DEF Desc
      <4>4. /\ mem'[a].status.len = mem[a].status.len
            /\ mem'[a].status.eof = mem[a].status.eof
            /\ mem'[a].status.complete = mem[a].status.complete
        BY <4>2, <4>3 DEF StatusWord
      <4> QED
        BY <1>3, <4>4 DEF Word
    <3> QED
      BY <3>3, <3>4
  <2> QED
    BY <2>1, <2>2
<1>5. Len(entries) \in Nat
  BY LedgerTypes
<1>6. Received(j, p, q)'
  <2>1. Received(j, p, q) /\ j \in 0..Len(entries)
    BY DEF Kept, Ledger
  <2>2. EngineAt(j)'
    BY <1>2, <1>3, <2>1 DEF Received, EngineAt
  <2> QED
    BY <1>1, <1>2, <1>3, <1>4, <1>5, <2>1, <2>2, ReceivedStays
<1>7. Taken(j, p, q)' /\ AtPlace(j, p, q)'
  BY <1>2, <1>3, <1>4, <1>5, ProgramStays DEF Kept, Ledger
<1>8. Got'
  <2> SUFFICES ASSUME pc = "got"
               PROVE  /\ buf.code = "TRANSFER_SUCCESS" /\ buf.quiet => dma'.state # "busy"
                      /\ buf.code = "END_OF_LIST" => to_vist = NULL
                      /\ FreshSuccess'
                      /\ DisjointData => DequeuedIsNthPacket'
    BY <1>3 DEF Got, DisjointData
  <2>1. /\ buf.code = "TRANSFER_SUCCESS" /\ buf.quiet => dma.state # "busy"
        /\ buf.code = "END_OF_LIST" => to_vist = NULL
        /\ FreshSuccess
        /\ DisjointData => DequeuedIsNthPacket
    BY DEF Got
  <2>2. ~StaleStatus(buf)' => ~StaleStatus(buf)
    BY <1>2, <1>3 DEF StaleStatus
  <2>3. FreshSuccess'
    BY <1>1, <1>3, <2>1, <2>2 DEF FreshSuccess, Landed
  <2>4. DequeuedIsNthPacket' <=> DequeuedIsNthPacket
    BY <1>1, <1>3 DEF DequeuedIsNthPacket, HoldsThisPacket, ThisPacket
  <2> QED
    BY <1>2, <2>1, <2>3, <2>4
<1>9. StreamType'
  BY <1>1, <1>2, <1>3, StreamTypeSame DEF Kept
<1> QED
  BY <1>3, <1>6, <1>7, <1>8, <1>9 DEF Ledger

-----------------------------------------------------------------------------
(* A transfer starts from the first descriptor, at the stream's next byte. *)
LEMMA FreshLedger ==
    ASSUME NEW N \in Nat \ {0}, N = Len(entries), NEW b \in Nat
    PROVE  /\ 0 \in 0..N /\ 1 \in 1..N /\ 1..0 = {} /\ 0 < N
           /\ 0 + 1 = 1 /\ 1 - 1 = 0 /\ ~(1 > 1) /\ 0 <= 0
           /\ \E p, q \in Ledgers : p[1] = 1 /\ q[1] = b
<1>1. \A c \in Nat : /\ [k \in 1..N + 1 |-> c] \in Ledgers
                     /\ [k \in 1..N + 1 |-> c][1] = c
  BY DEF Ledgers
<1>2. /\ [k \in 1..N + 1 |-> 1] \in Ledgers /\ [k \in 1..N + 1 |-> b] \in Ledgers
      /\ [k \in 1..N + 1 |-> 1][1] = 1 /\ [k \in 1..N + 1 |-> b][1] = b
  BY <1>1
<1> QED
  BY <1>2

LEMMA TransferStep ==
    ASSUME NEW j, NEW p, NEW q, Kept(j, p, q), NEW w, NEW t, Transfer(w, t)
    PROVE  /\ UNCHANGED entries /\ list' # "new" /\ Got'
           /\ \E p2, q2 \in Ledgers : Ledger(0, p2, q2)'
<1> DEFINE N == Len(entries)
<1>1. /\ UNCHANGED <<entries, sg_plist, mem, to_vist>>
      /\ list' = IF list = "written" THEN "used" ELSE "reused"
      /\ pc' \in {"wait", "idle"} /\ ended' = <<>>
      /\ run' = [run EXCEPT !.transfers = @ + 1, !.broken = @ \/ run.taken # 0]
      /\ \A k : DescOf(k)' = DescOf(k) /\ Word(k)' = Word(k)
  BY DEF Transfer, listVars, DescOf, Word
<1>2. /\ dma'.byte = dma.byte
      /\ \/ dma'.state = "halted"
         \/ /\ dma'.state = "busy" /\ dma'.cur = DescOf(1)
            /\ dma'.tail = DescOf(Len(entries))
  BY DEF Transfer, Kept, MemInv, MemType
<1>3. N \in Nat \ {0} /\ dma.byte \in Nat /\ 0 < N
  BY LedgerTypes DEF Kept, StreamType
<1>4. /\ 0 \in 0..N /\ 1 \in 1..N /\ 1..0 = {}
      /\ 0 + 1 = 1 /\ 1 - 1 = 0 /\ ~(1 > 1) /\ 0 <= 0
      /\ \E p2, q2 \in Ledgers : p2[1] = 1 /\ q2[1] = dma.byte
  BY <1>3, FreshLedger
<1>5. PICK p2, q2 \in Ledgers : p2[1] = 1 /\ q2[1] = dma.byte
  BY <1>4
<1>6. WordsRead(0)'
  <2>1. list = "written" => j = 0 /\ WordsRead(0)
    BY DEF Kept, Ledger, Received, EngineAt
  <2> QED
    BY <1>1, <1>4, <2>1 DEF WordsRead
<1>7. Advances(0, p2, q2)' /\ Filled(0, p2, q2)'
  BY <1>4, <1>5 DEF Advances, Filled
<1>8. Accounted(0, p2, q2)'
  <2>1. Len(<<>>) + 1 = 1
    OBVIOUS
  <2> QED
    BY <1>1, <1>2, <1>4, <1>5, <2>1 DEF Accounted
<1>9. EngineAt(0)'
  BY <1>1, <1>2, <1>3, <1>4 DEF EngineAt
<1>10. Taken(0, p2, q2)'
  <2>1. run'.taken = run.taken /\ (~run'.broken => run.taken = 0)
    BY <1>1 DEF Kept, StreamType
  <2>2. run.taken = 0 => to_vist = 1
    BY DEF Kept, Ledger, Taken
  <2> QED
    BY <1>1, <1>4, <1>5, <2>1, <2>2 DEF Taken
<1>11. AtPlace(0, p2, q2)' /\ Got'
  BY <1>1 DEF AtPlace, Places, Got
<1>12. Ledger(0, p2, q2)'
  BY <1>6, <1>7, <1>8, <1>9, <1>10, <1>11 DEF Ledger, Received
<1> QED
  BY <1>1, <1>11, <1>12

(* The list that s2mm_write_sg_list leaves is all empty descriptors. *)
LEMMA WriteStep ==
    ASSUME SgInv, StreamType, WriteSgList
    PROVE  /\ UNCHANGED entries /\ list' # "new" /\ Got' /\ StreamType'
           /\ \E p2, q2 \in Ledgers : Ledger(0, p2, q2)'
<1> DEFINE N == Len(entries)
<1>1. /\ UNCHANGED <<entries, sg_plist, pc, deq, buf, dma, ended>>
      /\ pc = "idle" /\ entries # <<>> /\ dma.state # "busy"
      /\ list' = "written" /\ to_vist' = 1
      /\ run' = [run EXCEPT !.taken = 0, !.broken = FALSE]
      /\ \A k : DescOf(k)' = DescOf(k)
  BY DEF WriteSgList, listVars, dmaVars, DescOf
<1>2. N \in Nat \ {0} /\ DOMAIN entries = 1..N
  BY <1>1 DEF SgInv, ListType
<1>3. /\ 0 \in 0..N /\ 1 \in 1..N /\ 1..0 = {}
      /\ 0 + 1 = 1 /\ 1 - 1 = 0 /\ ~(1 > 1) /\ 0 <= 0
      /\ \E p2, q2 \in Ledgers : p2[1] = 1 /\ q2[1] = 0
  BY <1>2, FreshLedger
<1>4. PICK p2, q2 \in Ledgers : p2[1] = 1 /\ q2[1] = 0
  BY <1>3
<1>5. \A k \in 1..N : Word(k)' = NoStatus
  <2>1. PICK o : mem' = [a \in {DescOf(k) : k \in DOMAIN entries} |->
                           Descriptor(CHOOSE k \in DOMAIN entries : a = DescOf(k), o)]
    BY DEF WriteSgList
  <2>2. \A k \in 1..N : mem'[DescOf(k)].status = NoStatus
    BY <1>2, <2>1 DEF Descriptor
  <2> QED
    BY <1>1, <2>2 DEF Word
<1>6. WordsRead(0)'
  BY <1>1, <1>3, <1>5 DEF WordsRead, NoStatus
<1>7. Advances(0, p2, q2)' /\ Filled(0, p2, q2)'
  BY <1>3, <1>4 DEF Advances, Filled
<1>8. Accounted(0, p2, q2)' /\ EngineAt(0)'
  BY <1>1, <1>3 DEF Accounted, EngineAt
<1>9. StreamType' /\ run'.taken = 0 /\ run'.broken = FALSE
  BY <1>1, RunReset
<1>10. Taken(0, p2, q2)'
  BY <1>1, <1>3, <1>9, <1>4 DEF Taken
<1>11. AtPlace(0, p2, q2)' /\ Got'
  BY <1>1 DEF AtPlace, Places, Got
<1>12. Ledger(0, p2, q2)'
  BY <1>6, <1>7, <1>8, <1>10, <1>11 DEF Ledger, Received
<1> QED
  BY <1>1, <1>9, <1>11, <1>12

-----------------------------------------------------------------------------
(* The ledger is kept. *)

LEMMA StreamInit == S2mmInit => StreamInv
<1> SUFFICES ASSUME S2mmInit PROVE StreamInv
  OBVIOUS
<1>1. /\ list = "new" /\ pc = "none" /\ dma.byte = 0 /\ ~dma.skip /\ ended = <<>> /\ deq = NoDeq
      /\ run = [transfers |-> 0, taken |-> 0, broken |-> FALSE]
  BY DEF S2mmInit, Init
<1>2. StreamType
  BY <1>1 DEF StreamType, NoDeq, NULL
<1> QED
  BY <1>1, <1>2 DEF StreamInv, Got, Places

LEMMA DequeueInitInv == S2mmInit => DequeueInv
BY S2mmInitInv, PlacedInit, StreamInit DEF DequeueInv, S2mmInit

(* Steps that leave the list to be written again. *)
LEMMA NewList ==
    ASSUME StreamInv, MemInv, SgInv, Build \/ Extend \/ Delete
    PROVE  StreamInv'
<1>1. UNCHANGED <<deq, run, dma, ended>>
  BY DEF Build, Extend, Delete, dmaVars
<1>2. list' = "new" /\ pc' \in {"none", "add", "idle"}
  <2>1. CASE Build
    <3>1. pc \in {"none", "add"} /\ list' = list
      BY <2>1, BuildingGrows DEF Build, ListNew
    <3> QED
      BY <2>1, <3>1, BuildKeeps DEF MemInv, ListWritten
  <2>2. CASE Extend
    BY <2>2, ExtendKeeps DEF Extend
  <2>3. CASE Delete
    BY <2>3, DeleteKeeps DEF Delete
  <2> QED
    BY <2>1, <2>2, <2>3
<1>3. StreamType'
  BY <1>1, StreamTypeSame DEF StreamInv
<1> QED
  BY <1>2, <1>3 DEF StreamInv, Got, Places

LEMMA NoLedger ==
    ASSUME StreamType', list' = "new", pc' \notin Places \cup {"got"}
    PROVE  StreamInv'
BY DEF StreamInv, Got, Places

LEMMA LedgerOf ==
    ASSUME S2mmInv, PlacedInv, StreamInv, list # "new"
    PROVE  \E j \in 0..Len(entries) : \E p, q \in Ledgers : Kept(j, p, q)
BY DEF S2mmInv, StreamInv, Kept

(* A ledger found again after a step keeps the invariant. *)
LEMMA LedgerKept ==
    ASSUME StreamType', Got', list' # "new", UNCHANGED entries,
           NEW j \in 0..Len(entries), \E p, q \in Ledgers : Ledger(j, p, q)'
    PROVE  StreamInv'
BY DEF StreamInv, Ledgers

LEMMA StreamNext ==
    ASSUME NoWrap, DisjointRuns, InOrder,
           S2mmInv, PlacedInv, StreamInv, [S2mmNext]_svars
    PROVE  StreamInv'
<1>1. SgInv /\ MemInv /\ InList /\ StreamType /\ Got
  BY DEF S2mmInv, StreamInv
<1>2. CASE Build \/ Extend \/ Delete
  BY <1>1, <1>2, NewList
<1>3. CASE WriteSgList
  <2>1. /\ UNCHANGED entries /\ list' # "new" /\ Got' /\ StreamType'
        /\ \E p, q \in Ledgers : Ledger(0, p, q)'
    BY <1>1, <1>3, WriteStep
  <2>2. 0 \in 0..Len(entries)
    BY <1>1 DEF SgInv, ListType
  <2> QED
    BY <2>1, <2>2, LedgerKept
<1>4. ASSUME NEW w \in WaitIrq, NEW t \in Timeouts, Transfer(w, t)
      PROVE  StreamInv'
  <2>1. PICK j \in 0..Len(entries), p \in Ledgers, q \in Ledgers : Kept(j, p, q)
    BY <1>4, LedgerOf DEF Transfer
  <2>2. /\ UNCHANGED entries /\ list' # "new" /\ Got'
        /\ \E p2, q2 \in Ledgers : Ledger(0, p2, q2)'
    BY <1>4, <2>1, TransferStep
  <2>3. 0 \in 0..Len(entries)
    BY <2>1, LedgerTypes
  <2>4. StreamType'
    BY <1>1, <1>4, TransferType
  <2> QED
    BY <2>2, <2>3, <2>4, LedgerKept
<1>5. CASE Dma
  <2>1. UNCHANGED <<entries, pc, list>>
    BY <1>5 DEF Dma, Receive, listVars, progVars
  <2>2. StreamType'
    BY <1>1, <1>5, DmaType
  <2>3. CASE list = "new"
    BY <1>1, <2>1, <2>2, <2>3, NoLedger DEF StreamInv
  <2>4. CASE list # "new"
    <3>1. PICK j \in 0..Len(entries), p \in Ledgers, q \in Ledgers : Kept(j, p, q)
      BY <2>4, LedgerOf
    <3>2. /\ Got' /\ j + 1 \in 0..Len(entries)
          /\ \E p2, q2 \in Ledgers : Ledger(j + 1, p2, q2)'
      BY <1>1, <1>5, <3>1, DmaStep
    <3> QED
      BY <2>1, <2>2, <2>4, <3>2, LedgerKept
  <2> QED
    BY <2>3, <2>4
<1>6. CASE ReceiveFails \/ DelayIrq \/ WaitReturns \/ Consumed \/ ResetTraversal
  <2>1. CASE list = "new"
    <3>1. /\ UNCHANGED <<deq, run, ended, list>>
          /\ dma'.byte = dma.byte /\ dma'.skip = dma.skip
          /\ pc' \in {pc, "idle"}
      BY <1>1, <1>6, <2>1 DEF StreamInv, ReceiveFails, DelayIrq, WaitReturns, Consumed,
         ResetTraversal, DequeueUnchanged, progVars, dmaVars, MemInv, MemType
    <3>2. StreamType'
      BY <1>1, <3>1, StreamTypeSame
    <3> QED
      BY <2>1, <3>1, <3>2, NoLedger DEF StreamInv, Places
  <2>2. CASE list # "new"
    <3>1. PICK j \in 0..Len(entries), p \in Ledgers, q \in Ledgers : Kept(j, p, q)
      BY <2>2, LedgerOf
    <3>2. Ledger(j, p, q)' /\ Got' /\ StreamType' /\ UNCHANGED <<entries, list>>
      BY <1>1, <1>6, <3>1, QuietDmaStep, IdleStep
    <3> QED
      BY <2>2, <3>1, <3>2, LedgerKept
  <2> QED
    BY <2>1, <2>2
<1>7. CASE Dequeuing
  <2>1. list # "new"
    BY <1>7 DEF Dequeuing, DequeueEnd, Dequeue, ReadLen, ReadComplete, ReadEof,
                DequeueReturns, StreamInv, Places
  <2>2. PICK j \in 0..Len(entries), p \in Ledgers, q \in Ledgers : Kept(j, p, q)
    BY <2>1, LedgerOf
  <2>3. Ledger(j, p, q)' /\ Got' /\ UNCHANGED <<entries, list>>
    BY <1>7, <2>2, DequeueingStep
  <2>4. pc \in Places => deq.e \in 1..Len(entries)
    BY <2>2 DEF Kept, Ledger, AtPlace
  <2>5. StreamType'
    BY <1>1, <1>7, <2>1, <2>4, DequeueingType
  <2> QED
    BY <2>1, <2>2, <2>3, <2>5, LedgerKept
<1>8. CASE UNCHANGED svars
  <2>1. /\ UNCHANGED <<entries, sg_plist, data_plist, mem, dram, ended, list, dma>>
        /\ UNCHANGED <<pc, to_vist, deq, buf, run>>
    BY <1>8 DEF svars, listVars, progVars, dmaVars
  <2>2. StreamType'
    BY <1>1, <2>1, StreamTypeSame
  <2>3. CASE list = "new"
    BY <2>1, <2>2, <2>3, NoLedger DEF StreamInv
  <2>4. CASE list # "new"
    <3>1. PICK j \in 0..Len(entries), p \in Ledgers, q \in Ledgers : Kept(j, p, q)
      BY <2>4, LedgerOf
    <3>2. Received(j, p, q)' /\ SameWords
      BY <2>1, <3>1, MemoryStays DEF Kept, Ledger
    <3>3. Taken(j, p, q)' /\ AtPlace(j, p, q)'
      BY <2>1, <3>1, <3>2, ProgramStays, LedgerTypes DEF Kept, Ledger
    <3>4. Got'
      <4>1. /\ FreshSuccess' <=> FreshSuccess
            /\ DequeuedIsNthPacket' <=> DequeuedIsNthPacket
        BY <2>1 DEF FreshSuccess, Landed, StaleStatus, DequeuedIsNthPacket, HoldsThisPacket,
                    ThisPacket
      <4> QED
        BY <1>1, <2>1, <4>1 DEF Got, DisjointData
    <3> QED
      BY <2>1, <2>2, <2>4, <3>1, <3>2, <3>3, <3>4, LedgerKept DEF Ledger
  <2> QED
    BY <2>3, <2>4
<1>9. CASE Skip
  BY <1>1, <1>9 DEF Skip, StreamType
<1> QED
  BY <1>2, <1>3, <1>4, <1>5, <1>6, <1>7, <1>8, <1>9 DEF S2mmNext

LEMMA DequeueNextInv ==
    ASSUME NoWrap, DisjointRuns, InOrder, DequeueInv, [S2mmNext]_svars
    PROVE  DequeueInv'
<1>1. SgInv /\ MemInv
  BY DEF DequeueInv, S2mmInv
<1> QED
  BY <1>1, S2mmNextInv, S2mmPlaced, StreamNext DEF DequeueInv

-----------------------------------------------------------------------------
(* What the buffers are. *)

LEMMA InvEndMeansAll == DequeueInv => EndMeansAll
<1> SUFFICES ASSUME DequeueInv, pc = "got", buf.code = "END_OF_LIST", ~run.broken
             PROVE  run.taken = Len(ended) + (IF dma.byte = 0 THEN 0 ELSE 1)
  BY DEF EndMeansAll, ThisPacket
<1>1. list # "new" /\ to_vist = NULL
  BY DEF DequeueInv, StreamInv, Got
<1>2. PICK j \in 0..Len(entries), p \in Ledgers, q \in Ledgers : Kept(j, p, q)
  BY <1>1, LedgerOf DEF DequeueInv
<1> DEFINE n == Len(entries)
<1>3. n \in Nat \ {0} /\ NULL \notin 1..n
  BY <1>2, LedgerTypes DEF NULL
<1>4. j = n /\ run.taken = p[n + 1] - 1 + (IF q[n + 1] = 0 THEN 0 ELSE 1)
  BY <1>1, <1>2, <1>3 DEF Kept, Ledger, Taken
<1>5. list # "written"
  BY <1>2, <1>3, <1>4 DEF Kept, Ledger, Received, EngineAt
<1>6. p[n + 1] = Len(ended) + 1 /\ q[n + 1] = dma.byte
  BY <1>2, <1>4, <1>5 DEF Kept, Ledger, Received, Accounted
<1>7. Len(ended) \in Nat
  BY <1>2 DEF Kept, StreamType
<1> QED
  BY <1>4, <1>6, <1>7

(* FreshSuccess: a buffer dequeued as a success, while the DMA runs or     *)
(* after it, lies in bytes that this transfer has received; the complete   *)
(* bits it was judged by are not left over from another one.  For a DMA    *)
(* that fills one descriptor after another (InOrder) and a descriptor      *)
(* buffer in which no descriptor is placed past a run (NoWrap).            *)
THEOREM FreshBuffers ==
    ASSUME InOrder, NoWrap, DisjointRuns
    PROVE  S2mmSpec => []FreshSuccess
<1>1. DequeueInv /\ [S2mmNext]_svars => DequeueInv'
  BY DequeueNextInv
<1>2. DequeueInv => FreshSuccess
  BY DEF DequeueInv, StreamInv, Got, FreshSuccess
<1> QED
  BY <1>1, <1>2, DequeueInitInv, PTL DEF S2mmSpec

(* EndMeansAll: axidma_dequeue_s2mm_buf returns END_OF_LIST only when      *)
(* every packet of the transfer has been dequeued, one that the list was   *)
(* too short for included, unless a failure was reported on the way.       *)
(* Under the same hypotheses as FreshBuffers.                              *)
THEOREM AllDequeued ==
    ASSUME InOrder, NoWrap, DisjointRuns
    PROVE  S2mmSpec => []EndMeansAll
<1>1. DequeueInv /\ [S2mmNext]_svars => DequeueInv'
  BY DequeueNextInv
<1> QED
  BY <1>1, DequeueInitInv, InvEndMeansAll, PTL DEF S2mmSpec

(* DequeuedIsNthPacket: the n-th buffer dequeued as a success after the    *)
(* DMA has stopped is the n-th packet of the transfer, all of it and in    *)
(* order.  Packets may be shorter or longer than their chunks only if the  *)
(* DMA fills one descriptor after another all the same (InOrder); what     *)
(* modules/axidma/README.md has the DMA do then is left to TLC.  No        *)
(* descriptor may be placed past a run (NoWrap), and neither buffer has    *)
(* runs that overlap.                                                      *)
THEOREM PacketsInOrder ==
    ASSUME InOrder, NoWrap, DisjointRuns, DisjointData
    PROVE  S2mmSpec => []DequeuedIsNthPacket
<1>1. DequeueInv /\ [S2mmNext]_svars => DequeueInv'
  BY DequeueNextInv
<1>2. DequeueInv => DequeuedIsNthPacket
  BY DEF DequeueInv, StreamInv, Got, DequeuedIsNthPacket
<1> QED
  BY <1>1, <1>2, DequeueInitInv, PTL DEF S2mmSpec
=============================================================================
