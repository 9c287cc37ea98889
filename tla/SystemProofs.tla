---------------------------- MODULE SystemProofs ----------------------------
(***************************************************************************)
(* Proofs about the program around the transfers (System), for any buffers *)
(* and calls.  The lists and the descriptors in memory are taken from      *)
(* S2mmProofs: what main does beside its transfers touches neither.        *)
(***************************************************************************)
EXTENDS System, S2mmProofs

-----------------------------------------------------------------------------
(* The program around the transfers. *)

(* The DMA has done the entries before k of the list it was started with,  *)
(* and has counted the packets that ended in them.                         *)
AtWork ==
    /\ dma.tail = DescOf(Len(entries)) /\ dma.threshold = Eofs(Len(entries)) /\ ~dma.skip
    /\ \E k \in 1..Len(entries) : dma.cur = DescOf(k) /\ dma.count = Eofs(k - 1)

(* What main has pinned is what its list uses. *)
AtHome ==
    /\ pc # "none" => proc = "running" /\ sg_plist = bufs.sg /\ data_plist = bufs.data
    /\ DOMAIN pinned = Bufs
    /\ proc \in {"sg", "running", "closed"} => pinned["sg"] = PagesOf(bufs.sg)
    /\ proc \in {"running", "closed"} => pinned["data"] = PagesOf(bufs.data)

(* Nothing interrupts a program but the end of the transfer it waits for,  *)
(* and the DMA runs only while it waits.                                   *)
Calm ==
    /\ pc = "wait" => list # "new"
    /\ ~stray =>
         /\ ~(dma.timeout /\ dma.count > 0)
         /\ dma.state = "busy" => pc = "wait" /\ ~dma.timeout /\ ~uio /\ AtWork
         /\ pc # "wait" /\ proc \notin {"none", "dying"} => ~uio

SystemInv == SgInv /\ PlacedInv /\ MemInv /\ AtHome /\ Calm

(* What the wait's meaning the end of the DMA rests on: the stream ends a  *)
(* packet in the last descriptor of each chunk and nowhere else, no        *)
(* descriptor is placed past a run, runs do not overlap, and the           *)
(* descriptor buffer has room for fewer descriptors than the field of the  *)
(* interrupt threshold has values.                                         *)
Streamed == OneEach /\ NoWrap /\ DisjointRuns /\ FewDescriptors

LEMMA SystemInitInv == SystemInit => SystemInv
<1> SUFFICES ASSUME SystemInit PROVE SystemInv
  OBVIOUS
<1>1. SgInv /\ MemInv /\ PlacedInv
  BY S2mmInitInv, PlacedInit DEF SystemInit, S2mmInit, S2mmInv
<1>2. /\ pc = "none" /\ proc = "none" /\ DOMAIN pinned = Bufs
      /\ dma.state = "idle" /\ dma.timeout = FALSE
  BY DEF SystemInit, S2mmInit, Init, Pinner!Init
<1> QED
  BY <1>1, <1>2 DEF SystemInv, AtHome, Calm

LEMMA Unmoved ==
    ASSUME SgInv, PlacedInv, MemInv, UNCHANGED <<listVars, pc, list, mem, dma>>
    PROVE  SgInv' /\ PlacedInv' /\ MemInv'
<1>1. UNCHANGED <<sg_plist, data_plist, entries, offsets, add>>
  BY DEF listVars
<1>2. SgInv' /\ PlacedInv'
  BY <1>1, SgKeeps, PlacedKeeps
<1>3. MemInv'
  <2>1. MemType'
    BY <1>1 DEF MemInv, MemType
  <2>2. ListWritten'
    BY <1>1 DEF MemInv, ListWritten, Described, IsFor, DescOf
  <2> QED
    BY <2>1, <2>2 DEF MemInv
<1> QED
  BY <1>2, <1>3

(* main, but for its library calls. *)
Main == \/ AxidmaOpen \/ PinnerOpen \/ AxidmaClose \/ PinnerClose \/ Dead
        \/ \E q \in Bufs : PinBuf(q) \/ UnpinBuf(q) \/ Releases(q)

LEMMA MainIs ==
    ASSUME pc # "none" => proc = "running", Main
    PROVE  /\ pc = "none" /\ bufs' = bufs
           /\ UNCHANGED <<listVars, pc, list, mem, dma, ended>>
           /\ \/ stray' = Restless /\ uio' = FALSE
              \/ /\ stray' = stray /\ uio' = uio
                 /\ proc \in {"none", "dying"} => proc' \in {"none", "dying"}
<1>1. CASE AxidmaOpen
  <2>1. proc = "none" /\ stray' = Restless /\ uio' = FALSE
        /\ UNCHANGED <<listVars, pc, list, mem, dma, ended, bufs>>
    BY <1>1 DEF AxidmaOpen, Advance
  <2>2. pc = "none"
    BY <2>1
  <2> QED
    BY <2>1, <2>2
<1>2. CASE PinnerOpen
  BY <1>2 DEF PinnerOpen, Advance, svars, progVars, dmaVars
<1>3. CASE AxidmaClose
  BY <1>3 DEF AxidmaClose, Advance, svars, progVars, dmaVars
<1>4. CASE PinnerClose
  BY <1>4 DEF PinnerClose, Advance, svars, progVars, dmaVars
<1>5. CASE Dead
  BY <1>5 DEF Dead, Advance, svars, progVars, dmaVars
<1>6. ASSUME NEW q \in Bufs, PinBuf(q) \/ UnpinBuf(q)
      PROVE  /\ UNCHANGED <<svars, bufs, stray>>
             /\ proc \in {"pinner", "sg", "closed", "data_unpinned"}
  BY <1>6 DEF PinBuf, UnpinBuf, Advance
<1>7. ASSUME NEW q \in Bufs, Releases(q)
      PROVE  UNCHANGED <<svars, bufs, stray>> /\ proc = "dying" /\ proc' = proc
  BY <1>7 DEF Releases
<1>8. CASE \E q \in Bufs : PinBuf(q) \/ UnpinBuf(q) \/ Releases(q)
  <2>1. /\ UNCHANGED <<svars, bufs, stray>>
        /\ \/ proc \in {"pinner", "sg", "closed", "data_unpinned"}
           \/ proc = "dying" /\ proc' = proc
    BY <1>6, <1>7, <1>8
  <2>2. UNCHANGED <<listVars, pc, list, mem, dma, ended, uio>>
    BY <2>1 DEF svars, progVars, dmaVars
  <2> QED
    BY <2>1, <2>2
<1> QED
  BY <1>1, <1>2, <1>3, <1>4, <1>5, <1>8 DEF Main

LEMMA MainHome ==
    ASSUME AtHome, Main
    PROVE  AtHome'
<1>1. pc = "none" /\ pc' = pc /\ bufs' = bufs
  BY MainIs DEF AtHome
<1>2. PagesOf(bufs.sg)' = PagesOf(bufs.sg) /\ PagesOf(bufs.data)' = PagesOf(bufs.data)
  BY <1>1
<1>3. CASE AxidmaOpen \/ AxidmaClose
  BY <1>1, <1>2, <1>3 DEF AxidmaOpen, AxidmaClose, Advance, AtHome, pinnerVars
<1>4. CASE PinnerOpen
  BY <1>1, <1>2, <1>4 DEF PinnerOpen, Advance, AtHome, Pinner!Open
<1>5. CASE PinnerClose \/ Dead
  BY <1>1, <1>2, <1>5 DEF PinnerClose, Dead, Advance, AtHome, Pinner!Close, pinnerVars
<1>6. ASSUME NEW q \in Bufs, PinBuf(q) PROVE AtHome'
  BY <1>1, <1>2, <1>6 DEF PinBuf, Advance, AtHome, Pinner!Pin, Bufs
<1>7. ASSUME NEW q \in Bufs, UnpinBuf(q) PROVE AtHome'
  BY <1>1, <1>2, <1>7 DEF UnpinBuf, Advance, AtHome, Pinner!Unpin, Bufs
<1>8. ASSUME NEW q \in Bufs, Releases(q) PROVE AtHome'
  BY <1>1, <1>2, <1>8 DEF Releases, AtHome, Pinner!Unpin, Bufs
<1> QED
  BY <1>3, <1>4, <1>5, <1>6, <1>7, <1>8 DEF Main

LEMMA MainKeeps ==
    ASSUME SystemInv, Main
    PROVE  SystemInv'
<1> USE DEF SystemInv
<1>1. /\ pc = "none" /\ UNCHANGED <<listVars, pc, list, mem, dma>>
      /\ \/ stray' = Restless /\ uio' = FALSE
         \/ /\ stray' = stray /\ uio' = uio
            /\ proc \in {"none", "dying"} => proc' \in {"none", "dying"}
  BY MainIs DEF AtHome
<1>2. SgInv' /\ PlacedInv' /\ MemInv'
  BY <1>1, Unmoved
<1>3. ASSUME stray' = Restless, uio' = FALSE PROVE Calm'
  BY <1>1, <1>3 DEF Calm, Restless
<1>4. ASSUME stray' = stray, uio' = uio,
             proc \in {"none", "dying"} => proc' \in {"none", "dying"}
      PROVE  Calm'
  BY <1>1, <1>4 DEF Calm
<1> QED
  BY <1>1, <1>2, <1>3, <1>4, MainHome

(* Death takes the list and leaves the rest. *)
LEMMA DiesKeeps ==
    ASSUME SystemInv, Dies
    PROVE  SystemInv'
<1> USE DEF SystemInv
<1>1. /\ pc' = "none" /\ proc' = "dying" /\ list' = "new"
      /\ sg_plist' = <<>> /\ data_plist' = <<>>
      /\ entries' = <<>> /\ offsets' = [sg |-> 0, data |-> 0]
      /\ stray' = (stray \/ dma.state = "busy")
      /\ UNCHANGED <<mem, dma, bufs, pinned>>
  BY DEF Dies, dmaVars, pinnerVars
<1>2. <<>> \in Seq(Entry) /\ Len(<<>>) = 0
  OBVIOUS
<1>3. SgInv'
  <2>1. ListType'
    BY <1>1, <1>2 DEF ListType, Empty
  <2>2. Len(entries') = 0 /\ offsets'.data = 0
    BY <1>1, <1>2
  <2>3. Follow(entries', 0, 0) /\ WellFramed(entries')
    BY <1>1, <2>2 DEF Follow, WellFramed
  <2>4. ListTiles'
    BY <2>2, <2>3 DEF ListTiles
  <2> QED
    BY <1>1, <2>1, <2>4 DEF SgInv
<1>4. PlacedInv'
  BY <1>1, PlacedEmpty DEF Empty
<1>5. MemInv' /\ AtHome'
  BY <1>1 DEF MemInv, MemType, ListWritten, AtHome
<1>6. Calm'
  BY <1>1 DEF Calm
<1> QED
  BY <1>3, <1>4, <1>5, <1>6

-----------------------------------------------------------------------------
(* The library's calls. *)

(* The calls that may be made between transfers. *)
Quiet == BuildHere \/ Extend \/ Delete \/ WriteSgList \/ Dequeuing \/ Consumed

LEMMA QuietPc ==
    ASSUME Quiet
    PROVE  pc # "wait" /\ pc' # "wait" /\ UNCHANGED <<dma, uio>>
<1>1. CASE BuildHere
  <2>1. pc # "wait" /\ pc' # "wait"
    BY <1>1 DEF BuildHere, Build, ListNew, Building, NoDescriptor, NoMemory, NextPart,
                NoNextPart, LastPart, AddFails, AddReturns
  <2> QED
    BY <1>1, <2>1 DEF BuildHere, Build, dmaVars
<1>2. CASE Extend
  BY <1>2 DEF Extend, AddEntry, AddFails, AddReturns, dmaVars
<1>3. CASE Delete
  BY <1>3 DEF Delete, ListDel, dmaVars
<1>4. CASE WriteSgList
  BY <1>4 DEF WriteSgList, dmaVars
<1>5. CASE Dequeuing
  BY <1>5 DEF Dequeuing, DequeueEnd, Dequeue, ReadLen, ReadComplete, ReadEof,
              DequeueReturns, DequeueUnchanged, dmaVars
<1>6. CASE Consumed
  BY <1>6 DEF Consumed, DequeueUnchanged, dmaVars
<1> QED
  BY <1>1, <1>2, <1>3, <1>4, <1>5, <1>6 DEF Quiet

(* What is in the list and in memory, after any call. *)
LEMMA LibraryKeeps ==
    ASSUME NoWrap, SgInv, PlacedInv, MemInv, Quiet \/ Looking
    PROVE  /\ SgInv' /\ PlacedInv' /\ MemInv'
           /\ pc' # "none" => Grown \/ (pc = "none" /\ BuildHere)
<1>1. CASE Looking
  <2>1. SgInv' /\ MemInv' /\ Grown
    BY <1>1, LookingKeeps
  <2>2. PlacedInv'
    BY <1>1, LookingIs, PlacedKeeps DEF listVars
  <2> QED
    BY <2>1, <2>2
<1>2. CASE Quiet
  <2>1. CASE BuildHere
    <3>1. Build /\ Next
      BY <2>1 DEF BuildHere, Build, Next
    <3> QED
      BY <2>1, <3>1, BuildKeeps, PlacedNext
  <2>2. CASE Extend
    <3>1. Next
      BY <2>2 DEF Extend, Next
    <3> QED
      BY <2>2, <3>1, ExtendKeeps, PlacedNext
  <2>3. CASE Delete
    <3>1. Next
      BY <2>3 DEF Delete, Next
    <3> QED
      BY <2>3, <3>1, DeleteKeeps, PlacedNext
  <2>4. CASE WriteSgList
    <3>1. UNCHANGED <<sg_plist, entries, offsets, add>>
      BY <2>4 DEF WriteSgList, listVars
    <3> QED
      BY <2>4, <3>1, WriteKeeps, PlacedKeeps
  <2>5. CASE Dequeuing \/ Consumed
    <3>1. Looking
      BY <2>5 DEF Looking
    <3> QED
      BY <3>1, <1>1
  <2> QED
    BY <1>2, <2>1, <2>2, <2>3, <2>4, <2>5 DEF Quiet
<1> QED
  BY <1>1, <1>2

(* A transfer that is waited for, without the DMA's timeout, starts with   *)
(* the DMA at the first entry and no packet counted.                       *)
LEMMA TransferStarts ==
    ASSUME FewDescriptors, SgInv, PlacedInv, MemInv, NEW w, NEW t, Transfer(w, t),
           dma'.state = "busy"
    PROVE  AtWork' /\ dma'.timeout = t
<1>1. /\ list # "new" /\ UNCHANGED <<sg_plist, entries>>
      /\ dma'.tail = DescOf(Len(entries)) /\ dma'.cur = DescOf(1)
      /\ dma'.threshold = Threshold /\ dma'.count = 0 /\ dma'.timeout = t
      /\ ~dma'.skip
  BY DEF Transfer, listVars, MemInv, MemType
<1>2. entries # <<>>
  BY <1>1 DEF MemInv, ListWritten
<1>3. Threshold = Eofs(Len(entries)) /\ 1 \in 1..Len(entries) /\ 1 - 1 = 0
  BY <1>2, ThresholdIs, EofsLast
<1>4. Eofs(1 - 1) = 0
  BY <1>3, EofsStart
<1>5. Eofs(1 - 1)' = 0
  BY <1>1, <1>4 DEF Eofs
<1>6. /\ DescOf(1)' = DescOf(1) /\ DescOf(Len(entries))' = DescOf(Len(entries))
      /\ Eofs(Len(entries))' = Eofs(Len(entries)) /\ Len(entries') = Len(entries)
  BY <1>1 DEF DescOf, Eofs
<1> QED
  BY <1>1, <1>3, <1>5, <1>6 DEF AtWork

LEMMA StartsCalm ==
    ASSUME FewDescriptors, SystemInv, proc = "running", Starts
    PROVE  Calm'
<1>1. PICK w \in WaitIrq, t \in Timeouts :
         /\ Transfer(w, t)
         /\ stray' = (stray \/ uio \/ ~w \/ t)
         /\ UNCHANGED <<proc, bufs, pinnerVars>>
  BY DEF Starts
<1>2. /\ pc = "idle" /\ list' # "new" /\ dma.state # "busy" /\ uio' = uio
      /\ \/ dma' = dma
         \/ dma'.count = 0
      /\ w => pc' = "wait"
  BY <1>1 DEF Transfer, SystemInv, MemInv, MemType
<1>3. ASSUME ~stray'
      PROVE  /\ ~(dma'.timeout /\ dma'.count > 0)
             /\ dma'.state = "busy" => pc' = "wait" /\ ~dma'.timeout /\ ~uio' /\ AtWork'
             /\ pc' = "wait"
  <2>1. ~stray /\ w /\ ~t
    BY <1>1, <1>3
  <2>2. ~uio /\ ~(dma.timeout /\ dma.count > 0)
    BY <1>2, <2>1 DEF SystemInv, Calm
  <2>3. ~(dma'.count > 0) \/ dma' = dma
    BY <1>2
  <2>4. dma'.state = "busy" => AtWork' /\ dma'.timeout = t
    BY <1>1, TransferStarts DEF SystemInv
  <2> QED
    BY <1>2, <2>1, <2>2, <2>3, <2>4
<1> QED
  BY <1>2, <1>3 DEF Calm

LEMMA LibraryStep ==
    ASSUME Streamed, SystemInv, Library
    PROVE  SystemInv'
<1> USE DEF SystemInv
<1>1. /\ proc = "running" /\ proc' = proc /\ bufs' = bufs /\ pinned' = pinned
      /\ Starts \/ ((Quiet \/ WaitReturns) /\ stray' = stray)
  BY DEF Library, Starts, Quiet, sysVars, pinnerVars
<1>2. Quiet \/ Looking
  BY <1>1 DEF Starts, Looking
<1>3. /\ SgInv' /\ PlacedInv' /\ MemInv'
      /\ pc' # "none" => Grown \/ (pc = "none" /\ BuildHere)
  BY <1>2, LibraryKeeps DEF Streamed
<1>4. AtHome'
  <2>1. pc # "none" /\ Grown => sg_plist' = bufs.sg /\ data_plist' = bufs.data
    BY DEF AtHome, Grown
  <2>2. pc = "none" /\ BuildHere => sg_plist' = bufs.sg /\ data_plist' = bufs.data
    BY DEF BuildHere
  <2>3. pc = "none" => BuildHere
    BY <1>2, LookingIs DEF Quiet, Extend, AddEntry, Delete, ListDel, WriteSgList,
       Looking
  <2> QED
    BY <1>1, <1>3, <2>1, <2>2, <2>3 DEF AtHome
<1>5. CASE Starts
  BY <1>1, <1>3, <1>4, <1>5, StartsCalm DEF Streamed
<1>6. CASE Quiet /\ stray' = stray
  <2>1. pc # "wait" /\ pc' # "wait" /\ UNCHANGED <<dma, uio>>
    BY <1>6, QuietPc
  <2>2. Calm'
    BY <1>1, <1>6, <2>1 DEF Calm
  <2> QED
    BY <1>3, <1>4, <2>2
<1>7. CASE WaitReturns /\ stray' = stray
  <2>1. pc = "wait" /\ uio /\ pc' = "idle" /\ uio' = FALSE /\ dma' = dma
    BY <1>7 DEF WaitReturns
  <2>2. Calm'
    BY <1>1, <1>7, <2>1 DEF Calm
  <2> QED
    BY <1>3, <1>4, <2>2
<1> QED
  BY <1>1, <1>5, <1>6, <1>7

-----------------------------------------------------------------------------
(* The DMA, while a program waits for it. *)

(* The descriptor the DMA is at is that of the entry it has counted to.    *)
LEMMA AtEntry ==
    ASSUME DisjointRuns, SgInv, PlacedInv, MemInv, list # "new", AtWork
    PROVE  \E k \in 1..Len(entries) :
              /\ dma.cur = DescOf(k) /\ dma.count = Eofs(k - 1)
              /\ dma.cur \in DOMAIN mem /\ mem[dma.cur] \in Desc
              /\ IsFor(mem[dma.cur], k, Len(entries))
<1>1. Described(Len(entries))
  BY DEF MemInv, ListWritten
<1>2. PICK k \in 1..Len(entries) : dma.cur = DescOf(k) /\ dma.count = Eofs(k - 1)
  BY DEF AtWork
<1>3. PICK j \in 1..Len(entries) :
         DescOf(j) = DescOf(k) /\ IsFor(mem[DescOf(k)], j, Len(entries))
  BY <1>1 DEF Described
<1>4. j = k
  BY <1>3, OneAddress
<1>5. dma.cur \in DOMAIN mem
  BY <1>1, <1>2 DEF Described
<1>6. mem[dma.cur] \in Desc
  BY <1>5 DEF MemInv, MemType
<1> QED
  BY <1>2, <1>3, <1>4, <1>5, <1>6

(* The transfer's one interrupt comes with its last packet, when the DMA   *)
(* has done the tail.                                                      *)
LEMMA DmaCounts ==
    ASSUME Streamed, SgInv, PlacedInv, MemInv, list # "new", AtWork, Dma
    PROVE  /\ dma'.timeout = dma.timeout
           /\ dma'.state = "busy" => (uio' => uio) /\ AtWork'
<1> DEFINE n == Len(entries)
<1>1. PICK r \in Nat, eof \in BOOLEAN : Receive(r, eof)
  <2>1. PICK r \in 1..mem[dma.cur].len, eof \in BOOLEAN : Receive(r, eof)
    BY DEF Dma
  <2>2. mem[dma.cur] \in Desc
    BY AtEntry DEF Streamed
  <2>3. mem[dma.cur].len \in Nat
    BY <2>2 DEF Desc
  <2> QED
    BY <2>1, <2>3
<1>2. PICK k \in 1..n :
         /\ dma.cur = DescOf(k) /\ dma.count = Eofs(k - 1)
         /\ mem[dma.cur] \in Desc /\ IsFor(mem[dma.cur], k, n)
  BY AtEntry DEF Streamed
<1> DEFINE fires == eof /\ dma.count + 1 = dma.threshold
<1>3. /\ eof = mem[dma.cur].eof
      /\ dma'.tail = dma.tail /\ dma'.cur = mem[dma.cur].next
      /\ dma'.timeout = dma.timeout /\ dma'.threshold = dma.threshold
      /\ dma'.count = IF fires THEN 0 ELSE IF eof THEN dma.count + 1 ELSE dma.count
      /\ dma'.state = (IF dma.cur = dma.tail THEN "idle" ELSE "busy") /\ ~dma'.skip
      /\ uio' = (uio \/ fires)
      /\ UNCHANGED <<sg_plist, entries>>
  BY <1>1, NothingSkipped DEF InOrder, Receive, MemInv, MemType, Streamed, listVars
<1>4. ASSUME dma'.state = "busy"
      PROVE  (uio' => uio) /\ AtWork'
  <2>1. dma.cur # dma.tail /\ dma.tail = DescOf(n) /\ dma.threshold = Eofs(n)
    BY <1>3, <1>4 DEF AtWork
  <2>2. n \in Nat /\ k # n /\ k \in Nat \ {0} /\ k \in 0..n - 1 /\ k + 1 \in 1..n
        /\ (k + 1) - 1 = k
    <3>1. entries # <<>> /\ n \in Nat
      BY DEF MemInv, ListWritten, SgInv, ListType
    <3>2. k # n
      BY <1>2, <2>1
    <3> HIDE DEF n
    <3> QED
      BY <3>1, <3>2
  <2>3. Eofs(k) < Eofs(n) /\ Eofs(k) \in Nat /\ Eofs(n) \in Nat
    <3>1. entries # <<>>
      BY DEF MemInv, ListWritten
    <3>2. Eofs(k) \in 0..k /\ Eofs(n) \in 0..n
      BY <2>2, EofsType
    <3> QED
      BY <2>2, <3>1, <3>2, EofsLast
  <2>4. eof = entries[k].is_EOF
    BY <1>2, <1>3 DEF IsFor
  <2>5. Eofs(k) = IF eof THEN dma.count + 1 ELSE dma.count
    BY <1>2, <2>2, <2>4, EofsStep
  <2>6. ~fires
    BY <2>1, <2>3, <2>5
  <2>7. dma'.count = Eofs(k)
    BY <1>3, <2>5, <2>6
  <2>8. dma'.cur = DescOf(k + 1)
    BY <1>2, <1>3, <2>2 DEF IsFor
  <2>9. /\ DescOf(k + 1)' = DescOf(k + 1) /\ DescOf(n)' = DescOf(n)
        /\ Eofs((k + 1) - 1)' = Eofs(k) /\ Eofs(n)' = Eofs(n) /\ Len(entries') = n
    BY <1>3, <2>2 DEF DescOf, Eofs
  <2>10. AtWork'
    BY <1>3, <2>1, <2>2, <2>7, <2>8, <2>9 DEF AtWork
  <2>11. uio' => uio
    BY <1>3, <2>6
  <2> QED
    BY <2>10, <2>11
<1> QED
  BY <1>3, <1>4

LEMMA HardwareStep ==
    ASSUME Streamed, SystemInv, Hardware
    PROVE  SystemInv'
<1> USE DEF SystemInv
<1>1. Engine /\ UNCHANGED <<proc, bufs, pinned, stray>>
  BY DEF Hardware, Engine, sysVars, pinnerVars
<1>2. SgInv' /\ MemInv' /\ UNCHANGED <<pc, list, sg_plist, data_plist, entries, offsets, add>>
  BY <1>1, EngineKeeps DEF listVars, progVars
<1>3. PlacedInv' /\ AtHome'
  BY <1>1, <1>2, PlacedKeeps DEF AtHome
<1>4. pc' = "wait" => list' # "new"
  BY <1>2 DEF Calm
<1>5. ASSUME ~stray
      PROVE  /\ ~(dma'.timeout /\ dma'.count > 0)
             /\ dma'.state = "busy" => pc' = "wait" /\ ~dma'.timeout /\ ~uio' /\ AtWork'
             /\ pc' # "wait" /\ proc' \notin {"none", "dying"} => ~uio'
  <2>1. /\ ~(dma.timeout /\ dma.count > 0)
        /\ dma.state = "busy" => pc = "wait" /\ list # "new" /\ ~dma.timeout /\ ~uio /\ AtWork
    BY <1>5 DEF Calm
  <2>2. CASE Dma
    <3>1. dma.state = "busy"
      BY <2>2 DEF Dma
    <3>2. /\ dma'.timeout = dma.timeout
          /\ dma'.state = "busy" => (uio' => uio) /\ AtWork'
      BY <2>1, <2>2, <3>1, DmaCounts
    <3> QED
      BY <1>2, <2>1, <3>1, <3>2
  <2>3. CASE ReceiveFails
    <3>1. dma.state = "busy" /\ dma'.state = "halted" /\ dma'.timeout = dma.timeout
      BY <2>3 DEF ReceiveFails, MemInv, MemType
    <3> QED
      BY <1>2, <2>1, <3>1
  <2>4. ~DelayIrq
    BY <2>1 DEF DelayIrq
  <2>5. ~Skip
    BY <2>1 DEF Skip, AtWork
  <2> QED
    BY <1>1, <2>2, <2>3, <2>4, <2>5 DEF Engine
<1>6. Calm'
  BY <1>1, <1>4, <1>5 DEF Calm
<1> QED
  BY <1>2, <1>3, <1>6

LEMMA SystemNextInv ==
    ASSUME Streamed, SystemInv, [SystemNext]_allVars
    PROVE  SystemInv'
<1>1. CASE UNCHANGED allVars
  <2>1. UNCHANGED <<listVars, pc, list, mem, dma, uio, proc, bufs, pinned, stray>>
    BY <1>1 DEF allVars, svars, progVars, dmaVars, sysVars
  <2>2. SgInv' /\ PlacedInv' /\ MemInv' /\ AtHome'
    BY <2>1, Unmoved DEF SystemInv, AtHome, listVars
  <2>3. Calm'
    BY <2>1 DEF SystemInv, Calm, AtWork, DescOf, Eofs, listVars
  <2> QED
    BY <2>2, <2>3 DEF SystemInv
<1>2. CASE SystemNext
  BY <1>2, MainKeeps, DiesKeeps, LibraryStep, HardwareStep DEF SystemNext, Main
<1> QED
  BY <1>1, <1>2

-----------------------------------------------------------------------------
(* The theorems. *)

LEMMA SystemAlways ==
    ASSUME Streamed
    PROVE  SystemSpec => []SystemInv
<1>1. SystemInv /\ [SystemNext]_allVars => SystemInv'
  BY SystemNextInv
<1> QED
  BY <1>1, SystemInitInv, PTL DEF SystemSpec

(* WaitMeansDone: a program's read of the UIO file returns when the DMA    *)
(* has finished, since the one interrupt it can have comes with the last   *)
(* chunk of the list, or with an error that halts the DMA.  It is so only  *)
(* for a stream of one packet per chunk and a list with fewer chunks than  *)
(* the threshold field counts (Streamed), and for a transfer that found    *)
(* the DMA at rest and leaves its timeout off (stray).                     *)
THEOREM WaitEndsTransfer ==
    ASSUME Streamed
    PROVE  SystemSpec => WaitMeansDone
<1>1. ASSUME SystemInv, SystemNext, pc = "wait", pc' = "idle", ~stray
      PROVE  dma.state # "busy"
  <2>1. proc = "running"
    BY <1>1 DEF SystemInv, AtHome
  <2>2. ~Main
    BY <1>1, MainIs DEF SystemInv, AtHome
  <2>3. ~Hardware
    BY <1>1, EngineKeeps DEF Hardware, Engine, progVars, SystemInv
  <2>4. ~Dies
    BY <1>1 DEF Dies
  <2>5. Library
    BY <1>1, <2>2, <2>3, <2>4 DEF SystemNext, Main
  <2>6. WaitReturns
    <3>1. ~Starts
      BY <1>1 DEF Starts, Transfer
    <3>2. ~Quiet
      BY <1>1, QuietPc
    <3> QED
      BY <2>5, <3>1, <3>2 DEF Library, Quiet
  <2> QED
    BY <1>1, <2>6 DEF WaitReturns, SystemInv, Calm
<1>2. SystemInv /\ [SystemNext]_allVars
        => [pc = "wait" /\ pc' = "idle" /\ ~stray => dma.state # "busy"]_allVars
  BY <1>1
<1> QED
  BY <1>2, SystemAlways, PTL DEF SystemSpec, WaitMeansDone

-----------------------------------------------------------------------------
(* What a wait means for any stream: the packets it has counted. *)

DmaRecord ==
    dma = [state |-> dma.state, cur |-> dma.cur, tail |-> dma.tail,
           threshold |-> dma.threshold, timeout |-> dma.timeout,
           count |-> dma.count, byte |-> dma.byte, skip |-> dma.skip, sof |-> dma.sof]

EndedIsSeq == \E S : ended \in Seq(S)

(* The chunks can be counted. *)
Countable == EofCount \in 1..IRQ_FIELD - 1

(* Before its interrupt the DMA has counted every packet of the transfer,  *)
(* and they are fewer than the chunks.                                     *)
Counting ==
    pc = "wait" /\ ~stray /\ dma.state # "halted" /\ Countable =>
        /\ dma.threshold = EofCount /\ ~dma.timeout
        /\ IF uio THEN EofCount <= Len(ended)
                  ELSE dma.count = Len(ended) /\ Len(ended) < EofCount

CountInv ==
    /\ DmaRecord /\ EndedIsSeq /\ Counting
    /\ pc # "none" => proc = "running"

LEMMA CountInit == SystemInit => CountInv
<1> SUFFICES ASSUME SystemInit PROVE CountInv
  OBVIOUS
<1>1. /\ pc = "none" /\ ended = <<>>
      /\ dma = [state |-> "idle", cur |-> 0, tail |-> 0,
                threshold |-> 1, timeout |-> FALSE, count |-> 0, byte |-> 0,
                skip |-> FALSE, sof |-> dma.sof]
  BY DEF SystemInit, S2mmInit, Init
<1>2. <<>> \in Seq({})
  OBVIOUS
<1> QED
  BY <1>1, <1>2 DEF CountInv, DmaRecord, EndedIsSeq, Counting

LEMMA LenAppended ==
    ASSUME EndedIsSeq, NEW x
    PROVE  /\ Len(ended) \in Nat /\ Len(Append(ended, x)) = Len(ended) + 1
           /\ \E S : Append(ended, x) \in Seq(S)
<1>1. PICK S : ended \in Seq(S)
  BY DEF EndedIsSeq
<1> DEFINE T == S \cup {x}
<1>2. ended \in Seq(T) /\ x \in T
  BY <1>1
<1> HIDE DEF T
<1>3. Len(ended) \in Nat /\ Len(Append(ended, x)) = Len(ended) + 1 /\ Append(ended, x) \in Seq(T)
  BY <1>2
<1> QED
  BY <1>3

(* The DMA counts a packet when it ends. *)
LEMMA HardwareCounts ==
    ASSUME CountInv, Hardware
    PROVE  CountInv'
<1>1. /\ UNCHANGED <<proc, stray, pc, entries>> /\ (Countable' <=> Countable)
      /\ EofCount' = EofCount
  BY DEF Hardware, sysVars, Dma, Receive, Skip, ReceiveFails, DelayIrq, listVars, progVars,
         Countable, EofCount
<1> USE DEF CountInv
<1>2. CASE Dma
  <2>1. PICK n, eof : eof \in BOOLEAN /\ Receive(n, eof)
    BY <1>2 DEF Dma
  <2> DEFINE fires == eof /\ dma.count + 1 = dma.threshold
             x == dma.byte + n
  <2>2. /\ dma.state = "busy"
        /\ ended' = IF eof THEN Append(ended, x) ELSE ended
        /\ uio' = (uio \/ fires)
    BY <2>1 DEF Receive
  <2>3. /\ DmaRecord' /\ dma'.threshold = dma.threshold /\ dma'.timeout = dma.timeout
        /\ dma'.count = IF fires THEN 0 ELSE IF eof THEN dma.count + 1 ELSE dma.count
    BY <2>1 DEF Receive, DmaRecord
  <2> HIDE DEF x
  <2>4. /\ Len(ended) \in Nat /\ EndedIsSeq'
        /\ Len(ended') = IF eof THEN Len(ended) + 1 ELSE Len(ended)
    BY <2>2, LenAppended DEF EndedIsSeq
  <2>5. ASSUME pc = "wait", ~stray, Countable
        PROVE  IF uio' THEN EofCount <= Len(ended')
                       ELSE dma'.count = Len(ended') /\ Len(ended') < EofCount
    <3> DEFINE L == Len(ended)
               E == EofCount
               L2 == Len(ended')
    <3>1. /\ dma.threshold = E
          /\ IF uio THEN E <= L ELSE dma.count = L /\ L < E
          /\ E \in Nat
      BY <2>2, <2>5 DEF Counting, Countable
    <3>2. L \in Nat /\ L2 = (IF eof THEN L + 1 ELSE L)
      BY <2>4
    <3> HIDE DEF L, E, L2
    <3>3. CASE uio
      <4>1. uio'
        BY <2>2, <3>3
      <4>2. E <= L
        BY <3>1, <3>3
      <4>3. E <= L2
        BY ONLY <3>1, <3>2, <4>2
      <4> QED
        BY <4>1, <4>3 DEF L2, E
    <3>4. CASE ~uio /\ ~fires
      <4>1. ~uio' /\ dma'.count = IF eof THEN dma.count + 1 ELSE dma.count
        BY <2>2, <2>3, <3>4
      <4>2. dma.count = L /\ L < E /\ (eof => L + 1 # E)
        BY <3>1, <3>4
      <4>3. dma'.count = L2 /\ L2 < E
        BY ONLY <3>1, <3>2, <4>1, <4>2
      <4> QED
        BY <4>1, <4>3 DEF L2, E
    <3>5. CASE ~uio /\ fires
      <4>1. uio'
        BY <2>2, <3>5
      <4>2. eof /\ L + 1 = E
        BY <3>1, <3>5
      <4>3. E <= L2
        BY ONLY <3>1, <3>2, <4>2
      <4> QED
        BY <4>1, <4>3 DEF L2, E
    <3> QED
      BY <3>3, <3>4, <3>5
  <2>6. Counting'
    BY <1>1, <2>2, <2>3, <2>5 DEF Counting
  <2> QED
    BY <1>1, <2>3, <2>4, <2>6
<1>3. CASE Skip
  BY <1>1, <1>3 DEF Skip, Counting, DmaRecord, EndedIsSeq
<1>4. CASE ReceiveFails
  BY <1>1, <1>4 DEF ReceiveFails, Counting, DmaRecord, EndedIsSeq
<1>5. CASE DelayIrq
  BY <1>1, <1>5 DEF DelayIrq, Counting, DmaRecord, EndedIsSeq
<1> QED
  BY <1>2, <1>3, <1>4, <1>5 DEF Hardware

(* A transfer that is waited for starts with nothing counted. *)
LEMMA StartsCounting ==
    ASSUME CountInv, proc = "running", Starts
    PROVE  CountInv'
<1>1. PICK w \in WaitIrq, t \in Timeouts :
         /\ Transfer(w, t) /\ stray' = (stray \/ uio \/ ~w \/ t) /\ proc' = proc
  BY DEF Starts
<1>2. /\ ended' = <<>> /\ uio' = uio /\ entries' = entries
      /\ dma' = IF dma.state = "halted" THEN dma
                ELSE [dma EXCEPT !.state = "busy", !.cur = DescOf(1),
                                 !.tail = DescOf(Len(entries)),
                                 !.threshold = Threshold,
                                 !.timeout = t, !.count = 0, !.skip = FALSE]
  BY <1>1 DEF Transfer, listVars
<1>3. DmaRecord' /\ EndedIsSeq'
  <2>1. <<>> \in Seq({})
    OBVIOUS
  <2> QED
    BY <1>2, <2>1 DEF CountInv, DmaRecord, EndedIsSeq
<1>4. ASSUME dma'.state # "halted", Countable', ~stray'
      PROVE  /\ dma'.threshold = EofCount' /\ ~dma'.timeout
             /\ ~uio' /\ dma'.count = Len(ended') /\ Len(ended') < EofCount'
  <2>1. EofCount' = EofCount
    BY <1>2 DEF EofCount
  <2>2. EofCount \in 1..IRQ_FIELD - 1 /\ IRQ_FIELD \in Nat
    BY <1>4, <2>1, S2mmAssumption DEF Countable
  <2>3. Threshold = EofCount
    <3>1. EofCount % IRQ_FIELD = EofCount /\ EofCount # 0
      <4> DEFINE E == EofCount
      <4>1. E \in 1..IRQ_FIELD - 1
        BY <2>2
      <4> HIDE DEF E
      <4>2. E % IRQ_FIELD = E /\ E # 0
        BY <2>2, <4>1
      <4> QED
        BY <4>2 DEF E
    <3> QED
      BY <3>1 DEF Threshold
  <2>4. /\ dma'.threshold = Threshold /\ dma'.timeout = t /\ dma'.count = 0
    BY <1>2, <1>4 DEF CountInv, DmaRecord
  <2>5. Len(ended') = 0 /\ EofCount' > 0
    BY <1>2, <2>1, <2>2
  <2> QED
    BY <1>1, <1>2, <1>4, <2>1, <2>3, <2>4, <2>5
<1>5. Counting'
  BY <1>4 DEF Counting
<1> QED
  BY <1>1, <1>3, <1>5 DEF CountInv

LEMMA CountNext ==
    ASSUME CountInv, [SystemNext]_allVars
    PROVE  CountInv'
<1> USE DEF CountInv
<1>1. CASE Main
  <2>1. pc = "none" /\ pc' = pc /\ UNCHANGED <<dma, ended>>
    BY <1>1, MainIs
  <2> QED
    BY <2>1 DEF DmaRecord, EndedIsSeq, Counting
<1>2. CASE Dies
  BY <1>2 DEF Dies, dmaVars, DmaRecord, EndedIsSeq, Counting
<1>3. CASE Hardware
  BY <1>3, HardwareCounts
<1>4. CASE Library
  <2>1. /\ proc = "running"
        /\ Starts \/ ((Quiet \/ WaitReturns) /\ UNCHANGED sysVars)
    BY <1>4 DEF Library, Quiet
  <2>2. CASE Starts
    BY <2>1, <2>2, StartsCounting
  <2>3. CASE Quiet /\ UNCHANGED sysVars
    <3>1. pc' # "wait" /\ dma' = dma /\ proc' = proc
      BY <2>3, QuietPc DEF sysVars
    <3>2. ended' = ended
      BY <2>3 DEF Quiet, BuildHere, Build, Extend, Delete, WriteSgList, Dequeuing, DequeueEnd,
         Dequeue, ReadLen, ReadComplete, ReadEof, DequeueReturns, Consumed,
         DequeueUnchanged, dmaVars
    <3> QED
      BY <2>1, <3>1, <3>2 DEF DmaRecord, EndedIsSeq, Counting
  <2>4. CASE WaitReturns /\ UNCHANGED sysVars
    BY <2>1, <2>4 DEF WaitReturns, sysVars, DmaRecord, EndedIsSeq, Counting
  <2> QED
    BY <2>1, <2>2, <2>3, <2>4
<1>5. CASE UNCHANGED allVars
  BY <1>5 DEF allVars, svars, listVars, progVars, dmaVars, sysVars, DmaRecord, EndedIsSeq,
              Counting, Countable, EofCount
<1> QED
  BY <1>1, <1>2, <1>3, <1>4, <1>5 DEF SystemNext, Main

(* WaitMeansPackets: for any buffers, lists, streams and either DMA, and   *)
(* whatever the programs before it did: a program that found the DMA at    *)
(* rest and leaves its timeout off (stray) has its wait ended by as many   *)
(* packets of its transfer as the list has chunks, or by an error, as long *)
(* as the field holds that number.                                         *)
THEOREM WaitCountsPackets == SystemSpec => WaitMeansPackets
<1>1. ASSUME CountInv, SystemNext, pc = "wait", pc' = "idle", ~stray
      PROVE  dma.state = "halted" \/ (EofCount \in 1..IRQ_FIELD - 1 => EofCount <= Len(ended))
  <2>1. ~Main
    BY <1>1, MainIs DEF CountInv
  <2>2. ~Hardware /\ ~Dies
    BY <1>1 DEF Hardware, Dma, Receive, Skip, ReceiveFails, DelayIrq, progVars, Dies
  <2>3. Library
    BY <1>1, <2>1, <2>2 DEF SystemNext, Main
  <2>4. WaitReturns
    BY <1>1, <2>3, QuietPc DEF Library, Quiet, Starts, Transfer
  <2> QED
    BY <1>1, <2>4 DEF WaitReturns, CountInv, Counting, Countable
<1>2. CountInv /\ [SystemNext]_allVars
        => [pc = "wait" /\ pc' = "idle" /\ ~stray =>
              \/ dma.state = "halted"
              \/ EofCount \in 1..IRQ_FIELD - 1 => EofCount <= Len(ended)]_allVars
  BY <1>1
<1>3. CountInv /\ [SystemNext]_allVars => CountInv'
  BY CountNext
<1> QED
  BY <1>2, <1>3, CountInit, PTL DEF SystemSpec, WaitMeansPackets

-----------------------------------------------------------------------------
(* The pages of what lies in a run. *)

LEMMA DivMono ==
    ASSUME NEW a \in Nat \ {0}, NEW x \in Int, NEW y \in Int, x <= y
    PROVE  x \div a <= y \div a
OBVIOUS

(* The pages of n bytes at addr. *)
Spanned(addr, n) == addr \div PAGE .. (addr + n - 1) \div PAGE

LEMMA SpannedIn ==
    ASSUME NEW a \in Nat, NEW la \in Nat, NEW x \in Nat, NEW n \in Nat,
           a <= x, x + n <= a + la, x + 1 <= a + la
    PROVE  Spanned(x, n) \subseteq Spanned(a, la)
<1>1. PAGE \in Nat \ {0}
  BY SystemAssumption
<1> DEFINE xe == x + n - 1
           ae == a + la - 1
<1>2. xe \in Int /\ ae \in Int /\ xe <= ae
  OBVIOUS
<1> HIDE DEF xe, ae
<1>3. a \div PAGE <= x \div PAGE /\ xe \div PAGE <= ae \div PAGE
  BY <1>1, <1>2, DivMono
<1>4. /\ a \div PAGE \in Int /\ x \div PAGE \in Int
      /\ xe \div PAGE \in Int /\ ae \div PAGE \in Int
  BY <1>1, <1>2
<1>5. x \div PAGE .. xe \div PAGE \subseteq a \div PAGE .. ae \div PAGE
  BY ONLY <1>3, <1>4
<1> QED
  BY <1>5 DEF Spanned, xe, ae

LEMMA PagesOfRun ==
    ASSUME NEW p \in Physlists, NEW i \in 1..Len(p)
    PROVE  Spanned(p[i].addr, p[i].len) \subseteq PagesOf(p)
<1>1. p[i] \in ToSet(p)
  BY Offsets DEF ToSet
<1> QED
  BY <1>1 DEF PagesOf, Spanned

LEMMA PagesOfTwo ==
    ASSUME NEW a, NEW la, NEW b, NEW lb
    PROVE  PagesOf(<<[addr |-> a, len |-> la], [addr |-> b, len |-> lb]>>)
             = Spanned(a, la) \cup Spanned(b, lb)
<1> DEFINE s == <<[addr |-> a, len |-> la], [addr |-> b, len |-> lb]>>
<1>1. ToSet(s) = {[addr |-> a, len |-> la], [addr |-> b, len |-> lb]}
  BY DEF ToSet
<1> QED
  BY <1>1 DEF PagesOf, Spanned

(* A descriptor is in the pages of the descriptor buffer. *)
LEMMA DescriptorPages ==
    ASSUME SgInv, PlacedInv, NEW k \in 1..Len(entries)
    PROVE  Spanned(DescOf(k), DESC) \subseteq PagesOf(sg_plist)
<1>1. PICK i \in 1..Len(sg_plist) :
              /\ sg_plist \in Physlists
              /\ sg_plist[i].addr \in Nat /\ sg_plist[i].len \in Nat
              /\ DescOf(k) \in Nat /\ sg_plist[i].addr <= DescOf(k)
              /\ DescOf(k) + DESC <= sg_plist[i].addr + sg_plist[i].len
  BY PlacedIn
<1> DEFINE a == sg_plist[i].addr
           la == sg_plist[i].len
           x == DescOf(k)
<1>2. Spanned(a, la) \subseteq PagesOf(sg_plist)
  BY <1>1, PagesOfRun
<1>3. /\ a \in Nat /\ la \in Nat /\ x \in Nat /\ DESC \in Nat \ {0}
      /\ a <= x /\ x + DESC <= a + la
  BY <1>1, Positive
<1> HIDE DEF a, la, x
<1>4. x + 1 <= a + la
  BY ONLY <1>3
<1>5. Spanned(x, DESC) \subseteq Spanned(a, la)
  BY <1>3, <1>4, SpannedIn
<1>6. Spanned(x, DESC) \subseteq PagesOf(sg_plist)
  BY <1>2, <1>5
<1> QED
  BY <1>6 DEF x

(* The bytes of an entry are in the pages of the data buffer. *)
LEMMA EntryPages ==
    ASSUME SgInv, pc # "none", NEW k \in 1..Len(entries)
    PROVE  Spanned(entries[k].buf_phys, entries[k].len) \subseteq PagesOf(data_plist)
<1> DEFINE e == entries[k]
           p == data_plist
           o == e.data_offset
           n == e.len
           x == e.buf_phys
<1>1. p \in Physlists /\ e \in Entry /\ InOneRun(e)
  <2>1. p \in DataPlists
    BY DEF SgInv, ListType
  <2>2. InOneRun(e)
    BY DEF SgInv, ListTiles
  <2> QED
    BY <2>1, <2>2, EntryIs, Buffers
<1>2. o \in Nat /\ n \in Nat /\ x \in Nat /\ x = VirtToPhys(p, o)
  BY <1>1 DEF Entry, InOneRun
<1>3. PICK i \in 1..Len(p) : Before(p, i) <= o /\ o + n <= Before(p, i + 1)
  BY <1>1 DEF InOneRun
<1> HIDE DEF e, p, o, n, x
<1>4. ASSUME NEW j \in 1..Len(p), NEW m \in Nat, n <= m,
             Before(p, j) <= o, o + m <= Before(p, j) + p[j].len, m # 0
      PROVE  Spanned(x, n) \subseteq PagesOf(p)
  <2> DEFINE a == p[j].addr
             la == p[j].len
             b == Before(p, j)
  <2>1. Holds(p, j, o) /\ b \in Nat /\ a \in Nat /\ la \in Nat
    <3>1. j \in 1..Len(p) + 1
      BY <1>1, Offsets
    <3>2. b \in Nat /\ a \in Nat /\ la \in Nat
      BY <1>1, <3>1, Offsets
    <3>3. o < b + la
      <4>1. b <= o /\ o + m <= b + la
        BY <1>4
      <4> HIDE DEF b, la
      <4> QED
        BY ONLY <4>1, <3>2, <1>2, <1>4, m \in Nat
    <3> QED
      BY <1>4, <3>2, <3>3 DEF Holds
  <2>2. x = a + o - b
    BY <1>1, <1>2, <2>1, IndexIs
  <2>3. b <= o /\ o + m <= b + la
    BY <1>4
  <2>4. Spanned(a, la) \subseteq PagesOf(p)
    BY <1>1, PagesOfRun
  <2> HIDE DEF a, la, b
  <2>5. a <= x /\ x + m <= a + la
    BY ONLY <1>2, <2>1, <2>2, <2>3, InRun, m \in Nat
  <2>6. x + n <= a + la /\ x + 1 <= a + la
    BY ONLY <1>2, <1>4, <2>1, <2>5, m \in Nat
  <2>7. /\ a \in Nat /\ la \in Nat /\ x \in Nat /\ n \in Nat
        /\ a <= x /\ x + n <= a + la /\ x + 1 <= a + la
    BY <1>2, <2>1, <2>5, <2>6
  <2>8. Spanned(x, n) \subseteq Spanned(a, la)
    BY ONLY <2>7, SpannedIn
  <2> QED
    BY <2>4, <2>8
<1>5. ASSUME n # 0 PROVE Spanned(x, n) \subseteq PagesOf(p)
  <2>1. Before(p, i + 1) = Before(p, i) + p[i].len
    BY <1>1, Offsets
  <2>2. n <= n /\ Before(p, i) <= o /\ o + n <= Before(p, i) + p[i].len
    BY <1>2, <1>3, <2>1
  <2> QED
    BY ONLY <1>2, <1>4, <1>5, <2>2, i \in 1..Len(p)
<1>6. ASSUME n = 0 PROVE Spanned(x, n) \subseteq PagesOf(p)
  <2> DEFINE j == GetEntryIndex(p, o)
  <2>1. CASE j = 0
    <3>1. x = 0
      BY <1>2, <2>1 DEF VirtToPhys
    <3>2. Spanned(0, 0) = {}
      <4>1. PAGE \in Nat \ {0}
        BY SystemAssumption
      <4>2. 0 \div PAGE = 0 /\ (0 + 0 - 1) \div PAGE < 0 /\ (0 + 0 - 1) \div PAGE \in Int
        BY <4>1
      <4> QED
        BY <4>2 DEF Spanned
    <3>3. Spanned(x, n) = {}
      BY ONLY <1>6, <3>1, <3>2
    <3> QED
      BY <3>3
  <2>2. CASE j # 0
    <3>1. Holds(p, j, o)
      BY <1>1, <1>2, <2>2, IndexHolds
    <3> HIDE DEF j
    <3>2. /\ j \in 1..Len(p) /\ Before(p, j) <= o /\ o < Before(p, j) + p[j].len
      BY <3>1 DEF Holds
    <3>3. Before(p, j) \in Nat /\ p[j].len \in Nat
      <4>1. j \in 1..Len(p) + 1
        BY <1>1, <3>2, Offsets
      <4> QED
        BY <1>1, <3>2, <4>1, Offsets
    <3>4. o + 1 <= Before(p, j) + p[j].len /\ n <= 1
      BY <1>2, <1>6, <3>2, <3>3
    <3>5. 1 \in Nat /\ 1 # 0
      OBVIOUS
    <3> QED
      BY ONLY <1>4, <3>2, <3>4, <3>5
  <2> QED
    BY <2>1, <2>2
<1> QED
  BY <1>5, <1>6 DEF e, p, o, n, x

LEMMA InvHeld == Streamed /\ SystemInv => DmaInHeldPages
<1> SUFFICES ASSUME Streamed, SystemInv, dma.state = "busy", ~stray
             PROVE  PagesOf(<<[addr |-> dma.cur, len |-> DESC],
                              [addr |-> mem[dma.cur].buf, len |-> mem[dma.cur].len]>>)
                      \subseteq Owed
  BY DEF DmaInHeldPages
<1> USE DEF SystemInv
<1>1. pc = "wait" /\ list # "new" /\ AtWork
  BY DEF Calm
<1>2. PICK k \in 1..Len(entries) : dma.cur = DescOf(k) /\ IsFor(mem[dma.cur], k, Len(entries))
  BY <1>1, AtEntry DEF Streamed
<1>3. mem[dma.cur].buf = entries[k].buf_phys /\ mem[dma.cur].len = entries[k].len
  BY <1>2 DEF IsFor
<1>4. /\ Spanned(dma.cur, DESC) \subseteq PagesOf(sg_plist)
      /\ Spanned(mem[dma.cur].buf, mem[dma.cur].len) \subseteq PagesOf(data_plist)
  BY <1>1, <1>2, <1>3, DescriptorPages, EntryPages
<1>5. pinned["sg"] = PagesOf(sg_plist) /\ pinned["data"] = PagesOf(data_plist)
  BY <1>1 DEF AtHome
<1>6. PagesOf(sg_plist) \subseteq Owed /\ PagesOf(data_plist) \subseteq Owed
  BY <1>5 DEF Owed, Bufs
<1> QED
  BY <1>4, <1>6, PagesOfTwo

(* DmaInHeldPages: while a program that has done nothing stray runs a      *)
(* transfer, the descriptor and the bytes the DMA may touch are in pages   *)
(* its pinnings hold: main unpins only when the DMA has ended, which asks  *)
(* for the same stream and list as WaitEndsTransfer, and every entry lies  *)
(* within one run of the buffers that main has pinned, which asks for a    *)
(* buffer in which no descriptor is placed past a run (Streamed has both). *)
THEOREM DmaTouchesPinned ==
    ASSUME Streamed
    PROVE  SystemSpec => []DmaInHeldPages
BY SystemAlways, InvHeld, PTL
=============================================================================
