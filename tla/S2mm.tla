-------------------------------- MODULE S2mm --------------------------------
(***************************************************************************)
(* A stream-to-memory transfer: the calling program fills an sg_list,      *)
(* writes its descriptors, starts the DMA, waits for the interrupt and     *)
(* dequeues the received buffers, while the DMA works through the          *)
(* descriptors in memory.                                                  *)
(*                                                                         *)
(* The program is one thread: pc is its place, and every call of the       *)
(* library starts from "idle".  The DMA and the UIO interrupt count are    *)
(* modelled from how the library uses them.  Descriptors are kept in mem   *)
(* under their physical address; the cache is taken to be coherent.        *)
(* A call that the library rejects, for a NULL argument or a list that was *)
(* never written, changes nothing and is no step.                          *)
(*                                                                         *)
(* Operators that no action uses are the faults that a property is tested  *)
(* against: each stands before the definition it would replace.            *)
(***************************************************************************)
EXTENDS SgList

CONSTANTS
    IRQ_FIELD,     \* 256: values of the DMACR field for the interrupt threshold
    WaitIrq,       \* the values the program passes for wait_irq
    Timeouts,      \* the values the program passes for enable_timeout
    OneEach,       \* TRUE: the stream ends a packet in the last descriptor of
                   \* each chunk and nowhere else
    SofDma,        \* TRUE: the DMA may also be the one described in
                   \* modules/axidma/README.md (dma.sof)
    MaxTransfers   \* bound on the transfers of a behaviour

ASSUME S2mmAssumption ==
    /\ IRQ_FIELD \in Nat \ {0, 1} /\ MaxTransfers \in Nat
    /\ WaitIrq \subseteq BOOLEAN /\ Timeouts \subseteq BOOLEAN
    /\ OneEach \in BOOLEAN /\ SofDma \in BOOLEAN

NULL == 0
SENTINEL == -1      \* &lst->sentinel; entry k of the list is k

VARIABLES
    ctx_lst,    \* ctx->lst # NULL
    to_vist,    \* lst->to_vist
    mem,        \* the descriptors in physical memory, of the list written last
    list,       \* history: "new" until mem holds this list, then "written";
                \* "used" by a transfer, "reused" by another one
    dma,        \* the DMA's registers and state; skip, that it is leaving the
                \* rest of a chunk alone; sof, which account of it holds
    uio,        \* an interrupt the program has not read yet
    dram,       \* which byte of which packet this transfer has put where
    ended,      \* history: the lengths of the packets of this transfer
    deq,        \* the locals of axidma_dequeue_s2mm_buf; history: quiet,
                \* whether the DMA had stopped when it was called
    buf,        \* the s2mm_buf it returned
    run         \* history: transfers so far; buffers dequeued since the
                \* traversal began, and whether one of them had failed
                \* or a new transfer overtook the traversal

listVars == <<sg_plist, data_plist, entries, offsets, add, ret>>
progVars == <<pc, ctx_lst, to_vist, list, deq, buf, run>>
dmaVars == <<dma, uio, dram, ended>>
svars == <<listVars, progVars, mem, dmaVars>>

DescOf(k) == VirtToPhys(sg_plist, entries[k].sg_offset)
Status == mem[DescOf(deq.e)].status
NextEntry(k) == IF k = Len(entries) THEN SENTINEL ELSE k + 1
First == IF entries = <<>> THEN SENTINEL ELSE 1

NoStatus == [len |-> 0, eof |-> FALSE, complete |-> FALSE, err |-> FALSE]
NoDeq == [e |-> NULL, base |-> 0, len |-> 0, code |-> "TRANSFER_SUCCESS",
          quiet |-> TRUE]
NoBuf == [base |-> 0, len |-> 0, code |-> "NONE", quiet |-> TRUE]
EndOfList == [NoBuf EXCEPT !.code = "END_OF_LIST"]

S2mmInit ==
    /\ Init
    /\ ctx_lst = FALSE /\ to_vist = NULL /\ list = "new"
    /\ mem = <<>> /\ dram = <<>>
    /\ \E sof \in {FALSE, SofDma} :
         dma = [state |-> "idle", cur |-> 0, tail |-> 0,
                threshold |-> 1, timeout |-> FALSE, count |-> 0, byte |-> 0,
                skip |-> FALSE, sof |-> sof]
    /\ uio = FALSE /\ ended = <<>>
    /\ deq = NoDeq /\ buf = NoBuf
    /\ run = [transfers |-> 0, taken |-> 0, broken |-> FALSE]

-----------------------------------------------------------------------------
(* Building the list. *)

Build ==
    /\ \/ \E sp \in SgPlists, dp \in DataPlists : ListNew(sp, dp)
       \/ Building
    /\ UNCHANGED <<ctx_lst, to_vist, list, mem, deq, buf, run, dmaVars>>

Extend ==
    /\ run.transfers < MaxTransfers
    /\ \E sz \in Sizes : AddEntry(sz)
    /\ list' = "new"
    /\ UNCHANGED <<ctx_lst, to_vist, mem, deq, buf, run, dmaVars>>

(* axidma_list_del does not look whether the DMA still uses the list. *)
Delete ==
    /\ ListDel
    /\ list' = "new" /\ to_vist' = NULL
    /\ UNCHANGED <<ctx_lst, mem, deq, buf, run, dmaVars>>

(* The next descriptor is taken to follow in physical memory. *)
DescriptorAdjacent(k, sentinel_offset) ==
    [buf |-> entries[k].buf_phys, len |-> entries[k].len,
     sof |-> entries[k].is_SOF, eof |-> entries[k].is_EOF,
     next |-> DescOf(k) + ALIGN,
     status |-> NoStatus]

(* The status of the previous transfer stays. *)
DescriptorKeepsStatus(k, sentinel_offset) ==
    [buf |-> entries[k].buf_phys, len |-> entries[k].len,
     sof |-> entries[k].is_SOF, eof |-> entries[k].is_EOF,
     next |-> IF k = Len(entries) THEN VirtToPhys(sg_plist, sentinel_offset)
              ELSE DescOf(k + 1),
     status |-> IF DescOf(k) \in DOMAIN mem THEN mem[DescOf(k)].status ELSE NoStatus]

(* s2mm_write_sg_entry.  The entry after the last one is the sentinel,     *)
(* whose sg_offset is never set.                                           *)
Descriptor(k, sentinel_offset) ==
    [buf |-> entries[k].buf_phys, len |-> entries[k].len,
     sof |-> entries[k].is_SOF, eof |-> entries[k].is_EOF,
     next |-> IF k = Len(entries) THEN VirtToPhys(sg_plist, sentinel_offset)
              ELSE DescOf(k + 1),
     status |-> NoStatus]

WriteSgList ==
    /\ pc = "idle" /\ entries # <<>>
    /\ dma.state # "busy" /\ run.transfers < MaxTransfers
    /\ ctx_lst' = TRUE
    /\ to_vist' = 1
    /\ \E sentinel_offset \in {0, UINT - 1} :
         mem' = [a \in {DescOf(k) : k \in DOMAIN entries} |->
                   Descriptor(CHOOSE k \in DOMAIN entries : a = DescOf(k),
                              sentinel_offset)]
    /\ list' = "written"
    /\ run' = [run EXCEPT !.taken = 0, !.broken = FALSE]
    /\ UNCHANGED <<pc, listVars, deq, buf, dmaVars>>

-----------------------------------------------------------------------------
(* axidma_s2mm_transfer.  The program starts a transfer of a list it has   *)
(* written, when the one before has ended.                                 *)

(* The loop stops at the last entry instead of after it. *)
EofCountButLast == Cardinality({k \in 1..Len(entries) - 1 : entries[k].is_EOF})
EntryCount == Len(entries)

EofCount == Cardinality({k \in DOMAIN entries : entries[k].is_EOF})

(* The field is left as it was. *)
ThresholdKept == dma.threshold

(* (cnt & 0xFF) << 16, as many as there are chunks.  A threshold of zero   *)
(* is ignored.                                                             *)
Threshold == IF EofCount % IRQ_FIELD = 0 THEN dma.threshold ELSE EofCount % IRQ_FIELD

(* A DMA that an error has halted, or a long packet frozen, wants a reset, *)
(* which the library does not give: it ignores what is written to it.      *)
Transfer(wait_irq, enable_timeout) ==
    /\ pc = "idle" /\ ctx_lst
    /\ list # "new"
    /\ dma.state # "busy" /\ run.transfers < MaxTransfers
    /\ dma' = IF dma.state = "halted" THEN dma
              ELSE [dma EXCEPT !.state = "busy", !.cur = DescOf(1),
                               !.tail = DescOf(Len(entries)),
                               !.threshold = Threshold,
                               !.timeout = enable_timeout, !.count = 0,
                               !.skip = FALSE]
    /\ list' = IF list = "written" THEN "used" ELSE "reused"
    /\ run' = [run EXCEPT !.transfers = @ + 1, !.broken = @ \/ run.taken # 0]
    /\ pc' = IF wait_irq THEN "wait" ELSE "idle"
    /\ dram' = <<>> /\ ended' = <<>>
    /\ UNCHANGED <<listVars, ctx_lst, to_vist, mem, deq, buf, uio>>

(* read(ctx->fd): returns when there has been an interrupt since the last  *)
(* read.                                                                   *)
WaitReturns ==
    /\ pc = "wait" /\ uio
    /\ uio' = FALSE
    /\ pc' = "idle"
    /\ UNCHANGED <<listVars, ctx_lst, to_vist, list, deq, buf, run, mem,
                   dma, dram, ended>>

-----------------------------------------------------------------------------
(* The DMA: it fills the descriptor at cur from the stream, stores its     *)
(* status, and goes on to the next one until it has done the tail.         *)
(*                                                                         *)
(* What it does when a packet ends before its chunk, or fills it without   *)
(* ending, is not for the library to say, and the repository's two         *)
(* accounts differ.  The DMA of modules/axidma/README.md (sof) leaves the  *)
(* rest of the chunk alone and "will fetch the next SG entry with its SOF  *)
(* bit set", and is "FROZEN FOREVER" by a packet longer than its chunk;    *)
(* the dequeue loop looks for the next packet in the next descriptor, as a *)
(* DMA that fills one descriptor after another has it.                     *)

EndsEarly(d, eof) == dma.sof /\ eof /\ ~d.eof
Freezes(d, eof) == dma.sof /\ d.eof /\ ~eof

Receive(n, eof) ==
    LET d == mem[dma.cur]
        fires == eof /\ dma.count + 1 = dma.threshold
    IN /\ dma.state = "busy"
       /\ dma.skip => d.sof
       /\ n \in 1..d.len
       /\ IF OneEach THEN eof = d.eof ELSE TRUE
       /\ eof \/ n = d.len
       /\ mem' = [mem EXCEPT ![dma.cur].status =
                    [len |-> n, eof |-> eof, complete |-> TRUE, err |-> FALSE]]
       /\ dram' = [a \in DOMAIN dram \cup d.buf..d.buf + n - 1 |->
                     IF a \in d.buf..d.buf + n - 1
                     THEN <<Len(ended) + 1, dma.byte + a - d.buf>> ELSE dram[a]]
       /\ ended' = IF eof THEN Append(ended, dma.byte + n) ELSE ended
       /\ dma' = [dma EXCEPT
                    !.byte = IF eof THEN 0 ELSE @ + n,
                    !.count = IF fires THEN 0 ELSE IF eof THEN @ + 1 ELSE @,
                    !.cur = d.next,
                    !.skip = EndsEarly(d, eof),
                    !.state = IF Freezes(d, eof) THEN "halted"
                              ELSE IF dma.cur = dma.tail THEN "idle" ELSE "busy"]
       /\ uio' = (uio \/ fires)
       /\ UNCHANGED <<listVars, progVars>>

Dma == /\ dma.state = "busy"
       /\ \E n \in 1..mem[dma.cur].len, eof \in BOOLEAN : Receive(n, eof)

(* A descriptor of the chunk that a short packet has left. *)
Skip ==
    /\ dma.state = "busy"
    /\ dma.skip /\ ~mem[dma.cur].sof
    /\ dma' = [dma EXCEPT !.cur = mem[dma.cur].next,
                          !.state = IF dma.cur = dma.tail THEN "idle" ELSE @]
    /\ UNCHANGED <<listVars, progVars, mem, uio, dram, ended>>

(* A slave or decode error stops the DMA and interrupts. *)
ReceiveFails ==
    /\ dma.state = "busy"
    /\ mem' = [mem EXCEPT ![dma.cur].status.err = TRUE]
    /\ dma' = [dma EXCEPT !.state = "halted"]
    /\ uio' = TRUE
    /\ UNCHANGED <<listVars, progVars, dram, ended>>

(* The DMA's timeout: packets have ended, fewer than the threshold, and    *)
(* the next one is long in coming.                                         *)
DelayIrq ==
    /\ dma.timeout /\ dma.count > 0 /\ dma.state # "halted"
    /\ dma' = [dma EXCEPT !.count = 0]
    /\ uio' = TRUE
    /\ UNCHANGED <<listVars, progVars, mem, dram, ended>>

-----------------------------------------------------------------------------
(* axidma_dequeue_s2mm_buf, one read of a descriptor's status word at a    *)
(* time: the DMA may write it between two reads.                           *)

(* History: the complete bits that buffer b is judged by may be those of   *)
(* the transfer before: the list was started again without being           *)
(* rewritten, and its transfer failed, was running when b was asked for,   *)
(* or skipped descriptors.                                                 *)
StaleStatus(b) == list = "reused" /\ (dma.sof \/ dma.state = "halted" \/ ~b.quiet)

DequeueUnchanged == UNCHANGED <<listVars, ctx_lst, list, mem, dmaVars>>

DequeueEnd ==
    /\ pc = "idle" /\ list # "new"
    /\ to_vist \in {NULL, SENTINEL}
    /\ to_vist' = NULL
    /\ buf' = EndOfList
    /\ pc' = "got"
    /\ UNCHANGED <<deq, run>> /\ DequeueUnchanged

Dequeue ==
    /\ pc = "idle" /\ list # "new"
    /\ to_vist \in DOMAIN entries
    /\ deq' = [NoDeq EXCEPT !.e = to_vist, !.base = entries[to_vist].data_offset,
                            !.quiet = dma.state # "busy"]
    /\ pc' = "len"
    /\ UNCHANGED <<to_vist, buf, run>> /\ DequeueUnchanged

(* The length of the last descriptor only. *)
ReadLenLast ==
    /\ pc = "len"
    /\ deq' = [deq EXCEPT !.len = Status.len]
    /\ pc' = "complete"
    /\ UNCHANGED <<to_vist, buf, run>> /\ DequeueUnchanged

ReadLen ==
    /\ pc = "len"
    /\ deq' = [deq EXCEPT !.len = @ + Status.len]
    /\ pc' = "complete"
    /\ UNCHANGED <<to_vist, buf, run>> /\ DequeueUnchanged

ReadComplete ==
    /\ pc = "complete"
    /\ deq' = IF ~Status.complete \/ Status.err
              THEN [deq EXCEPT !.code = "TRANSFER_FAILED"] ELSE deq
    /\ pc' = IF deq.e = Len(entries) THEN "return" ELSE "eof"
    /\ UNCHANGED <<to_vist, buf, run>> /\ DequeueUnchanged

ReadEof ==
    /\ pc = "eof"
    /\ IF Status.eof
       THEN pc' = "return" /\ UNCHANGED deq
       ELSE pc' = "len" /\ deq' = [deq EXCEPT !.e = @ + 1]
    /\ UNCHANGED <<to_vist, buf, run>> /\ DequeueUnchanged

(* to_vist moves on one entry, not past the buffer's last. *)
DequeueReturnsOneOn ==
    /\ pc = "return"
    /\ to_vist' = NextEntry(to_vist)
    /\ buf' = [base |-> deq.base, len |-> deq.len, code |-> deq.code,
               quiet |-> deq.quiet]
    /\ run' = [run EXCEPT !.taken = @ + 1,
                          !.broken = @ \/ deq.code = "TRANSFER_FAILED" \/ StaleStatus(deq)]
    /\ pc' = "got" /\ deq' = NoDeq
    /\ DequeueUnchanged

DequeueReturns ==
    /\ pc = "return"
    /\ to_vist' = NextEntry(deq.e)
    /\ buf' = [base |-> deq.base, len |-> deq.len, code |-> deq.code,
               quiet |-> deq.quiet]
    /\ run' = [run EXCEPT !.taken = @ + 1,
                          !.broken = @ \/ deq.code = "TRANSFER_FAILED" \/ StaleStatus(deq)]
    /\ pc' = "got" /\ deq' = NoDeq
    /\ DequeueUnchanged

(* The program has looked at the buffer. *)
Consumed ==
    /\ pc = "got"
    /\ pc' = "idle" /\ buf' = NoBuf
    /\ UNCHANGED <<to_vist, deq, run>> /\ DequeueUnchanged

(* axidma_reset_lst_traversal. *)
ResetTraversal ==
    /\ pc = "idle" /\ list # "new"
    /\ to_vist' = First
    /\ run' = [run EXCEPT !.taken = 0, !.broken = FALSE]
    /\ UNCHANGED <<pc, deq, buf>> /\ DequeueUnchanged

-----------------------------------------------------------------------------
Dequeuing == DequeueEnd \/ Dequeue \/ ReadLen \/ ReadComplete \/ ReadEof \/ DequeueReturns

(* A program that deletes a list does so between transfers. *)
S2mmNext ==
    \/ Build \/ Extend \/ WriteSgList
    \/ dma.state # "busy" /\ Delete
    \/ \E wait_irq \in WaitIrq, enable_timeout \in Timeouts :
         Transfer(wait_irq, enable_timeout)
    \/ WaitReturns
    \/ Dma
    \/ Skip
    \/ ReceiveFails
    \/ DelayIrq
    \/ Dequeuing \/ Consumed \/ ResetTraversal

S2mmSpec == S2mmInit /\ [][S2mmNext]_svars

-----------------------------------------------------------------------------
(* Properties. *)

(* While it runs, the DMA is at a descriptor of the list that was written, *)
(* and the descriptor is that entry's: it never follows the next pointer   *)
(* of the last descriptor, which the library leaves uninitialised.         *)
DmaStaysInList ==
    dma.state = "busy" =>
        \E k \in DOMAIN entries :
            /\ dma.cur = DescOf(k) /\ dma.cur \in DOMAIN mem
            /\ mem[dma.cur].buf = entries[k].buf_phys
            /\ mem[dma.cur].len = entries[k].len

(* The packet of this transfer that a dequeued buffer should hold. *)
ThisPacket == run.taken

(* The buffer's bytes, read through the data buffer's virtual addresses    *)
(* from base on, are those of the packet, in order, all of them and no     *)
(* more (a packet the list was too short for may begin or end outside it). *)
HoldsThisPacket(b) ==
    LET at(x) == VirtToPhys(data_plist, b.base + x)
        start == dram[at(0)][2]
    IN /\ at(0) \in DOMAIN dram
       /\ start = 0 \/ b.base = 0
       /\ \A x \in 0..b.len - 1 : /\ at(x) \in DOMAIN dram
                                  /\ dram[at(x)] = <<ThisPacket, start + x>>
       /\ IF ThisPacket <= Len(ended) THEN ended[ThisPacket] = start + b.len
                                      ELSE to_vist = SENTINEL

(* The n-th buffer dequeued as a success once the DMA has stopped is the   *)
(* n-th packet of the transfer, as long as the traversal is of one         *)
(* transfer and without a failure (run.broken).  This is so however the    *)
(* stream divides its packets among the chunks if the DMA fills one        *)
(* descriptor after another; with the DMA of modules/axidma/README.md      *)
(* (dma.sof), the traversal meets a failure after the first packet that    *)
(* ends before its chunk does, and the property says nothing of the        *)
(* buffers that follow.                                                    *)
DequeuedIsNthPacket ==
    pc = "got" /\ buf.code = "TRANSFER_SUCCESS" /\ buf.quiet /\ ~run.broken =>
        HoldsThisPacket(buf)

(* "TRANSFER_SUCCESS: This is a valid buffer" (src/README.md), also when   *)
(* the program does not wait for the DMA to stop.                          *)
PolledIsPacket ==
    pc = "got" /\ buf.code = "TRANSFER_SUCCESS" /\ ~run.broken => HoldsThisPacket(buf)

(* The DMA has put data there in this transfer. *)
Landed(b) ==
    LET at(x) == VirtToPhys(data_plist, b.base + x)
    IN /\ at(0) \in DOMAIN dram
       /\ \A x \in 0..b.len - 1 : at(x) \in DOMAIN dram

(* A buffer dequeued as a success, while the DMA runs or after it, has     *)
(* been received in this transfer and holds its n-th packet's data as far  *)
(* as the length given goes: the status it was judged by is not left over  *)
(* from an earlier transfer.                                               *)
FreshSuccess ==
    pc = "got" /\ buf.code = "TRANSFER_SUCCESS" /\ ~StaleStatus(buf) =>
        Landed(buf)

(* The end of the list comes after every packet received has been          *)
(* dequeued, a packet that the list was too short for included, unless a   *)
(* failure was reported on the way, a buffer was judged by a stale status  *)
(* or another transfer was started before the traversal was.               *)
EndMeansAll ==
    pc = "got" /\ buf.code = "END_OF_LIST" =>
        \/ run.broken
        \/ ThisPacket = Len(ended) + (IF dma.byte = 0 THEN 0 ELSE 1)
=============================================================================
