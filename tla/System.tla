------------------------------- MODULE System -------------------------------
(***************************************************************************)
(* The parts together, as src/example.c uses them: a program opens the DMA *)
(* and the pinner, pins a buffer for descriptors and one for data, runs    *)
(* transfers over them with the library, and takes everything down again.  *)
(* It may die at any point, and another one be started.                    *)
(*                                                                         *)
(* The pinner is its abstract service (PinService, which the driver's      *)
(* model is shown to implement); pages that it does not owe are taken to   *)
(* be lost.  Library calls, DMA and interrupts are those of S2mm.  Nothing *)
(* of this stops the DMA: axidma_close and the death of a program leave it *)
(* running.                                                                *)
(***************************************************************************)
EXTENDS S2mm

CONSTANTS
    PAGE,        \* bytes in a page
    MaxPages,    \* PINNER_MAX_PAGES
    None         \* no file

ASSUME SystemAssumption == PAGE \in Nat \ {0} /\ MaxPages \in Nat

Bufs == {"sg", "data"}

VARIABLES
    proc,        \* the place of main, or "none", "running" a list, "dying"
    bufs,        \* the physlist of each buffer, what pin_buf was given
    open, owner, pinned,    \* the pinner
    stray        \* history: an interrupt that is not of the transfer waited
                 \* for may come or be unread, or the DMA run on unwatched

sysVars == <<proc, bufs, open, owner, pinned, stray>>
allVars == <<svars, sysVars>>

PagesOf(plist) == UNION {e.addr \div PAGE .. (e.addr + e.len - 1) \div PAGE :
                           e \in ToSet(plist)}
AllPages == UNION {PagesOf(p) : p \in SgPlists \cup DataPlists}

Owed == UNION {pinned[q] : q \in Bufs}
Pinner == INSTANCE PinService
          WITH Files <- {"fd"}, Pins <- Bufs, Pages <- AllPages, resident <- Owed
pinnerVars == <<open, owner, pinned>>

SystemInit ==
    /\ S2mmInit
    /\ Pinner!Init
    /\ proc = "none" /\ bufs \in [sg : SgPlists, data : DataPlists]
    /\ stray = FALSE

-----------------------------------------------------------------------------
(* main, before and after the transfers. *)

Advance(from, to) == proc = from /\ proc' = to

(* The DMA may still write or interrupt. *)
Restless == dma.state = "busy" \/ (dma.timeout /\ dma.count > 0)

(* axidma_open: a reader of the device sees the events after its open.  On *)
(* its error path the file is closed again, as if it had not been opened.  *)
AxidmaOpen ==
    /\ Advance("none", "ctx")
    /\ ctx_lst' = FALSE
    /\ uio' = FALSE
    /\ stray' = Restless
    /\ UNCHANGED <<listVars, pc, to_vist, list, deq, buf, run, mem, dma, dram,
                   ended, bufs, pinnerVars>>

PinnerOpen ==
    /\ Advance("ctx", "pinner")
    /\ Pinner!Open("fd")
    /\ UNCHANGED <<svars, bufs, stray>>

PinBuf(q) ==
    /\ IF q = "sg" THEN Advance("pinner", "sg") ELSE Advance("sg", "running")
    /\ Pinner!Pin("fd", q, PagesOf(bufs[q]))
    /\ UNCHANGED <<svars, bufs, stray>>

(* The list is gone; the DMA is not looked at. *)
AxidmaClose ==
    /\ pc = "none" /\ Advance("running", "closed")
    /\ UNCHANGED <<svars, bufs, pinnerVars, stray>>

UnpinBuf(q) ==
    /\ IF q = "data" THEN Advance("closed", "data_unpinned")
                     ELSE Advance("data_unpinned", "unpinned")
    /\ Pinner!Unpin("fd", q)
    /\ UNCHANGED <<svars, bufs, stray>>

(* pinner_close, and the end of main. *)
PinnerClose ==
    /\ Advance("unpinned", "none")
    /\ Pinner!Close("fd")
    /\ UNCHANGED <<svars, bufs, stray>>

-----------------------------------------------------------------------------
(* Death: a signal, or a call of main that fails and returns.  The list    *)
(* goes with the program's memory; the descriptors written stay where the  *)
(* DMA finds them, and the kernel closes the files.                        *)

Dies ==
    /\ proc \notin {"none", "dying"}
    /\ proc' = "dying"
    /\ pc' = "none"
    /\ sg_plist' = <<>> /\ data_plist' = <<>> /\ entries' = <<>>
    /\ offsets' = [sg |-> 0, data |-> 0]
    /\ add' = NoCall /\ ret' = "NONE" /\ to_vist' = NULL /\ ctx_lst' = FALSE
    /\ list' = "new" /\ deq' = NoDeq /\ buf' = NoBuf
    /\ run' = [run EXCEPT !.taken = 0, !.broken = FALSE]
    /\ stray' = (stray \/ dma.state = "busy")
    /\ UNCHANGED <<mem, dmaVars, bufs, pinnerVars>>

(* pinner_release frees the pinnings that are left, one by one. *)
Releases(q) ==
    /\ proc = "dying"
    /\ Pinner!Unpin("fd", q)
    /\ UNCHANGED <<svars, proc, bufs, stray>>

(* The last file is closed.  pinner_release has freed the pinnings first.  *)
Dead ==
    /\ Advance("dying", "none")
    /\ IF open = {} THEN UNCHANGED pinnerVars ELSE Pinner!Close("fd")
    /\ UNCHANGED <<svars, bufs, stray>>

-----------------------------------------------------------------------------
(* The library's calls between, and the DMA. *)

(* axidma_list_new is given the physlists of the pinned buffers. *)
BuildHere == Build /\ (pc = "none" => sg_plist' = bufs.sg /\ data_plist' = bufs.data)

Starts ==
    \E wait_irq \in WaitIrq, enable_timeout \in Timeouts :
        /\ Transfer(wait_irq, enable_timeout)
        /\ stray' = (stray \/ uio \/ ~wait_irq \/ enable_timeout)
        /\ UNCHANGED <<proc, bufs, pinnerVars>>

Library ==
    /\ proc = "running"
    /\ \/ Starts
       \/ /\ \/ BuildHere \/ Extend \/ Delete \/ WriteSgList
             \/ WaitReturns \/ Dequeuing \/ Consumed
          /\ UNCHANGED sysVars

Hardware == (Dma \/ Skip \/ ReceiveFails \/ DelayIrq) /\ UNCHANGED sysVars

SystemNext ==
    \/ AxidmaOpen \/ PinnerOpen \/ AxidmaClose \/ PinnerClose
    \/ \E q \in Bufs : PinBuf(q) \/ UnpinBuf(q) \/ Releases(q)
    \/ Library \/ Hardware
    \/ Dies \/ Dead

SystemSpec == SystemInit /\ [][SystemNext]_allVars

Reading == WaitReturns /\ UNCHANGED sysVars
Streaming == Dma /\ UNCHANGED sysVars

(* The stream does not dry up before the DMA has done its descriptors, and *)
(* the kernel wakes the reader.                                            *)
SystemFairSpec ==
    SystemSpec /\ WF_allVars(Streaming) /\ WF_allVars(proc = "running" /\ Reading)

-----------------------------------------------------------------------------
(* Properties. *)

(* While the DMA runs, the descriptor it is at and the buffer it fills lie *)
(* in pages that the pinner holds: the program unpins them only when its   *)
(* wait has returned, and the physlists' addresses are those of pages it   *)
(* pinned.  A program that dies during a transfer, or does not wait for    *)
(* its end, ends this (stray): the DMA then writes to pages that may be    *)
(* anyone's.                                                               *)
DmaInHeldPages ==
    dma.state = "busy" /\ ~stray =>
        PagesOf(<<[addr |-> dma.cur, len |-> DESC],
                  [addr |-> mem[dma.cur].buf, len |-> mem[dma.cur].len]>>) \subseteq Owed

(* When the wait of a program returns, at least as many packets of its     *)
(* transfer have ended as the list has chunks, or an error has halted the  *)
(* DMA, however the stream cut its packets and whatever the programs       *)
(* before it did and died of; if it found the DMA at rest, waits for each  *)
(* of its transfers, leaves the DMA's timeout off (stray) and the          *)
(* threshold field can hold the number.                                    *)
WaitMeansPackets ==
    [][pc = "wait" /\ pc' = "idle" /\ ~stray =>
         \/ dma.state = "halted"
         \/ EofCount \in 1..IRQ_FIELD - 1 => EofCount <= Len(ended)]_allVars

(* "Waiting for DMA to finish!" (axidma.c:463): when the wait of such a    *)
(* program returns, the DMA has finished.  This is what unpinning after it *)
(* relies on, and it asks more of the environment: a packet ends with each *)
(* chunk, and only there (OneEach), and there are fewer chunks than the    *)
(* threshold field counts.  The code breaks it where one of the two fails. *)
WaitMeansDone ==
    [][pc = "wait" /\ pc' = "idle" /\ ~stray => dma.state # "busy"]_allVars

(* A program that waits for a transfer the DMA has taken up gets its       *)
(* interrupt.  (One that the DMA ignores, after an error, waits for ever.) *)
WaitEnds == pc = "wait" /\ dma.state = "busy" ~> pc # "wait"
=============================================================================
