# mpsoc_axidma: models and proofs

This directory holds TLA+ modules that model the AXI DMA solution of this
repository, TLC configurations that check them on small instances, and proofs
for TLAPS. Paths below are relative to the repository.

## The system

A user program receives data from an AXI DMA without a device tree overlay. It
asks the *pinner* driver to hold its buffers in physical memory and to tell it
where they are, builds a scatter-gather list over them with the *axidma
library*, and drives the DMA's registers, which the *axidma* driver gives it as
a UIO device.

| Component | State | Operations | Modules | Status |
|---|---|---|---|---|
| pinner driver, calls and lists (`modules/pinner/pinner.c`) | `users`, each `proc_info`'s `pinning_list`, `users_mutex`, page references, struct pinning's | `pinner_open`, `pinner_release`, `pinner_write` (PIN, UNPIN, FLUSH), `pinner_init`, `pinner_exit` | `Pinner`, `PinService`, `PinnerProofs`, `PinnerSafetyProofs` | modelled |
| pinner driver, layout of a pinning (same file) | the page array, scatterlist and physlist of one command | `pinner_do_pin`'s arithmetic, `pinner_alloc_and_fill_sglist`, `pinner_send_physlist` | `PinLayout`, `PinLayoutProofs` | modelled |
| library, scatter-gather list (`src/axidma.c`) | `sg_list`: physlists, entries, the two offsets | `axidma_list_new`, `axidma_add_entry`, `axidma_list_del` | `SgList`, `Apportion`, `SgListProofs` | modelled |
| library, transfer and dequeue (`src/axidma.c`) | `ctx->lst`, `to_vist`, the descriptors in memory | `axidma_open`, `axidma_close`, `axidma_write_sg_list`, `axidma_s2mm_transfer`, `axidma_dequeue_s2mm_buf`, `axidma_reset_lst_traversal` | `S2mm`, `System`, `S2mmProofs`, `SystemProofs` | modelled |
| axidma driver (`modules/axidma/axidma.c`) | `axidma_enable`, `axidma_phys_base`, `axidma_irq_line`, `axidma_virt`, `axidma_uio_info`, the UIO registration | sysfs stores, interrupt handler, opens, init, exit | `AxidmaDriver`, `AxidmaDriverProofs` | modelled |
| AXI DMA core, UIO core | registers, status words, interrupt count | external | in `S2mm`, `System` and `AxidmaDriver`, from how the code uses them | partly |
| example program (`example.c`) and pinner wrappers (`src/pinner_fns.c`) | the place of `main` | open, pin, build, transfer, dequeue, close, unpin | `System` | partly |
| UIO tutorial (`extra_info/uio`) | the timer's `TCSR`, what `our_init` has taken | `our_init`, `our_exit`, `axitimer_irq`, the program's `main` | `AxiTimer`, `AxiTimerProofs` | modelled |
| other example programs (`userspace_example.c`, `user_example.c`) | | | | not modelled |
| older axidma driver (`extra_info/uio_with_sysfs`) | | | | not modelled |
| Makefiles | | | | not modelled |

How they interact:

- program → pinner: `write` of a command; the answer is the *handle* (two random
  numbers) and the *physlist*, the physical runs of the buffer;
- program → library: the library reads physlists and never talks to the pinner;
- library → DMA: descriptors in the pinned buffer, registers through `mmap`; a
  write of the tail descriptor's address starts the transfer;
- DMA → library: status words in the descriptors, written at any time; an
  interrupt, which the axidma driver's handler acknowledges and UIO turns into
  the return of `read`;
- administrator → axidma driver: sysfs `phys_base`, `irq_line` and `enable`;
  `rmmod`;
- program's death → kernel: its files are closed; the pinner drops its pinnings
  and nothing tells the DMA.

What is hard, and what makes each part correct:

- **pinner**: several threads in `write` on one file with no lock on the
  pinning list; error paths that each undo some of the steps before; `release`
  of a file with pinnings left; `rmmod`. Correct means that page references are
  exactly those of the pinnings and of the commands under way, that no freed
  struct is used, that a failed command leaves nothing behind and a file takes
  its pinnings along, and that a handle only ever affects its own file.
- **layout**: offsets of unaligned buffers, unsigned subtractions for the last
  page, page counts at the limit. Correct means that the scatterlist is the
  buffer, to the byte.
- **scatter-gather list**: buffers that straddle physical runs; descriptors
  whose alignment is physical while offsets are virtual; failure after half the
  entries are built. Correct means that entries tile the buffer, descriptors are
  disjoint, aligned and inside, and a failed call changes nothing.
- **transfer and dequeue**: the DMA writes status words while the program reads
  them; stale complete bits; packets that do not match the list's framing; a
  threshold that counts wrongly blocks the read for ever. Correct means that the
  n-th buffer dequeued as a success is the n-th packet and the wait ends when
  the packets have.
- **axidma driver**: the handler can run as soon as the device is registered;
  it reads two status registers and clears both while the DMA sets bits in them;
  registration, mapping and flag change in separate steps, and so do the steps
  of loading. Correct means that the handler never meets an unmapped address,
  nothing is undone twice or left behind, and every interrupt of the DMA is
  reported to the readers.
- **the whole**: a wait that returns is all that tells a program that it may
  unpin, and what it tells is only that packets have been counted; programs die
  and leave the DMA running. Correct means that the DMA works in pinned pages
  only and that a wait's return means that it is done.
- **timer tutorial**: driver and program write one register with no lock.
  Correct means that the interrupts a program counts are periods of its own
  timer, and that neither undoes a setting of the other.

`PROJECT.json` lists the hazards line by line with the properties that would
catch each.

## How the modules stand to the code

Operators that no action uses (`FreeDelNoUnlink`, `EofCountButLast`, ...) are
deliberate faults. Each stands before the definition it would replace, and
`PROJECT.json` names the property that TLC finds violated with it.

### Pinner

One step of a thread is the code between two accesses to shared state; `pc`
names the statement it is about to run. `PinnerInit`, `OpenEntry`, `CloseEntry`,
`WritePin`, `WriteHandle`, `WriteRejected` and `ExitEntry` enter a function;
the other actions are its steps:

| Code | Actions |
|---|---|
| `pinner_open` | `OpenEntry` `OpenLock` `OpenAdd` |
| `pinner_do_pin` | `WritePin` `GetUserPages` / `GetUserPagesShort` `NewPinning` `FillSglist` `ListAdd` `Deliver` |
| `pinner_do_unpin`, `pinner_do_flush` | `WriteHandle` `Lookup` `Walk` (one turn of the search), then `FreePut` or `Sync` |
| `pinner_free_pinning` | `FreePut` (put the pages) `FreeSg` (free the scatterlist) `FreeDel` (list_del, kfree) |
| `pinner_release`, `pinner_free_proc_info` | `CloseEntry` `RelLoop` `RelLock` `RelDel` |
| `pinner_exit` | `ExitEntry` `ExitLoop` and the actions of `pinner_free_proc_info` |
| back to user space | `Return` |

`pins` is memory: `Pins` are addresses, a freed one may be handed out again, and
a thread with a stale pointer then acts on what is there now. `pinning_list` is
each file's list, which a search walks entry by entry with no lock, so that
other threads change it between two turns: a cursor whose pinning has been freed
and listed elsewhere goes on on the other list, as in the code. `refs` counts
the references the driver has taken on each page; a pinning's `held` are those
of its pages whose reference it still has. Between `FreePut` and `FreeSg` the two
differ, and a second thread that has found the pinning puts the pages again.
`UseAfterFree`, `BadListDel`, `WildPut`, `CodeGone` and `CallGone` are undefined
behaviour that does more than read or drop the wrong thing: they set `fault` and
the machine stops.

`list_add` and `list_del` are one step each, and so is the loop of `put_page`s.
Two of them at once on a shared file could also break the list's links or
interleave page by page; the model does not follow that, and no property that
holds relies on it: every passing run has one call at a time on a file.

Two constants describe the environment. `SharedFd` lets several threads write to
one file at once; `RmmodBusy` lets the module be removed while files are open
(`pinner_fops` has no `.owner`, so the kernel does not prevent it). `Failures`
is the set of kernel services that may fail.

Left out: the page array (see below), the contents of the buffers, the DMA cache
operations beyond the fact that they need a live pinning, and the two-step wait
of `misc_deregister`, which is a guard of `ExitEntry`. A buffer is the set of
its pages, each occurring once.

`PinService` is what the driver promises: files, pinnings that belong to a file
and hold pages, and those pages resident for as long as the pinning lives.
`ImplementsService` is the refinement: a pinning exists there from `ListAdd` to
`FreePut`, and a page is resident while it has a reference.

### PinLayout

One pin command, from the size check to the physlist, with the code's modular
arithmetic: `ULONG` and `UINT` stand for 2^64 and 2^32. Actions follow the
statements: `Request` (checks), `GetUserPages`, `FirstPage`, `MiddlePage` (one
turn of the loop), `LastPage`, `DmaMap` (with `dma_map_sg` setting
`dma_address`, or failing and leaving it), `SendPhyslist`.

### SgList and Apportion

`AddEntry` is the entry of `axidma_add_entry` with its early returns; each turn
of its loop is one of `NoDescriptor`, `NoMemory`, `NextPart`, `NoNextPart` and
`LastPart`, which works on copies of the offsets (`add`) and changes the list in
the last turn only, as the code does. `GetEntryIndex`, `VirtToPhys` and
`FindContiguousAlignedAfter` are the code's walks of a physlist.

`Apportion` says what a list promises: consecutive chunks of the data buffer,
one for each successful call, nothing changed by the others.

### S2mm

`S2mm` extends `SgList` with the calling program (one thread), the descriptors
in physical memory (`mem`) and the DMA. `Dequeue`, `ReadLen`, `ReadComplete`,
`ReadEof` and `DequeueReturns` are `axidma_dequeue_s2mm_buf`, one read of a
status word at a time. `Dma` receives one descriptor's worth of a packet, stores
its status, counts the packets that end and raises the interrupt at the
threshold; `ReceiveFails` is an error interrupt.

What the DMA does when a packet does not end where its chunk does decides what
the dequeue loop finds, and the repository has two accounts of it.
`axidma_dequeue_s2mm_buf` looks for the next packet in the descriptor after the
one whose status has EOF, that is, in the next descriptor whatever chunk it is
of. `modules/axidma/README.md:88-96` says that after a short packet the DMA "will
fetch the next SG entry with its SOF bit set", and that a packet longer than its
chunk leaves it "FROZEN FOREVER". `dma.sof`, chosen once at the start, says which
account holds: a DMA that fills one descriptor after another, or one that leaves
the rest of the chunk alone (`Skip`) or halts. With the constant `SofDma` TRUE it
may be either, as in `s2mm_stream`; with FALSE it is the first. Each theorem says
which it is about. The constant `OneEach` asks of the stream that a packet ends with
each chunk and nowhere else; the two accounts then agree.

History variables: `dram` says which byte of which packet is where, `ended` the
lengths of the packets of the transfer, `list` whether the list's descriptors are
fresh, used or used again, `run.broken` whether the traversal has met a failure or been
overtaken by another transfer.

Environment: the program writes a list before it transfers it, and starts a
transfer when the DMA is not running. After an error the DMA is halted; the
library never resets it, so later transfers are ignored. Memory is coherent.

### System

`System` is `src/example.c` over everything else. `proc` is the place of `main`:
`AxidmaOpen`, `PinnerOpen`, `PinBuf("sg")`, `PinBuf("data")`, then `running`,
where the actions of `S2mm` are the library calls, then `AxidmaClose`,
`UnpinBuf("data")`, `UnpinBuf("sg")`, `PinnerClose`. The pinner is the abstract
`PinService`, which `pinner_disciplined` shows the driver to implement.

`Dies` is a signal or one of `main`'s early returns, at any point: the list is
gone, the descriptors are not, and `Releases` and `Dead` are the kernel closing
the files. Another program may then start and find the DMA running. The history
variable `stray` says that it did, or that a transfer was started without
waiting or with the DMA's timeout on: an interrupt that is not of the transfer
waited for may then end the wait.

### AxidmaDriver

Each store to `enable` advances by one statement with an effect on shared state:
`Branch`, `FindIrq`, `Register`, `Ioremap`, `Enabled`, or `Unregister`,
`Iounmap`, `ClearVirt`, `Disabled`. `PhysBaseStore` and `IrqLineStore` are one
assignment each, by any thread, at any time. `AxidmaInit`, three times
`CreateFile`, or `CreateFileFails`, are `axidma_init`: a file takes stores from
the moment it exists. `ExitUnregister` and `RemoveFiles` are `axidma_exit`.
`in_use` is left out because nothing sets it (`axidma_open` and
`axidma_release` are not in `axidma_uio_info`): its tests always pass. An open
file holds the module (UIO takes a reference), hence `users = 0` at removal.

`axidma_irq_handler` is `ReadMm2s`, `ReadS2mm`, `AckMm2s`, `AckS2mm` and
`Handled`, one register access each, while `DmaInterrupt` sets bits of either
channel. The handler's lines 33, 34 and 36 are three loads of `axidma_virt` in
the source, two to compute the registers' addresses and one for the test;
`ReadMm2s` makes them one, as the compiler does, which may since the variable is
not volatile. With three, `HandlerSafe` would not hold: the device is registered
before it is mapped, and a handler that computes the addresses from NULL just
before `ioremap` is done would find the mapping made at the test. The line is
shared, so that the handler may also run with nothing to do; it does run
(`Interrupt`) when the DMA holds its own line up.

`astray` collects what the driver has no way back from: a failed `ioremap`, a
load that fails or a removal that begins in the middle of a store, two stores of
`enable` at once, `phys_base` stored while the device is being registered. Each
property names those it does not survive.

### AxiTimer

`Remap`, `DeviceRegister`, `FindIrq` and `UioRegister` are `our_init`, each with
its failure and what the error path gives back; `ExitUio` and `ExitRest` are
`our_exit`. `ReadStatus`, `ModifyReads`, `ModifyWrites` and `Handled` are
`axitimer_irq`, whose `|=` is a read and a write. `Open` to `Close` are the
program's `main`, `Killed` a signal. Of the register the model keeps `INT` and
which of the program's three settings the other bits are. `overwrote` records
that the handler's write undid one of the program's.

## What the runs check

| Run | Question | Properties |
|---|---|---|
| `pinner_disciplined` | Two threads, one call at a time on a file, every failure whose error path the driver gets right | `RefsExact` `NoFault` `QuietMeansClean` `PinAllOrNothing` `OnlyOwnPinnings` `ImplementsService` |
| `pinner_unruly` | Busy removal, short `get_user_pages_fast`, no memory for the pinning or its scatterlist: what still holds up to the first undefined behaviour, and does every call return? | `TypeOK` (pointers set) `UsersExclusive` `CallsReturn` |
| `pin_layout` | Every start and size in a small address space | `ScatterlistIsBuffer` |
| `sg_list` | Every sequence of `axidma_add_entry` over buffers in up to three runs, overrunning ones included | `EntriesArePhysical` `EntriesTile` `OnlyLastOverruns` `ApportionsBuffer` |
| `s2mm_stream` | Either account of the DMA; packets of any length, programs that wait or poll, a threshold field that is too small | `DmaStaysInList` `DequeuedIsNthPacket` `FreshSuccess` `EndMeansAll` |
| `system` | `example.c` over pinner, library and DMA, one program after another, dying anywhere; one packet for each chunk, and fewer chunks than the field counts | `DmaInHeldPages` `WaitMeansDone` `WaitMeansPackets` `WaitEnds` |
| `axidma_driver` | Loading, stores, opens, interrupts, every failure, removal at any time | `HandlerSafe` `NoFault` `EnableIsTrue` `NeverDangling` `ExitClean` `NoInterruptLost` `InterruptDelivered` |
| `axi_timer` | The tutorial's driver and program sharing a register | `HandlerSafe` `ReleasedOnce` `ReadsAreTicks` `ReadReturns` |

They all pass. The others end in a counterexample, each to something the
repository says of itself:

| Run | What TLC shows |
|---|---|
| `pinner_short_put` | When `get_user_pages_fast` pins fewer pages than asked, the error path (`pinner.c:280`) puts all of the array's entries, unwritten ones included. `code_commentary.txt:80` says that pages are put after a *successful* call. |
| `pinner_shared_fd` | Two threads unpin one handle on one file; in between, another file's pinning is given the freed address, and the second unpin frees that one (`pinner.c:375`). `pinner.c:350` means to prevent unpinning someone else's pinnings. |
| `pin_physlist` | `dma_map_sg` puts the address of an entry's first byte in `dma_address`; `pinner.c:110` adds the offset again, and the first entry of an unaligned buffer is sent with a wrong address. `modules/pinner/README.md:68` promises the buffer's. Where `dma_map_sg` fails, which the code does not notice, the field is the page's (`pinner.c:162`) and the answer right. |
| `s2mm_poll` | `axidma_dequeue_s2mm_buf` reads the length before the complete bit (`axidma.c:530`). A descriptor that completes in between gives `TRANSFER_SUCCESS` with a length that misses it. |

Other disagreements met while modelling, without a run of their own. The model has
all of these but the page array, `in_use` and the example's missing handle, and
the properties that meet one exclude it by name:

- when the scatterlist cannot be allocated, nobody puts the pages
  (`pinner.c:276`): the pinning has no scatterlist to put them from, and
  `put_page_list` is in the other branch, though `pinner.c:278` says that the
  pinning takes care of them. From then on `RefsNotLeaked` is false. The same
  path does `list_del` on a pinning that is on no list (`BadListDel`);
- two threads that unpin one handle on one file can both run the `put_page` loop
  before either frees the scatterlist (`pinner.c:54`), and a page that another
  pinning holds loses its reference. `pinner.c:42` calls the loop the counterpart
  of the one `get_user_pages_fast`;
- `find_contiguous_aligned_after` subtracts unsigned numbers after aligning
  (`axidma.c:220`): where a descriptor buffer ends between a descriptor and the
  next aligned address, as the `malloc(5000)` of `example.c` may, it returns an
  offset beyond the buffer, where `axidma.c:198` says `AXIDMA_NOT_FOUND`.
  `OnlyLastOverruns` has this as its one exception (`Overruns`);
- with the DMA of `modules/axidma/README.md`, the descriptors that a short packet
  leaves alone are dequeued as a failed buffer, and the packet after them with
  it (`axidma.c:539`), though nothing failed (`README.md:268`);
- a list that is run again without being rewritten, as `README.md:243` allows,
  still has its complete bits (`axidma.c:532`): when the second transfer fails,
  the buffers of the first are returned as its successes (`StaleStatus`);
- the wait returns while the DMA still writes in four cases, though `axidma.c:463`
  is "Waiting for DMA to finish!" and `example.c:93` unpins after it. The
  threshold is the list's count of EOFs and the DMA counts packets, so that one
  that ends inside a chunk counts as a chunk (`axidma.c:454`); more chunks than
  the eight-bit field holds (`cnt & 0xFF`); the interrupt of the DMA's timeout
  (`axidma.c:467`); and that of an earlier transfer that nobody waited for.
  `WaitMeansDone` excludes the four by `OneEach`, by the bound on chunks and by
  `stray`; `WaitMeansPackets` says what the first leaves of it;
- the timer handler's `|=` (`axitimer_module.c:28`) reads the register and writes
  it back: a write of the program in between is undone, and the timer is on
  again, or off (`overwrote`). Line 27 means to clear one bit;
- a successful pin sets its pointer to the page array to NULL and never frees it
  (`pinner.c:241`);
- `rmmod` with files open frees structures that calls still use;
- `axidma.c:20` of the driver says "Make sure only one user at a time, and
  disable sysfs files when in use"; nothing sets `in_use`, and neither happens;
- a failed `ioremap` leaves the device registered; a removal or a failed load in
  the middle of a store can too, and a store of `phys_base` between
  registration and mapping splits the two (`astray`);
- `irq_create_fwspec_mapping` returns 0 when it fails; the driver registers the
  device without an interrupt then (`modules/axidma/axidma.c:130`);
- nothing stops the DMA: a program that dies during a transfer leaves it writing
  to pages that the pinner has given up, and its interrupt to the next program.
  An error halts the DMA until a reset that the library never gives: every later
  wait blocks (`src/axidma.c:448`);
- `userspace_example.c:55` flushes without a handle, which the driver rejects;
- `axitimer_module.c:93` and `:98` leave with `rc` 0: the module stays in with
  its registers unmapped, and `our_exit` unmaps them again. `:122` leaves the
  struct device registered;
- a timer that a killed program left running ticks once for the next one before
  it is disabled (`ReadsAreTicks` asks that it was at rest).

### Instances and bounds

| Run | Instance |
|---|---|
| `pinner_disciplined` | 2 files, 2 threads, 2 struct addresses, 3 pages with `MaxPages` 2 (so that too large a buffer exists and two pinnings can overlap in a page), 2 values of each random number (a handle can be right, wrong, or match another file's) |
| `pinner_unruly` | 2 files, 2 threads, 2 struct addresses, one page, at most two references begun, one value of each random number: what can block is the mutex and the loops over two pinnings. The failures are those that come when a pin command has something to give back; the others return at once, and `pinner_disciplined` has them |
| `pinner_shared_fd` | 3 threads: two to unpin, one to pin for the other file in between |
| `pin_layout` | pages of 4 bytes, at most 3 of them: a first, a middle and a last one; every address below 40 and every size below 21, so that sizes above the limit and ends on, before and after a page boundary occur; proved for all sizes. `pin_physlist` is the same instance |
| `sg_list` | descriptor and data buffers of one to three runs, at aligned and unaligned addresses, some too small for a descriptor, some whose last run ends between a descriptor and the next aligned address, so that `axidma.c:220` wraps; sizes 0 to 5 over at most 7 bytes, so that a call can fit, fill a run exactly, straddle two boundaries or fail |
| `s2mm_*` | four bytes of data in two runs, three descriptors in two runs, chunks of 1 and 3 bytes (the latter spans the runs); two transfers, the fewest that show stale state (`s2mm_poll`: one). In `s2mm_stream` the threshold field has three values, so that a count of chunks it cannot hold occurs |
| `system` | the same buffers, the first data run at the end of its page; every run in a page of its own; one packet for each chunk, timeout on and off; two transfers over all programs, which lets a second program meet what the first has left |
| `axidma_driver` | one writer of `enable`, others storing two bases (registers may move) and two lines (the DMA's and another's), one user, two devices when a store begins (one can be left by a failed `ioremap`). Two writers, with one base and line, pass too: 801 000 states |
| `axi_timer` | three interrupts instead of ten: the first, the last and one between; one program at a time, any number one after another |

The model's counters are bounded by `MaxTransfers`, `MaxUsers` and `MaxDevices`;
`AxiTimer` counts ticks up to `Reads`; everything else is finite by the
constants. Symmetry is used for pages, threads
and struct addresses in safety runs only; no constant that the specification
compares with a fixed value is in it.

Deadlock is checked except where the system may really stop: in `pinner_unruly`,
`pinner_shared_fd` and `pinner_short_put` after undefined behaviour, in
`s2mm_stream` when the program waits for more packets than the stream ends or for
a frozen DMA, in `system` after a transfer that a halted DMA ignores, and in `axidma_driver` and
`axi_timer` when a module that left a device behind is out.

### Fairness

- `Pinner`: weak fairness of each thread's steps (the kernel schedules a
  runnable thread), strong fairness of the two lock steps (a kernel mutex queues
  its waiters and hands itself to the first).
  Nothing is assumed of user space: it need not make a call. `CallsReturn` is
  checked with one call at a time on a file: with a shared file, a search can be
  kept going by pinnings that come and go under it.
- `System`: weak fairness of `Dma` (the stream does not dry up before the
  descriptors are done; without that the read rightly blocks) and of
  `WaitReturns` (the kernel wakes a reader whose event has come).
- `AxidmaDriver`: weak fairness of `Interrupt` (a level-triggered line that is
  up gets its handlers called) and of the handler's steps once it has begun.
  Stores, programs and the DMA need not do anything.
- `AxiTimer`: the same, and of `Tick` (a timer that runs gets to its period's
  end) and `Read` (the kernel wakes the reader). A step of the program is
  otherwise not forced.

## What is proved

TLAPS checks these for every value of the constants that satisfies the named
assumptions (`PinnerAssumption`, `FiniteAssumption`, `LayoutAssumption`,
`SgListAssumption`, `SizeAssumption`, `S2mmAssumption`, `SystemAssumption`,
`AxidmaAssumption`, `TimerAssumption`) and the hypothesis in the last column:

| Theorem | Statement | If |
|---|---|---|
| `TypeCorrect` (`PinnerProofs`) | `Spec => []TypeOK`, pointers that are about to be used included | |
| `MutexProtects` (`PinnerProofs`) | `Spec => []UsersExclusive` | |
| `ReferencesExact` (`PinnerSafetyProofs`) | `Spec => []RefsExact` | `Disciplined` |
| `ReferencesNotLeaked` (`PinnerSafetyProofs`) | `Spec => []RefsNotLeaked` | `Orderly` |
| `NoUndefinedBehaviour` (`PinnerSafetyProofs`) | `Spec => []NoFault` | `Disciplined` |
| `PinCommandsAtomic` (`PinnerSafetyProofs`) | `Spec => []PinAllOrNothing` | `Orderly` |
| `NothingOutlivesItsFile` (`PinnerSafetyProofs`) | `Spec => []QuietMeansClean` | `Disciplined` |
| `OthersPinningsKept` (`PinnerSafetyProofs`) | `Spec => OnlyOwnPinnings` | `Orderly` |
| `DriverImplementsService` (`PinnerSafetyProofs`) | `Spec => ImplementsService`, the refinement | `Disciplined` |
| `LayoutCorrect` (`PinLayoutProofs`) | `Spec => []ScatterlistIsBuffer` | |
| `EntriesTileBuffer` (`SgListProofs`) | `Spec => []EntriesTile` | |
| `EntriesMapBuffer` (`SgListProofs`) | `Spec => []EntriesArePhysical` | |
| `DescriptorsInBuffer` (`SgListProofs`) | `Spec => []OnlyLastOverruns` | `CutAtPages` |
| `ListApportionsBuffer` (`SgListProofs`) | `Spec => ApportionsBuffer`, the refinement | `NonEmpty` |
| `DmaFollowsList` (`S2mmProofs`) | `S2mmSpec => []DmaStaysInList` | |
| `FreshBuffers` (`S2mmProofs`) | `S2mmSpec => []FreshSuccess` | `InOrder`, `NoWrap`, `DisjointRuns` |
| `AllDequeued` (`S2mmProofs`) | `S2mmSpec => []EndMeansAll` | `InOrder`, `NoWrap`, `DisjointRuns` |
| `PacketsInOrder` (`S2mmProofs`) | `S2mmSpec => []DequeuedIsNthPacket` | `InOrder`, `NoWrap`, `DisjointRuns`, `DisjointData` |
| `WaitEndsTransfer` (`SystemProofs`) | `SystemSpec => WaitMeansDone` | `Streamed` |
| `WaitCountsPackets` (`SystemProofs`) | `SystemSpec => WaitMeansPackets` | |
| `DmaTouchesPinned` (`SystemProofs`) | `SystemSpec => []DmaInHeldPages` | `Streamed` |
| `HandlerAlwaysSafe` (`AxidmaDriverProofs`) | `Spec => []HandlerSafe` | |
| `EnableTellsTruth` (`AxidmaDriverProofs`) | `Spec => []EnableIsTrue` | |
| `VirtNeverDangles` (`AxidmaDriverProofs`) | `Spec => []NeverDangling` | |
| `ExitLeavesNothing` (`AxidmaDriverProofs`) | `Spec => []ExitClean` | |
| `NothingReleasedTwice` (`AxidmaDriverProofs`) | `Spec => []NoFault` | |
| `InterruptsKept` (`AxidmaDriverProofs`) | `Spec => []NoInterruptLost` | |
| `HandlerHasRegisters` (`AxiTimerProofs`) | `Spec => []HandlerSafe` | |
| `LoadingReleases` (`AxiTimerProofs`) | `Spec => []ReleasedOnce` | |
| `CountsTicks` (`AxiTimerProofs`) | `Spec => []ReadsAreTicks` | |

### The hypotheses

Each names what the code gets wrong or does not control:

- `Orderly`: one call at a time on a file, no removal while files are open, and
  the scatterlist's allocation does not fail. `Disciplined`: neither does
  `get_user_pages_fast` fall short. Without any one of them the driver has the
  faults that `pinner_short_put`, `pinner_shared_fd` and the list above show.
  Every other service may fail. `Disciplined` is the environment of
  `pinner_disciplined`.
- `InOrder`: the DMA fills one descriptor after another, of itself, or because the
  stream ends its packets where the list ends its chunks. What
  `modules/axidma/README.md` says of other packets is checked by `s2mm_stream`
  only.
- `CutAtPages`: every run of a descriptor buffer but the last ends at an aligned
  address, as the pinner's do, which end at pages. It says nothing of where the
  last run ends.
- `NoWrap`: no run of the descriptor buffer `Overruns`, so that the unsigned
  subtraction of `axidma.c:220` does not wrap. The `malloc(5000)` of `example.c`
  has no such guarantee: where its last run ends depends on the allocator. What
  the DMA does with a descriptor outside the buffer is nothing that can be said,
  and so the theorems about what it receives need this; `DescriptorsInBuffer` is
  about the buffers it leaves out, too.
- `NonEmpty`: a data buffer has a byte. `Apportion` takes an empty buffer for no
  buffer.
- `SizeAssumption` (of `SgList`): a buffer's size is below 2^32, since the
  library keeps offsets in unsigned integers.
- `DisjointRuns`, `DisjointData`: no two runs of a descriptor buffer, or of a
  data buffer, overlap in memory. The runs of a pinned buffer are different
  pages of one process; nothing is asked of one buffer against the other. With
  two runs at one address two descriptors would be one, and the DMA would write
  the second packet over the first. `MCS2mm` has TLC evaluate these two and
  `NoWrap` for its buffers (`BuffersOfTheorems`).
- `Streamed`: `NoWrap` and `DisjointRuns`; the stream ends its packets where the
  list's chunks end (`OneEach`: without it a short packet raises the interrupt
  early, and the wait means what `WaitMeansPackets` says); and a descriptor buffer has no room for more than 255 descriptors
  (`FewDescriptors`: the count of chunks fits the threshold field; `example.c`'s
  has 5000 bytes).

### The arguments

- `TypeOK` is inductive: a step replaces one call record by another
  (`CallUpdate`), and where the new `pc` needs a pointer the step has set it or
  the old `pc` needed it too.
- `RefsExact` is not inductive: nothing in it stops a pinning from being freed
  while a pin command still fills it, or pages from being counted twice. What is
  missing is `SafeInv`, below. Over it, each step that moves a page says what
  happens to `Balance`, holders minus references: taking references, handing
  them from the call to the pinning (`FillSglist`: one holder less, one more) and
  putting them keep it; the put after a short `get_user_pages_fast` can only
  raise it. `RefsExact` is a balance of zero (`Accounted`), `RefsNotLeaked` one
  that is not negative (`NoneLeaked`). The pages of a failed scatterlist would
  make it negative, and two puts of one pinning positive: hence `Orderly`.
- `NoFault` says nothing of how a fault is avoided. `SafeInv` does: `CallsOK`
  says for each place of a call what its file and its pinning pointer are
  (a walk that has found its handle has a complete pinning of the call's own file, a
  `free_put` leaves a drained one that nobody else may touch); `OneCall` that no
  two calls are on one file, from which a pinning of that file has one user at
  most; `PinsKnown` that every struct pinning is free, on the list of a known
  file, or in the hands of the one call that builds or frees it; `FilesKnown`
  that a file user space has closed is still being released; `ExitAlone` that
  `pinner_exit` runs with no other call and nothing to free. Every place where
  the model could fault contradicts one of these.
  `PinAllOrNothing` is a part of `CallsOK`; `QuietMeansClean` follows from
  `PinsKnown`, `FilesKnown` and `RefsExact`.
- `OnlyOwnPinnings` and the refinement are statements about steps. Only
  `NewPinning`, `FillSglist`, `ListAdd`, `FreePut`, `FreeSg` and `FreeDel` change a pinning, and
  `IsOwn` says whose it is. For `ImplementsService`, `OpenAdd` is `Open`,
  `ListAdd` is `Pin`, `FreePut` is `Unpin` and `RelDel` is `Close`; all other
  steps change nothing the service knows. That pages stay resident comes from
  `RefsExact` in the next state: a held page has a reference.
- `UsersExclusive` is inductive with the type invariant. A step either keeps the
  mutex and stays out of the two protected statements, takes it from nobody, or
  gives it up.
- `LayoutInv` says that the entries written so far are those of the buffer: an
  explicit offset and length for each page (`OffsetOf`, `LengthOf`). `Geometry`
  proves from the division that the page count is the number of pages touched,
  so that `LastLength` neither wraps nor exceeds a page, and `Covers` that these
  entries cover the buffer's bytes and no others. `LayoutAssumption` asks that
  a page be smaller than `UINT` and that a buffer's size plus two pages fit in
  an unsigned long, as they do on AArch64.
- `SgListProofs` begins with what `SgList`'s folds over a physlist compute. The
  library's induction theorems take a predicate, which these provers cannot
  instantiate; `NatSetInduction` says the same of a *set* of numbers and follows
  from `WFMin`, and the sets used are those of the lengths for which a fold has
  the wanted value (`FoldExists`). From it: an offset lies in exactly one run
  (`GetEntryIndex`), and `VirtToPhys` moves by a byte when the offset does,
  within a run (`RunBytes`).
- `SgInv` is then the invariant of the list. `ListTiles`: the entries follow one
  another from 0 to the data offset, are framed, and each is in one run. The
  same holds of the copies that a call under way works on (`AddTiles`), from the
  offset where the call began, and `LastPart` joins the two. `PlacedInv` adds
  the descriptors where no run overruns: each is placed in a run and begins after the
  one before it ends. Without that, `OverrunInv` says it of all but the last one,
  and that after a last one out of place the next offset is beyond the buffer, so
  that no later search finds anything. `ApportionsBuffer` needs that the chunks recovered from the entries
  (split after each EOF) add up to the data offset (`Apportioned`); `LastPart`
  appends one chunk to them.
- `DmaStaysInList`: `MemInv` says that once a list has been written, memory has
  a descriptor for each entry (`Described`), whose `next` is that of the entry
  after it; `InList` that a running DMA is at one of the first n of them, with
  the n-th as its tail. `axidma_add_entry` leaves all of this alone: its entries
  are behind the tail, and a DMA that does not pass the tail never sees their
  unwritten descriptors. Nothing is assumed of the buffers here: descriptors
  that share an address would only make two entries one.
- `FreshSuccess`, `EndMeansAll` and `DequeuedIsNthPacket` speak of the moment at
  which a buffer is handed out, `dram` and `ended` of everything the DMA has
  done before. What joins them is a *ledger* of the transfer: j descriptors are
  done, and descriptor k was begun with `q[k]` bytes of packet `p[k]` received.
  `StreamInv` says that there are j, p and q for which `Ledger(j, p, q)` holds:
  - `Received`: the status words, the lengths in `ended` and the bytes in `dram`
    are those that p and q tell of (`WordsRead`, `Advances`, `Accounted`,
    `Filled`), and the DMA, if it runs, is at descriptor j + 1 (`EngineAt`). A
    list that was written for this transfer has j done descriptors and no other
    complete bit; one that was started again may have the old ones, and then a
    success proves something only if the DMA has done the whole list
    (`StaleStatus` and the third part of `EngineAt`).
  - `Taken`: the traversal is at the start of packet number `run.taken` + 1. This
    survives polling, where packets are taken while the DMA writes others, and
    packets cut in places that the list's chunks know nothing of. It is what a
    failure or an overtaken traversal loses (`run.broken`).
  - `AtPlace`: between two reads of a dequeue, the descriptors it has passed are
    done, belong to the packet it began with, and their lengths are in `deq.len`,
    all of them if the DMA had stopped (`Judged`). The length of the descriptor
    at hand may have been read before it was done: for a poller `deq.len` is
    then too small, never too large, which is what `s2mm_poll` shows and why
    `FreshSuccess` holds there nevertheless.

  Only two steps change the ledger. `Dma` adds one line to it (`DmaStep`): the
  lines before stay true because the new bytes are in an entry of their own
  (`EntriesApart`, `TwoPlaces`: entries tile the data buffer and its runs share
  no byte). `Transfer` begins a new one (`TransferStep`), with packet 1 after as
  many bytes as the transfer before left of a packet it had no room for. From
  the ledger at `DequeueReturns`, `UnderBuffer` finds the entry under each byte
  of the buffer, and `WhichPacket` says that the packet is the one due.
- `WaitMeansDone` and `DmaInHeldPages`: `AtHome` relates the place of `main` to
  what is pinned, and `Calm` says when the DMA may run: in a wait, with no
  interrupt pending, and at a descriptor before which it has counted as many
  packets as the list has EOFs (`AtWork`, `Eofs`). The threshold is the count of
  all EOFs, the last entry has one, and so the interrupt comes with the last
  descriptor and no earlier. For the pages, `DescriptorPages` and `EntryPages`
  take a descriptor and an entry, each within one run, to pages of the buffer
  that `main` pinned. The invariant of `SgList` is reused as it stands, because
  no step of `S2mm` or `System` touches a list except through `SgList`'s own
  actions or by dropping it.
- `WaitMeansPackets` needs nothing of the buffers: for a program that is not
  stray, an interrupt pending in a wait was raised by an error or by the last of
  as many packets as the threshold, which that transfer has set to the count of
  EOFs, and `ended` counts them.
- None of the invariants of `AxidmaDriver` is inductive: they speak of the time
  between stores, or of the handler, and say nothing of a store half way.
  `DriverInv` does. `OneStore` makes the store under way the only one, unless
  `astray` says otherwise; `Mapping`, `Counting` and `Addressing` then say what
  is mapped, how many devices there are and at which base, for each place of
  that store. `Mapping` survives a failed `ioremap`, which is why
  `NeverDangling` and `NoFault` do; `Counting` does not. `MoverAlone` and its
  companions reduce the step of one writer to a fact about two places, so that
  each statement of `enable_store` is a short lemma. `Loading`, `Quiet` and
  `HandlerHeld` carry the result over loading, removal and the handler. The
  theorems hold for any number of writers.
- In `AxiTimer`, `Holdings` lists what `our_init` and `our_exit` have taken and
  not given back at each of their places. `CountInv` counts a tick wherever it
  may be: in the timer's bit, in a handler that has cleared the bit, in the UIO
  core's event. Reads plus these never exceed the ticks.

Every invariant and every safety action property of the passing runs is a
theorem, under the hypotheses of the table. Model-checked only are the liveness properties (`CallsReturn`,
`WaitEnds`, `InterruptDelivered`, `ReadReturns`): liveness under fairness is
beyond this prover. No module uses `RECURSIVE`.

## What is not modelled

- Caches: descriptors and data are taken to be coherent. The code relies on
  `pinner_flush` and on a sleep in `pinner_fns.c:72`; the write-back itself is
  not in this repository.
- The page array of a pin command: memory that nothing reads after the
  scatterlist is filled. Its leak is listed above.
- `pinner_write`'s `copy_to_user` contents, and messages to the log.
- Calls rejected for NULL arguments, which change nothing. The failure paths of
  `axidma_open` close the file again, as if it had not been opened.
- A transfer started while the DMA runs.
- `user_example.c`, which does not compile (`latencies_buf` is not declared), and
  `userspace_example.c`, a straight line of calls that `Pinner`'s threads cover.
- `extra_info/uio_with_sysfs/axidma_module.c`, an earlier copy of the driver:
  its handler reads and writes the control registers instead of the status
  registers, and nothing else but a message differs.
- Programs that add to or delete a list after writing it and then start it:
  `ctx->lst` would not notice (`axidma.c:418`).
- Descriptor lengths above the DMA's 26 bits, the DMA's own refusal of
  descriptors that are already complete, and its refusal of a new current
  descriptor while it runs: the code does not look at any of them.
- What two stores of `enable` at once leave behind: nothing serialises them, and
  the properties of `AxidmaDriver` end there.
- The MM2S direction: the library has none.

## Plan

Done, in this order: `Pinner` with `PinService` (the concurrent heart), its type
and reference proofs, `PinLayout` and its proofs, `SgList` with `Apportion`,
`S2mm` over `SgList`, `AxidmaDriver`, the mutex proof; then the composition
(`System`), the DMA's timeout and halt, the driver's loading, handler and
remaining files, the timer tutorial, and the proofs of the last two.

Then the proofs about the pinner's safety and its refinement, about the list
and its refinement, about where the DMA is and when it ends, and last about what
a program dequeues.

The plan is complete. What would extend it: a program that adds to a list after
writing it and starts it (`axidma.c:418`), with a property that says what the
DMA then follows; and the whole `System` as a refinement of a stream of packets,
for which `PacketsInOrder` is the main step.
