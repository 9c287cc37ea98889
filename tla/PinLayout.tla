----------------------------- MODULE PinLayout -----------------------------
(***************************************************************************)
(* How a pin command turns a user buffer into pages, a scatterlist and the *)
(* physlist sent back to user space (pinner_do_pin,                        *)
(* pinner_alloc_and_fill_sglist, dma_map_sg, pinner_send_physlist).        *)
(*                                                                         *)
(* Addresses and sizes are numbers of bytes.  unsigned long has ULONG      *)
(* values and unsigned int UINT values; frame number k is the physical     *)
(* page at k * PAGE_SIZE.                                                  *)
(*                                                                         *)
(* Operators that no action uses are the faults that a property is tested  *)
(* against: each stands before the definition it would replace.            *)
(***************************************************************************)
EXTENDS Integers

CONSTANTS
    PAGE_SIZE,
    PINNER_MAX_PAGES,
    ULONG, UINT,      \* 2^64 and 2^32 on AArch64
    Frames            \* page frame numbers

ASSUME LayoutAssumption ==
    /\ PAGE_SIZE \in Nat \ {0}
    /\ PINNER_MAX_PAGES \in Nat \ {0}
    /\ UINT \in Nat /\ ULONG \in Nat
    /\ PAGE_SIZE < UINT
    /\ UINT + 2 * PAGE_SIZE <= ULONG
    /\ Frames \subseteq Nat
    /\ \A k \in Frames : k * PAGE_SIZE + PAGE_SIZE <= ULONG

VARIABLES
    pc,        \* the next statement of the command
    buf, sz,   \* cmd->usr_buf, cmd->usr_buf_sz
    pages,     \* the array filled by get_user_pages_fast: frame numbers
    i,         \* the loop variable of pinner_alloc_and_fill_sglist
    sglist,    \* the entries written so far
    physlist   \* what user space has been sent

vars == <<pc, buf, sz, pages, i, sglist, physlist>>

-----------------------------------------------------------------------------
(* ((unsigned long)usr_buf | page_mask) - page_mask *)
Start(b) == b - (b % PAGE_SIZE)
FirstPgOffset(b) == b - Start(b)

(* The offset into the first page is left out of the page count. *)
NumPagesNoOffset(b, s) == ((s + (PAGE_SIZE - 1)) % ULONG) \div PAGE_SIZE

NumPages(b, s) ==
    ((FirstPgOffset(b) + s + (PAGE_SIZE - 1)) % ULONG) \div PAGE_SIZE

(* first_page_sz *)
FirstLength(b, s) ==
    IF s < PAGE_SIZE - FirstPgOffset(b) THEN s ELSE PAGE_SIZE - FirstPgOffset(b)

(* total_sz - (PAGE_SIZE - first_page_offset) - (num_pages-2)*PAGE_SIZE,   *)
(* passed as an unsigned int.                                              *)
LastLength(b, s) ==
    ((s - (PAGE_SIZE - FirstPgOffset(b)) - (NumPages(b, s) - 2) * PAGE_SIZE)
        % ULONG) % UINT

(* sg_set_page and the dma_address set beside it. *)
Entry(frame, length, offset) ==
    [page |-> frame, offset |-> offset, length |-> length,
     dma_address |-> frame * PAGE_SIZE]

Put(k, e) == sglist' = [j \in 0..k |-> IF j = k THEN e ELSE sglist[j]]

-----------------------------------------------------------------------------
Init == /\ pc = "idle"
        /\ buf = 0 /\ sz = 0 /\ i = 0
        /\ pages = <<>> /\ sglist = <<>> /\ physlist = <<>>

(* The size checks of pinner_do_pin. *)
Request(b, s) ==
    /\ pc = "idle"
    /\ buf' = b /\ sz' = s
    /\ pc' = IF NumPages(b, s) \in 1..PINNER_MAX_PAGES THEN "gup" ELSE "einval"
    /\ UNCHANGED <<pages, i, sglist, physlist>>

(* get_user_pages_fast: one frame for each page of the address range, if   *)
(* the range lies inside the address space at all.                         *)
GetUserPages ==
    /\ pc = "gup"
    /\ \/ /\ Start(buf) + NumPages(buf, sz) * PAGE_SIZE <= ULONG
          /\ pages' \in [0..NumPages(buf, sz) - 1 -> Frames]
          /\ pc' = "first"
       \/ pc' = "eagain" /\ UNCHANGED pages
    /\ UNCHANGED <<buf, sz, i, sglist, physlist>>

FirstPage ==
    /\ pc = "first"
    /\ Put(0, Entry(pages[0], FirstLength(buf, sz), FirstPgOffset(buf)))
    /\ i' = 1
    /\ pc' = "middle"
    /\ UNCHANGED <<buf, sz, pages, physlist>>

(* One turn of the loop, or its end. *)
MiddlePage ==
    /\ pc = "middle"
    /\ \/ /\ i < NumPages(buf, sz) - 1
          /\ Put(i, Entry(pages[i], PAGE_SIZE, 0))
          /\ i' = i + 1
          /\ UNCHANGED pc
       \/ /\ i >= NumPages(buf, sz) - 1
          /\ pc' = IF NumPages(buf, sz) > 1 THEN "last" ELSE "map"
          /\ UNCHANGED <<sglist, i>>
    /\ UNCHANGED <<buf, sz, pages, physlist>>

LastPage ==
    /\ pc = "last"
    /\ Put(NumPages(buf, sz) - 1,
           Entry(pages[NumPages(buf, sz) - 1], LastLength(buf, sz), 0))
    /\ pc' = "map"
    /\ UNCHANGED <<buf, sz, pages, i, physlist>>

(* dma_map_sg leaves the list alone when it fails; when it succeeds it     *)
(* stores in each entry the bus address of the entry's first byte.         *)
DmaMap ==
    /\ pc = "map"
    /\ \/ UNCHANGED sglist
       \/ sglist' = [j \in DOMAIN sglist |->
                       [sglist[j] EXCEPT !.dma_address =
                          sglist[j].page * PAGE_SIZE + sglist[j].offset]]
    /\ pc' = "send"
    /\ UNCHANGED <<buf, sz, pages, i, physlist>>

(* pinner_send_physlist: dma_address + offset, length. *)
SendPhyslist ==
    /\ pc = "send"
    /\ physlist' = [j \in DOMAIN sglist |->
                      [addr |-> (sglist[j].dma_address + sglist[j].offset) % ULONG,
                       len |-> sglist[j].length]]
    /\ pc' = "sent"
    /\ UNCHANGED <<buf, sz, pages, i, sglist>>

Return ==
    /\ pc \in {"sent", "einval", "eagain"}
    /\ pc' = "idle"
    /\ buf' = 0 /\ sz' = 0 /\ i' = 0
    /\ pages' = <<>> /\ sglist' = <<>> /\ physlist' = <<>>

Next == \/ \E b \in 0..ULONG - 1, s \in 0..UINT - 1 : Request(b, s)
        \/ GetUserPages \/ FirstPage \/ MiddlePage \/ LastPage
        \/ DmaMap \/ SendPhyslist \/ Return

Spec == Init /\ [][Next]_vars

-----------------------------------------------------------------------------
(* Properties. *)

Filled == pc \in {"map", "send", "sent"}

(* The scatterlist is the buffer: entry j lies inside page j of the        *)
(* buffer's pages, in order, and a byte of that page is in the entry       *)
(* exactly when it is a byte of the user's buffer.  Nothing of the buffer  *)
(* is left out and no DMA byte falls outside it, whatever the alignment of *)
(* its first and last bytes.                                               *)
ScatterlistIsBuffer ==
    Filled =>
        /\ DOMAIN sglist = DOMAIN pages
        /\ buf + sz <= Start(buf) + NumPages(buf, sz) * PAGE_SIZE
        /\ \A j \in DOMAIN sglist :
             /\ sglist[j].page = pages[j]
             /\ sglist[j].offset + sglist[j].length <= PAGE_SIZE
             /\ \A x \in 0..PAGE_SIZE - 1 :
                  x \in sglist[j].offset..(sglist[j].offset + sglist[j].length - 1)
                    <=> Start(buf) + j * PAGE_SIZE + x \in buf..(buf + sz - 1)

(* The physlist tells user space where the buffer is (modules/pinner's     *)
(* README: "the physical address information of your pinned buffer"): the  *)
(* bytes that entry j names are the bytes of page j that are the user's.   *)
(* The code breaks this for a buffer that starts inside a page, once       *)
(* dma_map_sg has succeeded: the offset is then added twice.               *)
PhyslistIsBuffer ==
    pc = "sent" =>
        \A j \in DOMAIN pages : \A x \in 0..PAGE_SIZE - 1 :
            pages[j] * PAGE_SIZE + x
                \in physlist[j].addr..(physlist[j].addr + physlist[j].len - 1)
              <=> Start(buf) + j * PAGE_SIZE + x \in buf..(buf + sz - 1)
=============================================================================
