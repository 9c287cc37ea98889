------------------------------- MODULE SgList -------------------------------
(***************************************************************************)
(* The scatter-gather list of the user-space library (src/axidma.c):       *)
(* axidma_list_new, axidma_add_entry, axidma_list_del and the helpers that *)
(* walk a physlist.                                                        *)
(*                                                                         *)
(* A physlist is a sequence of [addr, len].  Offsets count bytes from the  *)
(* start of a buffer in virtual memory and are unsigned ints: arithmetic   *)
(* on them is modulo UINT.  axidma_add_entry runs one turn of its loop per *)
(* step, on copies of the list's offsets, and changes the list in its last *)
(* turn only.                                                              *)
(*                                                                         *)
(* Operators that no action uses are the faults that a property is tested  *)
(* against: each stands before the definition it would replace.            *)
(***************************************************************************)
EXTENDS Integers, Sequences, FiniteSetsExt, SequencesExt

CONSTANTS
    UINT,         \* 2^32
    ALIGN,        \* 0x40, the alignment of a descriptor
    DESC,         \* sizeof(sg_descriptor)
    SgPlists,     \* physlists of the buffers that hold descriptors
    DataPlists,   \* physlists of the buffers that hold data
    Sizes,        \* sizes asked of axidma_add_entry
    MallocFails   \* TRUE: malloc(sizeof(sg_entry)) may fail

Physlists == Seq([addr : Nat, len : Nat])

ASSUME SgListAssumption ==
    /\ UINT \in Nat \ {0} /\ ALIGN \in Nat \ {0} /\ DESC \in Nat \ {0}
    /\ Sizes \subseteq 0..UINT - 1
    /\ MallocFails \in BOOLEAN
    /\ \A p \in SgPlists \cup DataPlists : p \in Physlists

AXIDMA_NOT_FOUND == UINT - 1

VARIABLES
    pc,           \* what the calling program is doing
    sg_plist,     \* lst->sg_plist
    data_plist,   \* lst->data_plist
    entries,      \* the list hanging from lst->sentinel
    offsets,      \* lst->sg_offset and lst->data_offset
    add,          \* the locals of axidma_add_entry
    ret           \* what the last call of axidma_add_entry returned

vars == <<pc, sg_plist, data_plist, entries, offsets, add, ret>>

-----------------------------------------------------------------------------
(* Physlists. *)

(* The offset of the first byte of entry i. *)
Before(plist, i) == FoldLeft(LAMBDA n, e : n + e.len, 0, SubSeq(plist, 1, i - 1))

(* The entry that contains the byte at an offset; 0 stands for -1. *)
GetEntryIndex(plist, offset) ==
    LET holding == {i \in DOMAIN plist :
                      offset \in Before(plist, i)..Before(plist, i) + plist[i].len - 1}
    IN IF holding = {} THEN 0 ELSE CHOOSE i \in holding : TRUE

(* The buffer is taken to be one physical run. *)
VirtToPhysContiguous(plist, offset) == plist[1].addr + offset

VirtToPhys(plist, offset) ==
    LET i == GetEntryIndex(plist, offset)
    IN IF i = 0 THEN 0 ELSE plist[i].addr + offset - Before(plist, i)

(* The next offset in an entry whose physical address is aligned. *)
Aligned(e, offset_in_entry) ==
    offset_in_entry + ((ALIGN - ((e.addr + offset_in_entry) % ALIGN)) % ALIGN)

(* space_left and space, unsigned. *)
SpaceLeft(e, offset_in_entry) == (e.len - offset_in_entry) % UINT

FindContiguousAlignedAfter(plist, offset, sz) ==
    LET ind == GetEntryIndex(plist, offset)
        at(i) == Aligned(plist[i],
                         IF i = ind THEN offset - Before(plist, i) ELSE 0)
        fitting == {i \in ind..Len(plist) : sz <= SpaceLeft(plist[i], at(i))}
    IN IF ind = 0 \/ fitting = {}
       THEN AXIDMA_NOT_FOUND
       ELSE (Before(plist, Min(fitting)) + at(Min(fitting))) % UINT

-----------------------------------------------------------------------------
(* Lists. *)

NoCall == [sz |-> 0, ind |-> 0, offset_in_entry |-> 0, sg_offset |-> 0,
           data_offset |-> 0, new |-> <<>>]

Empty == /\ entries = <<>>
         /\ offsets = [sg |-> 0, data |-> 0]

Init == /\ pc = "none"
        /\ sg_plist = <<>> /\ data_plist = <<>>
        /\ Empty
        /\ add = NoCall
        /\ ret = "NONE"

ListNew(sp, dp) ==
    /\ pc = "none"
    /\ pc' = "idle"
    /\ sg_plist' = sp /\ data_plist' = dp
    /\ UNCHANGED <<entries, offsets, add, ret>>

ListDel ==
    /\ pc = "idle"
    /\ pc' = "none"
    /\ sg_plist' = <<>> /\ data_plist' = <<>>
    /\ entries' = <<>> /\ offsets' = [sg |-> 0, data |-> 0]
    /\ UNCHANGED <<add, ret>>

(* The end of axidma_add_entry, as far as the caller sees. *)
AddReturns(code) == pc' = "idle" /\ add' = NoCall /\ ret' = code

(* axidma_add_entry_error: the new entries are freed, lst is as it was. *)
AddFails(code) ==
    /\ AddReturns(code)
    /\ UNCHANGED <<sg_plist, data_plist, entries, offsets>>

AddEntry(sz) ==
    /\ pc = "idle"
    /\ LET ind == GetEntryIndex(data_plist, offsets.data)
       IN \/ sz = 0 /\ AddFails("ERROR")
          \/ sz # 0 /\ ind = 0 /\ AddFails("BUF_OOM")
          \/ /\ sz # 0 /\ ind # 0
             /\ pc' = "add"
             /\ add' = [sz |-> sz, ind |-> ind,
                        offset_in_entry |-> offsets.data - Before(data_plist, ind),
                        sg_offset |-> offsets.sg,
                        data_offset |-> offsets.data, new |-> <<>>]
             /\ UNCHANGED <<sg_plist, data_plist, entries, offsets, ret>>

(* The loop of axidma_add_entry. *)

Space == SpaceLeft(data_plist[add.ind], add.offset_in_entry)
DescriptorAt == FindContiguousAlignedAfter(sg_plist, add.sg_offset, DESC)
NextSgOffset == (DescriptorAt + DESC) % UINT

(* Every entry of a buffer holds the data_offset of the first. *)
SgEntrySameOffset(n) ==
    [sg_offset |-> DescriptorAt, data_offset |-> offsets.data,
     buf_phys |-> VirtToPhys(data_plist, add.data_offset),
     len |-> n, is_SOF |-> FALSE, is_EOF |-> FALSE]

(* The entry built in this turn, n bytes long. *)
SgEntry(n) == [sg_offset |-> DescriptorAt, data_offset |-> add.data_offset,
               buf_phys |-> VirtToPhys(data_plist, add.data_offset),
               len |-> n, is_SOF |-> FALSE, is_EOF |-> FALSE]

NoDescriptor ==
    /\ pc = "add"
    /\ DescriptorAt = AXIDMA_NOT_FOUND
    /\ AddFails("SG_OOM")

NoMemory ==
    /\ pc = "add" /\ MallocFails
    /\ DescriptorAt # AXIDMA_NOT_FOUND
    /\ AddFails("ERROR")

(* Each part of a physlist entry starts where the first one did. *)
NextPartKeepsOffset ==
    /\ pc = "add"
    /\ DescriptorAt # AXIDMA_NOT_FOUND
    /\ Space < add.sz
    /\ add.ind < Len(data_plist)
    /\ add' = [add EXCEPT !.sz = @ - Space, !.ind = @ + 1,
                          !.sg_offset = NextSgOffset,
                          !.data_offset = (@ + Space) % UINT,
                          !.new = Append(@, SgEntry(Space))]
    /\ UNCHANGED <<pc, sg_plist, data_plist, entries, offsets, ret>>

(* The rest of this physlist entry is not enough: go on with the next. *)
NextPart ==
    /\ pc = "add"
    /\ DescriptorAt # AXIDMA_NOT_FOUND
    /\ Space < add.sz
    /\ add.ind < Len(data_plist)
    /\ add' = [add EXCEPT !.sz = @ - Space, !.ind = @ + 1,
                          !.offset_in_entry = 0,
                          !.sg_offset = NextSgOffset,
                          !.data_offset = (@ + Space) % UINT,
                          !.new = Append(@, SgEntry(Space))]
    /\ UNCHANGED <<pc, sg_plist, data_plist, entries, offsets, ret>>

(* There is no next physlist entry, and what was built is kept. *)
NoNextPartKeeps ==
    /\ pc = "add"
    /\ DescriptorAt # AXIDMA_NOT_FOUND
    /\ Space < add.sz
    /\ add.ind = Len(data_plist)
    /\ entries' = entries \o [add.new \o <<SgEntry(Space)>> EXCEPT ![1].is_SOF = TRUE]
    /\ AddReturns("BUF_OOM")
    /\ UNCHANGED <<sg_plist, data_plist, offsets>>

NoNextPart ==
    /\ pc = "add"
    /\ DescriptorAt # AXIDMA_NOT_FOUND
    /\ Space < add.sz
    /\ add.ind = Len(data_plist)
    /\ AddFails("BUF_OOM")

(* A list of new entries with its first and last marked. *)
Framed(new) == [[new EXCEPT ![1].is_SOF = TRUE] EXCEPT ![Len(new)].is_EOF = TRUE]

(* sg_offset is left where the descriptor starts. *)
LastPartReuses ==
    /\ pc = "add"
    /\ DescriptorAt # AXIDMA_NOT_FOUND
    /\ add.sz <= Space
    /\ entries' = entries \o Framed(Append(add.new, SgEntry(add.sz)))
    /\ offsets' = [sg |-> DescriptorAt, data |-> (add.data_offset + add.sz) % UINT]
    /\ AddReturns("SUCCESS")
    /\ UNCHANGED <<sg_plist, data_plist>>

(* The last turn, and the changes of lst that follow the loop. *)
LastPart ==
    /\ pc = "add"
    /\ DescriptorAt # AXIDMA_NOT_FOUND
    /\ add.sz <= Space
    /\ entries' = entries \o Framed(Append(add.new, SgEntry(add.sz)))
    /\ offsets' = [sg |-> NextSgOffset, data |-> (add.data_offset + add.sz) % UINT]
    /\ AddReturns("SUCCESS")
    /\ UNCHANGED <<sg_plist, data_plist>>

Building == NoDescriptor \/ NoMemory \/ NextPart \/ NoNextPart \/ LastPart

Next == \/ \E sp \in SgPlists, dp \in DataPlists : ListNew(sp, dp)
        \/ \E sz \in Sizes : AddEntry(sz)
        \/ Building
        \/ ListDel

Spec == Init /\ [][Next]_vars

-----------------------------------------------------------------------------
(* Properties. *)

SizeOf(plist) == Before(plist, Len(plist) + 1)

(* The size of a buffer is an unsigned int of the pin command. *)
ASSUME SizeAssumption == \A p \in SgPlists \cup DataPlists : SizeOf(p) < UINT

(* Descriptor k lies in the descriptor buffer, inside one physical run of  *)
(* it, at an address the DMA accepts.                                      *)
InBuffer(k) ==
    LET at == entries[k].sg_offset
        i == GetEntryIndex(sg_plist, at)
    IN /\ i # 0
       /\ at + DESC <= Before(sg_plist, i) + sg_plist[i].len
       /\ VirtToPhys(sg_plist, at) % ALIGN = 0

(* A search in run e, from its start or from the end of a descriptor, has  *)
(* its next aligned address beyond the end of the run: the run ends inside *)
(* the gap between a descriptor and the next aligned address, or holds no  *)
(* aligned address.  The space left is then a negative number in an        *)
(* unsigned int, that is, enough.                                          *)
Overruns(e) ==
    \E o \in 0..e.len :
        /\ \/ o = 0
           \/ DESC <= o /\ o < e.len /\ (e.addr + o - DESC) % ALIGN = 0
        /\ e.len < Aligned(e, o)

(* What the code keeps of "Returns AXIDMA_NOT_FOUND if nothing could be    *)
(* found" (axidma.c:198), whatever buffers and calls: no two descriptors   *)
(* share a byte, and every descriptor is in the descriptor buffer, except  *)
(* that the last one is placed past the end of a buffer whose last run     *)
(* overruns, where the code should have found nothing.                     *)
OnlyLastOverruns ==
    \A k \in DOMAIN entries :
        /\ k > 1 => entries[k - 1].sg_offset + DESC <= entries[k].sg_offset
        /\ \/ InBuffer(k)
           \/ k = Len(entries) /\ Overruns(sg_plist[Len(sg_plist)])

(* Byte x of an entry, where the DMA puts it, is byte x of the entry's     *)
(* part of the data buffer, where the program reads it.                    *)
EntriesArePhysical ==
    \A k \in DOMAIN entries : \A x \in 0..entries[k].len - 1 :
        /\ entries[k].data_offset + x < SizeOf(data_plist)
        /\ entries[k].buf_phys + x = VirtToPhys(data_plist, entries[k].data_offset + x)

(* The entries take the data buffer from its start to lst->data_offset,    *)
(* without a gap or an overlap; each call's entries are framed by one SOF  *)
(* and one EOF.                                                            *)
EntriesTile ==
    /\ offsets.data = FoldLeft(LAMBDA n, e : n + e.len, 0, entries)
    /\ \A k \in DOMAIN entries :
         /\ entries[k].data_offset = IF k = 1 THEN 0
                                     ELSE entries[k - 1].data_offset + entries[k - 1].len
         /\ entries[k].is_SOF <=> (k = 1 \/ entries[k - 1].is_EOF)
    /\ entries # <<>> => entries[Len(entries)].is_EOF

(* The sizes of the calls' chunks, read from the framed entries. *)
Chunks ==
    FoldLeft(LAMBDA cs, e : IF e.is_SOF THEN Append(cs, e.len)
                            ELSE [cs EXCEPT ![Len(cs)] = @ + e.len],
             <<>>, entries)

(* axidma_add_entry divides the buffer into consecutive chunks of the      *)
(* sizes asked for, and a call that fails, however far it got, changes     *)
(* nothing.                                                                *)
Division == INSTANCE Apportion WITH size <- SizeOf(data_plist), chunks <- Chunks
ApportionsBuffer == Division!Spec
=============================================================================
