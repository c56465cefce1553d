------------------------------ MODULE PaMmap ------------------------------
(***************************************************************************)
(* The page allocator under every ParrotDB table (parrotdb/pammap.c): one  *)
(* memory-mapped segment, a singly linked list of free chunks kept inside  *)
(* the segment itself, growth by whole quanta, and a handle that lives in  *)
(* the process and is rebuilt by every open.                               *)
(*                                                                         *)
(* All lengths are in mmap atoms (4096-byte pages) except the sizes asked  *)
(* of pa_mmap_alloc, which are in bytes.  The chain pmi_free -> pmf_next   *)
(* -> ... is the sequence free; each element is a chunk and its pmf_size.  *)
(*                                                                         *)
(* System calls and malloc may fail wherever the code tests their result,  *)
(* and the process may be killed between any two operations.  The mapping  *)
(* is MAP_SHARED, so what was stored before a kill is in the file after.   *)
(***************************************************************************)
EXTENDS PaCommon, SequencesExt

CONSTANTS
    AtomBytes,     \* PA_MMAP_ATOM_SIZE
    DefaultCount,  \* PA_DEFAULT_COUNT, the growth quantum
    InitCount,     \* the "size" configuration value, in atoms
    MaxSize,       \* the "max-size" configuration value, in bytes; 0 is none
    AddrSlots,     \* strides of PA_ADDR_DEFAULT_INCR up to PA_ADDR_MAX
    AddrWrap,      \* atoms before "atom << shift" wraps its 32-bit word
    ReqSizes,      \* sizes that callers ask for, in bytes
    LenBound       \* bound of the model on the length of the segment

ASSUME MmapAssumption ==
    /\ AtomBytes \in Nat \ {0}
    /\ DefaultCount \in Nat \ {0, 1}
    /\ InitCount \in Nat \ {0, 1}
    /\ MaxSize \in Nat
    /\ AddrSlots \in Nat
    /\ AddrWrap \in Nat \ {0}
    /\ ReqSizes \subseteq Nat
    /\ LenBound \in Nat

VARIABLES
    filename,  \* whether the segment is backed by a file
    file,      \* the file: what an open would find there, st_size, pmi_len
    free,      \* the chain of free chunks
    pm,        \* the handle: closed, or open for reading (and writing)
    pmLen,     \* pm_len
    record,    \* pm_record: the separately mapped pieces
    noteLost,  \* whether a piece went unrecorded for lack of memory
    mapped,    \* the atoms this process has mapped for the segment
    nextSlot,  \* pa_mmap_next_address, as a number of strides
    used,      \* the blocks handed out and not given back
    top,       \* atoms ever put under the allocator's control
    lost       \* atoms of the file that the allocator never learned of

mmapVars == <<filename, file, free, pm, pmLen, record, noteLost, mapped,
              nextSlot, used, top, lost>>

Chunks == {free[i] : i \in DOMAIN free}

Writable == pm = "rw"

-----------------------------------------------------------------------------
(* Allocation *)

\* The chunk at which the search of pa_mmap_alloc stops.
FirstFit(i, count) ==
    /\ i \in DOMAIN free
    /\ free[i].size >= count
    /\ \A j \in 1 .. (i - 1) : free[j].size < count

\* Wrong: the remainder is moved up although the end was handed out.
TakeChunkFront(i, count) ==
    free' = IF count < free[i].size
            THEN [free EXCEPT ![i] = Block(@.atom + count, @.size - count)]
            ELSE RemoveAt(free, i)

\* Wrong: the chunk is unlinked also when only a part of it is needed.
TakeChunkWhole(i, count) == free' = RemoveAt(free, i)

\* Take count atoms from the end of chunk i, or all of it.
TakeChunk(i, count) ==
    free' = IF count < free[i].size
            THEN [free EXCEPT ![i] = Block(@.atom, @.size - count)]
            ELSE RemoveAt(free, i)

\* The number of atoms by which the segment grows for a request of count.
new_count(count) == IF count < DefaultCount THEN DefaultCount
                    ELSE pa_roundup(count, DefaultCount)

TooBig(newLen) == MaxSize # 0 /\ newLen * AtomBytes > MaxSize

\* Wrong: no record is kept of the new piece.
MapMoreUnnoted(newLen) ==
    /\ mapped' = mapped \cup (pmLen .. (newLen - 1))
    /\ UNCHANGED <<record, noteLost>>

\* A file is remapped whole; an anonymous segment gets one more piece,
\* noted in pm_record if there is memory for the note.
MapMore(newLen) ==
    /\ mapped' = mapped \cup (pmLen .. (newLen - 1))
    /\ \/ /\ ~filename
          /\ record' = record \cup {Block(pmLen, newLen - pmLen)}
          /\ UNCHANGED noteLost
       \/ /\ UNCHANGED record
          /\ noteLost' = (noteLost \/ ~filename)

\* Wrong: what is left is computed from the quantum, not from the growth.
GrowDoneQuantum(count, newLen) ==
    /\ MapMore(newLen)
    /\ pmLen' = newLen
    /\ top' = newLen
    /\ file' = IF filename THEN [file EXCEPT !.len = newLen] ELSE file
    /\ free' = IF newLen > pmLen + count
               THEN Append(free, Block(pmLen + count, DefaultCount - count))
               ELSE free

\* The segment is grown: the request gets the first atoms, the rest becomes
\* a chunk at the end of the chain.
GrowDone(count, newLen) ==
    /\ MapMore(newLen)
    /\ pmLen' = newLen
    /\ top' = newLen
    /\ file' = IF filename THEN [file EXCEPT !.len = newLen] ELSE file
    /\ free' = IF newLen > pmLen + count
               THEN Append(free, Block(pmLen + count, newLen - pmLen - count))
               ELSE free

\* ftruncate extended the file and mmap then failed.
GrowHalfDone(newLen) ==
    /\ filename
    /\ file' = [file EXCEPT !.len = newLen]
    /\ UNCHANGED <<free, pmLen, top, mapped, record, noteLost>>

NothingDone ==
    UNCHANGED <<free, file, pmLen, top, mapped, record, noteLost>>

\* pa_mmap_alloc(size) returns the atom ret.
pa_mmap_alloc(size, ret) ==
    LET count == pa_items(size, AtomBytes)
        fits == \E i \in DOMAIN free : free[i].size >= count
        newLen == pmLen + new_count(count)
    IN
    /\ Writable
    /\ \/ /\ size = 0 \/ (~fits /\ TooBig(newLen))
          /\ ret = NullAtom
          /\ NothingDone
       \/ /\ size > 0
          /\ \E i \in DOMAIN free :
                /\ FirstFit(i, count)
                /\ TakeChunk(i, count)
                /\ ret = free[i].atom + (free[i].size - count)
          /\ UNCHANGED <<file, pmLen, top, mapped, record, noteLost>>
       \/ /\ size > 0 /\ ~fits /\ ~TooBig(newLen) /\ newLen <= LenBound
          /\ \/ ret = pmLen /\ GrowDone(count, newLen)
             \/ ret = NullAtom /\ (NothingDone \/ GrowHalfDone(newLen))
    /\ used' = IF ret = NullAtom THEN used
               ELSE used \cup {Block(ret, count)}
    /\ UNCHANGED <<filename, pm, nextSlot, lost>>

-----------------------------------------------------------------------------
(* Release *)

\* The place before which pa_mmap_list_add inserts a chunk of size n.
InsertPoint(k, n) ==
    /\ k \in 1 .. (Len(free) + 1)
    /\ k <= Len(free) => n <= free[k].size
    /\ \A j \in 1 .. (k - 1) : free[j].size < n

pa_mmap_list_add(b) ==
    \E k \in 1 .. (Len(free) + 1) :
        /\ InsertPoint(k, b.size)
        /\ free' = InsertAt(free, k, b)

\* pa_mmap_free(atom, size); a caller gives back a block it holds and the
\* size it asked for.
pa_mmap_free(atom, size) ==
    LET b == Block(atom, pa_items(size, AtomBytes))
    IN
    /\ Writable
    /\ b \in used
    /\ pa_mmap_list_add(b)
    /\ used' = used \ {b}
    /\ UNCHANGED <<filename, file, pm, pmLen, record, noteLost, mapped,
                   nextSlot, top, lost>>

-----------------------------------------------------------------------------
(* Open and close *)

NoFile == [kind |-> "absent", len |-> 0, pmi_len |-> 0]

\* A file that holds no header of ours.
RawFile(n) == [kind |-> "raw", len |-> n, pmi_len |-> 0]

AddressLeft == nextSlot <= AddrSlots

\* The handle describes len atoms.
Attach(mode, len) ==
    /\ pm' = mode
    /\ pmLen' = len
    /\ mapped' = 0 .. (len - 1)
    /\ \/ /\ ~filename
          /\ record' = {Block(0, len)}
          /\ noteLost' = FALSE
       \/ /\ record' = {}
          /\ noteLost' = ~filename

\* pa_mmap_open with nothing there yet: make the segment and its header.
Create ==
    LET len == IF filename THEN InitCount ELSE DefaultCount IN
    /\ pm = "closed" /\ file.kind = "absent"
    /\ AddressLeft
    /\ nextSlot' = nextSlot + 1
    /\ Attach("rw", len)
    /\ file' = IF filename THEN [kind |-> "db", len |-> len, pmi_len |-> len]
               ELSE file
    /\ free' = <<Block(1, len - 1)>>
    /\ top' = len
    /\ UNCHANGED <<filename, used, lost>>

\* There is no memory for the handle: the segment is unmapped again, and of a
\* file the finished header remains.
CreateNoHandle ==
    /\ pm = "closed" /\ file.kind = "absent"
    /\ AddressLeft
    /\ nextSlot' = nextSlot + 1
    /\ IF filename
       THEN /\ file' = [kind |-> "db", len |-> InitCount, pmi_len |-> InitCount]
            /\ free' = <<Block(1, InitCount - 1)>>
            /\ top' = InitCount
       ELSE UNCHANGED <<file, free, top>>
    /\ UNCHANGED <<filename, pm, pmLen, record, noteLost, mapped, used, lost>>

\* The creation stops half way and leaves a file without a header (ftruncate
\* fails, no address is left, or the process is killed) or, killed between
\* the stores, one whose header is accepted and whose chain is empty.
CreateHalfDone ==
    /\ pm = "closed" /\ file.kind = "absent" /\ filename
    /\ \/ /\ file' \in {RawFile(0), RawFile(InitCount)}
          /\ UNCHANGED <<nextSlot, top>>
       \/ /\ AddressLeft
          /\ file' = [kind |-> "db", len |-> InitCount, pmi_len |-> 0]
          /\ top' = 1
          /\ nextSlot' = 0
    /\ UNCHANGED <<filename, free, pm, pmLen, record, noteLost, mapped, used,
                   lost>>

\* Wrong: the length in the header is believed, not the length of the file.
OpenByHeaderLen(mode) ==
    /\ pm = "closed" /\ file.kind = "db"
    /\ AddressLeft
    /\ nextSlot' = nextSlot + 1
    /\ Attach(mode, file.pmi_len)
    /\ top' = file.pmi_len
    /\ UNCHANGED <<filename, file, free, used, lost>>

\* Wrong: the header is not looked at.
OpenUnchecked(mode) ==
    /\ pm = "closed" /\ file.kind # "absent" /\ file.len > 0
    /\ AddressLeft
    /\ nextSlot' = nextSlot + 1
    /\ Attach(mode, file.len)
    /\ top' = file.len
    /\ lost' = lost \cup ((IF top = 0 THEN 1 ELSE top) .. (file.len - 1))
    /\ UNCHANGED <<filename, file, free, used>>

\* pa_mmap_open of a file with a valid header; what the file has gained since
\* the last handle was in use is mapped, and is on no list.
OpenExisting(mode) ==
    /\ pm = "closed" /\ file.kind = "db"
    /\ AddressLeft
    /\ nextSlot' = nextSlot + 1
    /\ Attach(mode, file.len)
    /\ top' = file.len
    /\ lost' = lost \cup (top .. (file.len - 1))
    /\ UNCHANGED <<filename, file, free, used>>

\* pa_mmap_open gives up: on a file with a foreign or half-written header and
\* on lack of memory for the handle it has used up an address; on an empty
\* file every mmap fails with EINVAL and the hunt uses up all addresses.
OpenFails ==
    /\ pm = "closed" /\ file.kind # "absent"
    /\ AddressLeft
    /\ nextSlot' = IF file.len = 0 THEN AddrSlots + 1 ELSE nextSlot + 1
    /\ UNCHANGED <<filename, file, free, pm, pmLen, record, noteLost, mapped,
                   used, top, lost>>

\* What is left of the segment when nobody maps it any more.
LetGo ==
    /\ pm' = "closed"
    /\ pmLen' = 0
    /\ record' = {}
    /\ free' = IF filename THEN free ELSE <<>>
    /\ used' = IF filename THEN used ELSE {}
    /\ top' = IF filename THEN top ELSE 0
    /\ lost' = IF filename THEN lost ELSE {}
    /\ UNCHANGED <<filename, file>>

pa_mmap_close ==
    /\ pm # "closed"
    /\ mapped' = mapped \ (IF record = {} THEN 0 .. (pmLen - 1)
                           ELSE UNION {Pages(r) : r \in record})
    /\ LetGo
    /\ UNCHANGED <<nextSlot, noteLost>>

\* The process ends, and a new one starts with a fresh address counter.
Kill ==
    /\ mapped' = {}
    /\ nextSlot' = 0
    /\ noteLost' = FALSE
    /\ LetGo

-----------------------------------------------------------------------------
Init ==
    /\ filename \in BOOLEAN
    /\ file = NoFile
    /\ free = <<>>
    /\ pm = "closed" /\ pmLen = 0
    /\ record = {} /\ noteLost = FALSE /\ mapped = {}
    /\ nextSlot = 0
    /\ used = {} /\ top = 0 /\ lost = {}

Next ==
    \/ \E size \in ReqSizes, ret \in 0 .. LenBound : pa_mmap_alloc(size, ret)
    \/ \E atom \in 1 .. LenBound, size \in ReqSizes : pa_mmap_free(atom, size)
    \/ Create
    \/ CreateNoHandle
    \/ CreateHalfDone
    \/ \E mode \in {"ro", "rw"} : OpenExisting(mode)
    \/ OpenFails
    \/ pa_mmap_close
    \/ Kill

Spec == Init /\ [][Next]_mmapVars

-----------------------------------------------------------------------------
(* Properties *)

Blocks == [atom : Nat, size : Nat]

TypeOK ==
    /\ filename \in BOOLEAN
    /\ file \in [kind : {"absent", "raw", "db"}, len : Nat, pmi_len : Nat]
    /\ free \in Seq(Blocks)
    /\ pm \in {"closed", "ro", "rw"}
    /\ pmLen \in Nat
    /\ record \subseteq Blocks
    /\ noteLost \in BOOLEAN
    /\ mapped \subseteq Nat
    /\ nextSlot \in Nat
    /\ used \subseteq Blocks
    /\ top \in Nat
    /\ lost \subseteq Nat

\* No atom is owned twice: whatever the order of allocations, splits,
\* releases, failed growths, kills and reopens, two blocks in use never
\* share an atom, no chunk that pa_mmap_alloc may hand out shares one with a
\* block in use, and no two chunks of the chain share one.
NoOverlap ==
    /\ \A b, c \in used : b = c \/ Apart(b, c)
    /\ \A b \in used, i \in DOMAIN free : Apart(b, free[i])
    /\ \A i, j \in DOMAIN free : i = j \/ Apart(free[i], free[j])

\* Every block and every chunk lies after the header page and inside what
\* the handle maps, and what it maps is inside the file: following a chunk's
\* pmf_next or storing into a block cannot fault, also after a growth that
\* failed between ftruncate and mmap.
InSegment ==
    /\ \A b \in used \cup Chunks :
          b.atom >= 1 /\ b.size >= 1 /\ b.atom + b.size <= top
    /\ pm # "closed" => pmLen = top /\ top >= 1
    /\ filename => top <= file.len

\* No atom is dropped: of the atoms the allocator took charge of, each one is
\* in use, on the chain, or was added to the file by a growth that did not
\* complete before the file was opened again.
Conserved ==
    1 .. (top - 1) =
        (UNION {Pages(b) : b \in used \cup Chunks}) \cup lost

\* An anonymous segment is put together from separately mapped pieces;
\* pa_mmap_close unmaps all of them when it has a record of each.
CloseUnmaps == (pm = "closed" /\ ~noteLost) => mapped = {}

\* What the tables above rely on: seen as a set of blocks in use and a size,
\* the allocator with its chain, its failures and its reopens is a PaStore.
Store == INSTANCE PaStore WITH len <- top

StoreSpec == Store!Spec

\* A closed segment holds something only if there is a file of ours that
\* holds it.
Backed ==
    /\ ~filename => file.kind = "absent"
    /\ (filename /\ pm # "closed") => file.kind = "db"
    /\ file.kind = "db" => file.len >= 1
    /\ (pm = "closed" /\ file.kind # "db") =>
          used = {} /\ free = <<>> /\ top = 0

\* The segment as a whole, through kills and reopens, between which only the
\* file lives: it is backed by a file of ours, every page of it is accounted
\* for, and nothing stays mapped after the close.
SegmentSound == TypeOK /\ Backed /\ Conserved /\ CloseUnmaps

\* The inductive invariant: each part needs the others.
IndInv == TypeOK /\ NoOverlap /\ InSegment /\ Backed

\* The address pa_mmap_addr computes for an atom, in atoms from the base.
pa_mmap_addr(atom) == atom % AddrWrap

\* Different atoms in use have different addresses.  NOTES.txt sizes the
\* database by the 32-bit atom number alone; pa_pointer shifts that number
\* inside a 32-bit word.
AddressesDistinct ==
    \A b, c \in used :
        \A p \in Pages(b), q \in Pages(c) :
            p # q => pa_mmap_addr(p) # pa_mmap_addr(q)

\* The header's pmi_len is the size of the file that a handle is open on.
HeaderLenCurrent == (filename /\ pm = "rw") => file.pmi_len = pmLen

\* The chain is kept in order of size, so that the first chunk that fits is
\* the smallest one that does.
FreeListBySize == \A i, j \in DOMAIN free : i < j => free[i].size <= free[j].size

=============================================================================
