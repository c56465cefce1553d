------------------------------- MODULE PaArb -------------------------------
(***************************************************************************)
(* The allocator for blocks of arbitrary size (parrotdb/paarb.c, paarb.h). *)
(*                                                                         *)
(* Small requests are rounded up to a power of two and served from one     *)
(* chain of chunks per power (a slot); a slot without chunks cuts up a     *)
(* fresh page.  Large requests go to the page allocator directly.  A       *)
(* header in front of every chunk says which of the two it is, and         *)
(* releases believe it.                                                    *)
(*                                                                         *)
(* An atom is a unit of AtomBytes bytes; PageUnits of them make a page.    *)
(* The page allocator is modelled by its promise (PaStore): it hands out   *)
(* any run of pages that nobody has, or fails.                             *)
(***************************************************************************)
EXTENDS PaCommon, Sequences, FiniteSets

CONSTANTS
    AtomShift,   \* PA_ARB_ATOM_SHIFT
    OffsetShift, \* PA_ARB_OFFSET_SHIFT: log2 of the atoms of a page
    MaxPow2,     \* PA_ARB_MAX_POW2: the last slot
    HeaderBytes, \* sizeof(pa_arb_header_t)
    LogWrap,     \* values of the argument of pa_log2 (2^32)
    SizeWrap,    \* values of prh_size; also PA_ARB_MAX_LARGE, in pages
    ReqSizes,    \* sizes that callers ask for
    MaxPages     \* bound of the model on the pages of the segment

\* What the constants are.
ArbAssumption ==
    /\ {AtomShift, OffsetShift, MaxPow2, MaxPages} \subseteq Nat
    /\ HeaderBytes \in 1 .. Pow2[AtomShift]
    /\ SizeWrap \in Nat \ {0}
    /\ LogWrap \in Nat \ {0}
    /\ ReqSizes \subseteq Nat

VARIABLES
    handle,   \* whether the pool is open
    pri_free, \* the chain of every slot
    header,   \* the header at every atom: magic, slot, prh_size
    held,     \* the runs of pages taken from the page allocator
    need      \* per atom in use, the bytes its holder asked for

arbVars == <<handle, pri_free, header, held, need>>

Slots == 0 .. MaxPow2

AtomBytes == Pow2[AtomShift]

PageUnits == Pow2[OffsetShift]

PageBytes == AtomBytes * PageUnits

Atoms == 0 .. (PageUnits * (MaxPages + 1) - 1)

NoHeader == [magic |-> "none", slot |-> 0, size |-> 0]

-----------------------------------------------------------------------------
(* Sizes and slots *)

\* The number of significant bits (the loop, and bsrl plus one).
pa_log2[n \in Nat] == IF n = 0 THEN 0 ELSE 1 + pa_log2[n \div 2]

\* Wrong: one bit short.
SlotShort(size) ==
    IF size <= 2 * AtomBytes THEN 0 ELSE pa_log2[(size - 1) % LogWrap] - AtomShift - 1

\* The size_t loses its upper half on the way into pa_log2; what is left may be
\* too small for the subtraction, which wraps to a slot above every other.
pa_arb_slot(size) ==
    LET log == pa_log2[(size - 1) % LogWrap]
    IN  IF size < AtomBytes THEN 0
        ELSE IF log < AtomShift THEN MaxPow2 + 1
        ELSE log - AtomShift

pa_arb_chunks_per_page(slot) ==
    IF PageUnits \div Pow2[slot] = 0 THEN 1 ELSE PageUnits \div Pow2[slot]

pa_arb_slot_to_size(slot) ==
    LET val == Pow2[slot + AtomShift]
    IN  IF val < PageBytes THEN PageBytes ELSE val

pa_arb_build_atom(matom, slot, chunk) == matom * PageUnits + Pow2[slot] * chunk

\* The atoms a chunk occupies, by its header.
Extent(atom) ==
    IF header[atom].magic = "large_inuse"
    THEN atom .. (atom + header[atom].size * PageUnits - 1)
    ELSE atom .. (atom + Pow2[header[atom].slot] - 1)

-----------------------------------------------------------------------------
(* Allocation *)

\* pa_mmap_alloc of count pages at matom.
PageRun(matom, count) ==
    /\ matom + count <= MaxPages + 1
    /\ \A b \in held : Apart(Block(matom, count), b)

\* Wrong: one chunk too many is cut from the page.
CutPageOver(matom, slot) ==
    [i \in 1 .. (pa_arb_chunks_per_page(slot) + 1) |->
        pa_arb_build_atom(matom, slot, i - 1)]

\* pa_arb_make_page: the chunks of a fresh page, in the order of the chain.
CutPage(matom, slot) ==
    [i \in 1 .. pa_arb_chunks_per_page(slot) |->
        pa_arb_build_atom(matom, slot, i - 1)]

\* The first chunk of chain is handed out for size bytes; the others stay.
TakeFirst(chain, slot, size) ==
    /\ pri_free' = [pri_free EXCEPT ![slot] = Tail(chain)]
    /\ header' = [a \in Atoms |->
                    IF \E i \in DOMAIN chain : chain[i] = a
                    THEN [magic |-> IF a = Head(chain) THEN "small_inuse"
                                    ELSE "small_free",
                          slot |-> slot, size |-> 0]
                    ELSE header[a]]
    /\ need' = [need EXCEPT ![Head(chain)] = size]

AllocSmall(size) ==
    LET slot == pa_arb_slot(size + HeaderBytes)
        count == pa_items(pa_arb_slot_to_size(slot), PageBytes)
    IN
    /\ slot <= MaxPow2
    /\ \/ /\ pri_free[slot] # <<>>
          /\ TakeFirst(pri_free[slot], slot, size)
          /\ UNCHANGED held
       \/ /\ pri_free[slot] = <<>>
          /\ \E matom \in 1 .. MaxPages :
                /\ PageRun(matom, count)
                /\ TakeFirst(CutPage(matom, slot), slot, size)
                /\ held' = held \cup {Block(matom, count)}

\* Wrong: the recorded number of pages is rounded down.
AllocLargeFloor(size) ==
    LET full == size + HeaderBytes
        count == pa_items(full, PageBytes)
    IN
    /\ pa_arb_slot(full) > MaxPow2
    /\ full < SizeWrap * PageBytes
    /\ \E matom \in 1 .. MaxPages :
          /\ PageRun(matom, count)
          /\ held' = held \cup {Block(matom, count)}
          /\ header' = [header EXCEPT ![matom * PageUnits] =
                          [magic |-> "large_inuse", slot |-> 0,
                           size |-> full \div PageBytes]]
          /\ need' = [need EXCEPT ![matom * PageUnits] = size]
    /\ UNCHANGED pri_free

AllocLarge(size) ==
    LET full == size + HeaderBytes
        count == pa_items(full, PageBytes)
    IN
    /\ pa_arb_slot(full) > MaxPow2
    /\ full < SizeWrap * PageBytes
    /\ \E matom \in 1 .. MaxPages :
          /\ PageRun(matom, count)
          /\ held' = held \cup {Block(matom, count)}
          /\ header' = [header EXCEPT ![matom * PageUnits] =
                          [magic |-> "large_inuse", slot |-> 0,
                           size |-> count % SizeWrap]]
          /\ need' = [need EXCEPT ![matom * PageUnits] = size]
    /\ UNCHANGED pri_free

\* The request is over the limit, or the page allocator fails.
AllocNothing(size) ==
    /\ LET slot == pa_arb_slot(size + HeaderBytes)
       IN  slot <= MaxPow2 => pri_free[slot] = <<>>
    /\ UNCHANGED <<pri_free, header, held, need>>

pa_arb_alloc(size) ==
    /\ handle = "open"
    /\ AllocSmall(size) \/ AllocLarge(size) \/ AllocNothing(size)
    /\ UNCHANGED handle

-----------------------------------------------------------------------------
(* Release *)

\* Wrong: a chunk that is already free is put on the chain again.
FreeSmallTwice(atom) ==
    LET slot == header[atom].slot IN
    /\ header[atom].magic \in {"small_inuse", "small_free"}
    /\ pri_free' = [pri_free EXCEPT ![slot] = <<atom>> \o @]
    /\ header' = [header EXCEPT ![atom].magic = "small_free"]
    /\ need' = [need EXCEPT ![atom] = 0]
    /\ UNCHANGED held

FreeSmall(atom) ==
    LET slot == header[atom].slot IN
    /\ header[atom].magic = "small_inuse"
    /\ pri_free' = [pri_free EXCEPT ![slot] = <<atom>> \o @]
    /\ header' = [header EXCEPT ![atom].magic = "small_free"]
    /\ need' = [need EXCEPT ![atom] = 0]
    /\ UNCHANGED held

\* The pages go back; pa_mmap_free of zero pages does nothing.  The free
\* list of the page allocator is kept in the pages and overwrites the magic.
FreeLarge(atom) ==
    LET b == Block(atom \div PageUnits, header[atom].size) IN
    /\ header[atom].magic = "large_inuse"
    /\ held' = held \ {b}
    /\ header' = IF b.size = 0 THEN header
                 ELSE [header EXCEPT ![atom].magic = "none"]
    /\ need' = [need EXCEPT ![atom] = 0]
    /\ UNCHANGED pri_free

\* pa_arb_free_atom, pa_arb_free_atom_addr of an atom that was handed out,
\* once or twice: a second release is noticed by the header and refused.
pa_arb_free_atom(atom) ==
    /\ handle = "open"
    /\ \/ FreeSmall(atom)
       \/ FreeLarge(atom)
       \/ /\ header[atom].magic = "small_free"
          /\ UNCHANGED <<pri_free, header, held, need>>
    /\ UNCHANGED handle

-----------------------------------------------------------------------------
\* The pool's only state of its own is in the segment.
pa_arb_open ==
    /\ handle = "closed"
    /\ handle' = "open"
    /\ UNCHANGED <<pri_free, header, held, need>>

pa_arb_close ==
    /\ handle = "open"
    /\ handle' = "closed"
    /\ UNCHANGED <<pri_free, header, held, need>>

Init ==
    /\ handle = "closed"
    /\ pri_free = [s \in Slots |-> <<>>]
    /\ header = [a \in Atoms |-> NoHeader]
    /\ held = {}
    /\ need = [a \in Atoms |-> 0]

Next ==
    \/ \E size \in ReqSizes : pa_arb_alloc(size)
    \/ \E atom \in Atoms : pa_arb_free_atom(atom)
    \/ pa_arb_open
    \/ pa_arb_close

Spec == Init /\ [][Next]_arbVars

-----------------------------------------------------------------------------
(* Properties *)

\* The types of the chains and headers; chains hold only atoms that a page can
\* have, and slot and page count fit their header fields.
TypeOK ==
    /\ handle \in {"open", "closed"}
    /\ pri_free \in [Slots -> Seq(Atoms)]
    /\ header \in [Atoms -> [magic : {"none", "small_inuse", "small_free",
                                      "large_inuse"},
                             slot : Slots, size : 0 .. (SizeWrap - 1)]]
    /\ \A b \in held : b.atom \in Nat /\ b.size \in Nat
    /\ need \in [Atoms -> Nat]

InUse == {a \in Atoms : header[a].magic \in {"small_inuse", "large_inuse"}}

Chunks == InUse \cup {a \in Atoms : header[a].magic = "small_free"}

\* Chunks never share memory, and each lies in pages that the pool holds:
\* whatever sizes are mixed, whatever is released once or twice.
ChunksApart ==
    /\ \A a, b \in Chunks : a = b \/ Extent(a) \cap Extent(b) = {}
    /\ \A a \in Chunks : \E b \in held :
          \A u \in Extent(a) : u \div PageUnits \in Pages(b)

\* The chains and the headers agree: a chunk is on the chain of its slot, once,
\* exactly when its header says that it is free.  So a release cannot be
\* repeated and a chunk in use cannot be handed out.
ChainsAgree ==
    \A s \in Slots :
        /\ \A i, j \in DOMAIN pri_free[s] : pri_free[s][i] = pri_free[s][j] => i = j
        /\ {pri_free[s][i] : i \in DOMAIN pri_free[s]} =
              {a \in Atoms : header[a].magic = "small_free" /\ header[a].slot = s}

\* Every holder got the room it asked for, header included, and a small one
\* less than twice that (or one atom).
RoomEnough ==
    \A a \in InUse :
        LET room == Cardinality(Extent(a)) * AtomBytes
            full == need[a] + HeaderBytes
        IN  /\ full <= room
            /\ header[a].magic = "small_inuse" => room < 2 * full \/ room = AtomBytes

\* A large block's header describes the pages taken for it, so that its
\* release gives back those and no others; and no page is forgotten: all that
\* the pool holds is cut into chunks.
LargeRecorded ==
    /\ \A a \in Atoms : header[a].magic = "large_inuse" =>
          Block(a \div PageUnits, header[a].size) \in held
    /\ UNION {Pages(b) : b \in held} =
          {u \div PageUnits : u \in UNION {Extent(a) : a \in Chunks}}

\* A pool through any mix of sizes, of allocations that fail half way and of
\* repeated releases (pa_arb_alloc, pa_arb_free_atom).
PoolSound == TypeOK /\ ChunksApart /\ ChainsAgree /\ RoomEnough /\ LargeRecorded
=============================================================================
