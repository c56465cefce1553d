------------------------------ MODULE PaBitmap ------------------------------
(***************************************************************************)
(* Sparse bitmaps (parrotdb/pabitmap.h).                                   *)
(*                                                                         *)
(* A bitmap is a block of chunk numbers; a chunk is a block of units of    *)
(* bits, made when a bit of it is first set.  Both kinds of block come     *)
(* from one paged array (PaFixed), which clears them, and are never        *)
(* released, so the array hands out its atoms in order, or fails.          *)
(*                                                                         *)
(* pa_bitmap_find_next is modelled one pass through its restart label at a *)
(* time.                                                                   *)
(***************************************************************************)
EXTENDS PaCommon, FiniteSets, FiniteSetsExt

CONSTANTS
    UnitBits,   \* PA_BITMAP_BITS_PER_UNIT
    ChunkUnits, \* PA_BITMAP_UNITS_PER_CHUNK
    ChunkSize,  \* PA_BITMAP_CHUNK_SIZE: chunks of a bitmap
    MaxBlocks,  \* atoms of the paged array
    SetNums,    \* the numbers that callers set
    Starts      \* numbers, set or not, after which callers start a search

ASSUME BitmapAssumption ==
    /\ {UnitBits, ChunkUnits, ChunkSize} \subseteq Nat \ {0}
    /\ MaxBlocks \in Nat
    /\ SetNums \subseteq Nat
    /\ Starts \subseteq 0 .. (UnitBits * ChunkUnits * ChunkSize - 1)

VARIABLES
    made,   \* blocks handed out so far
    chunks, \* of the blocks that are bitmaps: the chunk of every chunk number
    data,   \* of the blocks that are chunks: the bits set in every unit
    find,   \* the search that is going on
    seen    \* the last result of a search, per bitmap

bitmapVars == <<made, chunks, data, find, seen>>

ChunkBits == ChunkUnits * UnitBits

PA_BITMAP_MAX_BIT == ChunkBits * ChunkSize

\* The markers, outside the numbers of bits.
PA_BITMAP_FIND_START == -1

PA_BITMAP_FIND_DONE == -2

NoFind == [id |-> 0, from |-> 0, num |-> 0, mask |-> 0]

pa_bitmap_bitnum(num) == num % UnitBits

pa_bitmap_unitnum(num) == (num \div UnitBits) % ChunkUnits

\* Wrong: units counted as chunks.
ChunknumOfUnits(num) == (num \div UnitBits) % ChunkSize

\* The masking is the last remainder.
pa_bitmap_chunknum(num) == (num \div ChunkBits) % ChunkSize

Ids == DOMAIN chunks

pa_bitmap_test(id, num) ==
    LET atom == chunks[id][pa_bitmap_chunknum(num)] IN
    /\ num < PA_BITMAP_MAX_BIT
    /\ atom # NullAtom
    /\ pa_bitmap_bitnum(num) \in data[atom][pa_bitmap_unitnum(num)]

EmptyChunk == [u \in 0 .. (ChunkUnits - 1) |-> {}]

Extend(f, x, y) == [z \in DOMAIN f \cup {x} |-> IF z = x THEN y ELSE f[z]]

-----------------------------------------------------------------------------
\* Wrong: the block is not taken out of the array.
AllocUntaken ==
    /\ find = NoFind /\ made < MaxBlocks
    /\ chunks' = Extend(chunks, made + 1, [c \in 0 .. (ChunkSize - 1) |-> NullAtom])
    /\ seen' = Extend(seen, made + 1, PA_BITMAP_FIND_START)
    /\ UNCHANGED <<made, data, find>>

\* pa_bitmap_alloc: a new bitmap, or none.
pa_bitmap_alloc ==
    /\ find = NoFind
    /\ \/ /\ made < MaxBlocks
          /\ made' = made + 1
          /\ chunks' = Extend(chunks, made + 1, [c \in 0 .. (ChunkSize - 1) |-> NullAtom])
          /\ seen' = Extend(seen, made + 1, PA_BITMAP_FIND_START)
       \/ UNCHANGED <<made, chunks, seen>>
    /\ UNCHANGED <<data, find>>

\* Wrong: the new chunk is not entered in the bitmap.
SetUnsaved(id, num) ==
    LET c == pa_bitmap_chunknum(num)
        u == pa_bitmap_unitnum(num)
        b == pa_bitmap_bitnum(num)
        atom == chunks[id][c]
    IN
    /\ find = NoFind
    /\ \/ /\ num < PA_BITMAP_MAX_BIT /\ atom # NullAtom
          /\ data' = [data EXCEPT ![atom][u] = @ \cup {b}]
          /\ UNCHANGED <<made, chunks>>
       \/ /\ num < PA_BITMAP_MAX_BIT /\ atom = NullAtom /\ made < MaxBlocks
          /\ made' = made + 1
          /\ chunks' = chunks
          /\ data' = Extend(data, made + 1, [EmptyChunk EXCEPT ![u] = {b}])
    /\ UNCHANGED <<find, seen>>

\* pa_bitmap_set.  A number out of range, and a chunk that cannot be made,
\* are ignored without a word.
pa_bitmap_set(id, num) ==
    LET c == pa_bitmap_chunknum(num)
        u == pa_bitmap_unitnum(num)
        b == pa_bitmap_bitnum(num)
        atom == chunks[id][c]
    IN
    /\ find = NoFind
    /\ \/ /\ num < PA_BITMAP_MAX_BIT /\ atom # NullAtom
          /\ data' = [data EXCEPT ![atom][u] = @ \cup {b}]
          /\ UNCHANGED <<made, chunks>>
       \/ /\ num < PA_BITMAP_MAX_BIT /\ atom = NullAtom /\ made < MaxBlocks
          /\ made' = made + 1
          /\ chunks' = [chunks EXCEPT ![id][c] = made + 1]
          /\ data' = Extend(data, made + 1, [EmptyChunk EXCEPT ![u] = {b}])
       \/ /\ num < PA_BITMAP_MAX_BIT => atom = NullAtom
          /\ UNCHANGED <<made, chunks, data>>
    /\ UNCHANGED <<find, seen>>

\* pa_bitmap_clear
pa_bitmap_clear(id, num) ==
    LET u == pa_bitmap_unitnum(num)
        atom == chunks[id][pa_bitmap_chunknum(num)]
    IN
    /\ find = NoFind
    /\ num < PA_BITMAP_MAX_BIT /\ atom # NullAtom
    /\ data' = [data EXCEPT ![atom][u] = @ \ {pa_bitmap_bitnum(num)}]
    /\ UNCHANGED <<made, chunks, find, seen>>

-----------------------------------------------------------------------------
(* pa_bitmap_find_next *)

\* A search ends with result.
FindReturn(result) ==
    /\ find' = NoFind
    /\ seen' = [seen EXCEPT ![find.id] = result]
    /\ UNCHANGED <<made, chunks, data>>

\* The call: the bits of the unit below mask are to be discarded.
FindStart(id, from) ==
    /\ find = NoFind
    /\ LET num == IF from = PA_BITMAP_FIND_START THEN 0 ELSE from + 1
       IN  IF num = PA_BITMAP_MAX_BIT
           THEN /\ seen' = [seen EXCEPT ![id] = PA_BITMAP_FIND_DONE]
                /\ UNCHANGED find
           ELSE /\ find' = [id |-> id, from |-> from, num |-> num,
                            mask |-> pa_bitmap_bitnum(num)]
                /\ UNCHANGED seen
    /\ UNCHANGED <<made, chunks, data>>

\* The chunk of num was never made: on to the next that was.
FindSkip ==
    LET cur == pa_bitmap_chunknum(find.num)
        later == {c \in (cur + 1) .. (ChunkSize - 1) : chunks[find.id][c] # NullAtom}
    IN
    /\ find # NoFind
    /\ chunks[find.id][cur] = NullAtom
    /\ IF later = {}
       THEN FindReturn(PA_BITMAP_FIND_DONE)
       ELSE /\ find' = [find EXCEPT !.num = Min(later) * ChunkBits]
            /\ UNCHANGED <<made, chunks, data, seen>>

\* Wrong: the low bits are discarded in every unit.
FindUnitMasked ==
    LET cur == pa_bitmap_chunknum(find.num)
        unit == pa_bitmap_unitnum(find.num)
        units == data[chunks[find.id][cur]]
        value == {b \in units[unit] : b >= find.mask}
        later == {u \in (unit + 1) .. (ChunkUnits - 1) : units[u] # {}}
    IN
    /\ find # NoFind
    /\ chunks[find.id][cur] # NullAtom
    /\ IF value # {}
       THEN FindReturn(cur * ChunkBits + unit * UnitBits + Min(value))
       ELSE /\ find' = [find EXCEPT !.num = IF later = {} THEN (cur + 1) * ChunkBits
                                            ELSE cur * ChunkBits + Min(later) * UnitBits]
            /\ UNCHANGED <<made, chunks, data, seen>>

\* Wrong: after the last unit the search stays in the chunk.
FindUnitStuck ==
    LET cur == pa_bitmap_chunknum(find.num)
        unit == pa_bitmap_unitnum(find.num)
        units == data[chunks[find.id][cur]]
        value == {b \in units[unit] : b >= find.mask}
    IN
    /\ find # NoFind
    /\ chunks[find.id][cur] # NullAtom
    /\ IF value # {}
       THEN FindReturn(cur * ChunkBits + unit * UnitBits + Min(value))
       ELSE /\ find' = [find EXCEPT !.mask = 0,
                         !.num = cur * ChunkBits + ((unit + 1) % ChunkUnits) * UnitBits]
            /\ UNCHANGED <<made, chunks, data, seen>>

\* The unit of num: its first bit that counts, the next unit of the chunk
\* that is not empty, or the next chunk.
FindUnit ==
    LET cur == pa_bitmap_chunknum(find.num)
        unit == pa_bitmap_unitnum(find.num)
        units == data[chunks[find.id][cur]]
        value == {b \in units[unit] : b >= find.mask}
        later == {u \in (unit + 1) .. (ChunkUnits - 1) : units[u] # {}}
        next == IF later = {} THEN (cur + 1) * ChunkBits
                ELSE cur * ChunkBits + Min(later) * UnitBits
    IN
    /\ find # NoFind
    /\ chunks[find.id][cur] # NullAtom
    /\ IF value # {}
       THEN FindReturn(cur * ChunkBits + unit * UnitBits + Min(value))
       ELSE /\ find' = [find EXCEPT !.num = next, !.mask = 0]
            /\ UNCHANGED <<made, chunks, data, seen>>

FindStep == FindSkip \/ FindUnit

-----------------------------------------------------------------------------
Init ==
    /\ made = 0
    /\ chunks = <<>> /\ data = <<>>
    /\ find = NoFind
    /\ seen = <<>>

Next ==
    \/ pa_bitmap_alloc
    \/ \E id \in Ids, num \in SetNums : pa_bitmap_set(id, num)
    \/ \E id \in Ids, num \in SetNums : pa_bitmap_clear(id, num)
    \/ \E id \in Ids : /\ seen[id] # PA_BITMAP_FIND_DONE
                       /\ FindStart(id, seen[id])
    \/ \E id \in Ids : FindStart(id, PA_BITMAP_FIND_START)
    \/ \E id \in Ids, from \in Starts : FindStart(id, from)
    \/ FindStep

Spec == Init /\ [][Next]_bitmapVars /\ WF_bitmapVars(FindStep)

-----------------------------------------------------------------------------
(* Properties *)

\* Blocks are numbered as pa_fixed_alloc_atom hands them out, and a search is
\* always on a bitmap that exists.
TypeOK ==
    /\ made \in 0 .. MaxBlocks
    /\ DOMAIN chunks \cup DOMAIN data = 1 .. made
    /\ \A id \in Ids : chunks[id] \in [0 .. (ChunkSize - 1) -> 0 .. made]
    /\ \A a \in DOMAIN data :
          data[a] \in [0 .. (ChunkUnits - 1) -> SUBSET (0 .. (UnitBits - 1))]
    /\ find # NoFind => find.id \in Ids
    /\ DOMAIN seen = Ids

\* No block serves two purposes: a chunk belongs to one place of one bitmap,
\* every chunk belongs to one, and a bitmap is no chunk.
BlocksApart ==
    /\ TypeOK
    /\ DOMAIN chunks \cap DOMAIN data = {}
    /\ \A a \in DOMAIN data :
          Cardinality({p \in Ids \X (0 .. (ChunkSize - 1)) : chunks[p[1]][p[2]] = a}) = 1
    /\ \A id \in Ids : \A c \in 0 .. (ChunkSize - 1) :
          chunks[id][c] \in DOMAIN data \cup {NullAtom}

\* What the bitmaps say, for the abstract specification.
Members == [id \in Ids |-> {n \in 0 .. (PA_BITMAP_MAX_BIT - 1) : pa_bitmap_test(id, n)}]

\* A bitmap behaves as a set of numbers: an operation adds or removes the one
\* number it names in the one bitmap it names, or does nothing.
BitSet == INSTANCE PaBitSet WITH members <- Members, Nums <- SetNums,
                                 MaxIds <- MaxBlocks

BitSetSpec == BitSet!Spec

\* The result of a search is the least member above where it began, and DONE
\* exactly if there is none.
FindsNext ==
    [][(find # NoFind /\ find' = NoFind) =>
          LET above == {n \in Members[find.id] : n > find.from}
          IN  seen'[find.id] = IF above = {} THEN PA_BITMAP_FIND_DONE ELSE Min(above)
      ]_bitmapVars

\* Every call of pa_bitmap_find_next returns: each pass through its restart label
\* gets closer to the end of the bitmap.
FindEnds == (find # NoFind) ~> (find = NoFind)

\* "Should be a noop": the chunk number of a search is in range before it is
\* masked.
MaskIsNoop == find.num \div ChunkBits < ChunkSize
=============================================================================
