--------------------------- MODULE PaBitmapProofs ---------------------------
(***************************************************************************)
(* Proofs about PaBitmap for every size of units, chunks and bitmaps.      *)
(***************************************************************************)
EXTENDS PaBitmap, ProofFacts, FiniteSetTheorems

-----------------------------------------------------------------------------
(* The place of a number *)

Numbers == 0 .. (PA_BITMAP_MAX_BIT - 1)

LEMMA Sizes ==
    /\ UnitBits \in Nat \ {0} /\ ChunkUnits \in Nat \ {0}
    /\ ChunkSize \in Nat \ {0} /\ ChunkBits \in Nat \ {0}
    /\ PA_BITMAP_MAX_BIT \in Nat
    /\ ChunkBits = ChunkUnits * UnitBits
    /\ PA_BITMAP_MAX_BIT = ChunkBits * ChunkSize
    /\ MaxBlocks \in Nat /\ SetNums \subseteq Nat
    /\ Starts \subseteq Numbers
  BY BitmapAssumption DEF ChunkBits, PA_BITMAP_MAX_BIT, Numbers

LEMMA PlaceTypes ==
    ASSUME NEW n \in Nat
    PROVE  /\ pa_bitmap_chunknum(n) \in 0 .. (ChunkSize - 1)
           /\ pa_bitmap_unitnum(n) \in 0 .. (ChunkUnits - 1)
           /\ pa_bitmap_bitnum(n) \in 0 .. (UnitBits - 1)
  <1>1. n \div UnitBits \in Nat /\ n \div ChunkBits \in Nat
    BY Sizes, DivisionFacts
  <1> QED
    BY <1>1, Sizes, DivisionFacts
    DEF pa_bitmap_chunknum, pa_bitmap_unitnum, pa_bitmap_bitnum

\* Chunk, unit and bit number of a number make it up.
LEMMA Place ==
    ASSUME NEW n \in Numbers
    PROVE  n = ChunkBits * pa_bitmap_chunknum(n)
               + UnitBits * pa_bitmap_unitnum(n) + pa_bitmap_bitnum(n)
  <1> DEFINE b == n % UnitBits
             q == n \div UnitBits
             u == q % ChunkUnits
             k == q \div ChunkUnits
  <1>1. /\ n \in Nat /\ n < PA_BITMAP_MAX_BIT
        /\ UnitBits \in Nat \ {0} /\ ChunkUnits \in Nat \ {0}
        /\ ChunkSize \in Nat \ {0} /\ ChunkBits \in Nat \ {0}
        /\ ChunkBits = ChunkUnits * UnitBits
        /\ PA_BITMAP_MAX_BIT = ChunkBits * ChunkSize
    BY Sizes DEF Numbers
  <1>2. q \in Nat /\ b \in 0 .. (UnitBits - 1) /\ n = UnitBits * q + b
    BY <1>1, DivisionFacts
  <1>3. k \in Nat /\ u \in 0 .. (ChunkUnits - 1) /\ q = ChunkUnits * k + u
    BY <1>1, <1>2, DivisionFacts
  <1>4. pa_bitmap_bitnum(n) = b /\ pa_bitmap_unitnum(n) = u
    BY DEF pa_bitmap_bitnum, pa_bitmap_unitnum
  <1> HIDE DEF b, q, u, k
  <1> DEFINE r == UnitBits * u + b
  <1>5. r \in 0 .. (ChunkBits - 1)
    <2>1. UnitBits * u \in Nat
      BY <1>1, <1>3
    <2>2. UnitBits * (u + 1) <= UnitBits * ChunkUnits
      BY <1>1, <1>3
    <2>3. UnitBits * (u + 1) = UnitBits * u + UnitBits
      BY <1>1, <1>3
    <2>4. UnitBits * ChunkUnits = ChunkBits
      BY <1>1
    <2> QED
      BY <1>1, <1>2, <2>1, <2>2, <2>3, <2>4
  <1>6. n = ChunkBits * k + r
    <2>1. UnitBits * q = UnitBits * (ChunkUnits * k + u)
      BY <1>3
    <2>2. UnitBits * (ChunkUnits * k + u) = ChunkUnits * UnitBits * k + UnitBits * u
      BY <1>1, <1>3
    <2>3. ChunkUnits * UnitBits * k = ChunkBits * k
      BY <1>1
    <2>4. ChunkBits * k \in Nat /\ UnitBits * u \in Nat
      BY <1>1, <1>3
    <2> QED
      BY <1>1, <1>2, <2>1, <2>2, <2>3, <2>4
  <1> HIDE DEF r
  <1>7. n \div ChunkBits = k
    BY <1>1, <1>3, <1>5, <1>6, DivisionUnique
  <1>8. k < ChunkSize
    <2> SUFFICES ASSUME ChunkSize <= k PROVE FALSE
      BY <1>1, <1>3
    <2>1. ChunkBits * ChunkSize <= ChunkBits * k
      BY <1>1, <1>3
    <2>2. ChunkBits * k \in Nat
      BY <1>1, <1>3
    <2> QED
      BY <1>1, <1>5, <1>6, <2>1, <2>2
  <1>9. k % ChunkSize = k
    <2>1. (ChunkSize * 0 + k) % ChunkSize = k
      BY <1>1, <1>3, <1>8, DivisionUnique
    <2> QED
      BY <1>1, <1>3, <2>1
  <1>10. pa_bitmap_chunknum(n) = k
    BY <1>7, <1>9 DEF pa_bitmap_chunknum
  <1>11. ChunkBits * k \in Nat /\ UnitBits * u \in Nat
    BY <1>1, <1>3
  <1> QED
    BY <1>2, <1>4, <1>6, <1>10, <1>11 DEF r

\* Two numbers of a bitmap have two places.
LEMMA PlacesDiffer ==
    ASSUME NEW n \in Numbers, NEW m \in Numbers,
           pa_bitmap_chunknum(n) = pa_bitmap_chunknum(m),
           pa_bitmap_unitnum(n) = pa_bitmap_unitnum(m),
           pa_bitmap_bitnum(n) = pa_bitmap_bitnum(m)
    PROVE  n = m
  <1>1. /\ n = ChunkBits * pa_bitmap_chunknum(n)
                 + UnitBits * pa_bitmap_unitnum(n) + pa_bitmap_bitnum(n)
        /\ m = ChunkBits * pa_bitmap_chunknum(m)
                 + UnitBits * pa_bitmap_unitnum(m) + pa_bitmap_bitnum(m)
    BY Place
  <1> QED
    BY <1>1
-----------------------------------------------------------------------------
(* The blocks *)

ChunkNums == 0 .. (ChunkSize - 1)

Units == 0 .. (ChunkUnits - 1)

\* A chunk has one place, and a place holds a chunk or nothing.
OwnPlaces ==
    /\ DOMAIN chunks \cap DOMAIN data = {}
    /\ \A a \in DOMAIN data : \E id \in Ids, c \in ChunkNums : chunks[id][c] = a
    /\ \A id, jd \in Ids : \A c, d \in ChunkNums :
          chunks[id][c] = chunks[jd][d] => \/ chunks[id][c] = NullAtom
                                           \/ id = jd /\ c = d
    /\ \A id \in Ids : \A c \in ChunkNums :
          chunks[id][c] \in DOMAIN data \cup {NullAtom}

\* What a search carries along, and what it may return.
SearchTyped ==
    /\ find # NoFind => find \in [id : Ids, from : Int, num : Nat, mask : Nat]
    /\ \A id \in Ids :
          seen[id] \in Nat \cup {PA_BITMAP_FIND_START, PA_BITMAP_FIND_DONE}

IndInv == TypeOK /\ OwnPlaces /\ SearchTyped

LEMMA InitInd == Init => IndInv
  <1> SUFFICES ASSUME Init PROVE IndInv
    OBVIOUS
  <1>1. /\ made = 0 /\ find = NoFind
        /\ DOMAIN chunks = {} /\ DOMAIN data = {} /\ DOMAIN seen = {}
    BY DEF Init
  <1>2. TypeOK
    BY <1>1, Sizes DEF TypeOK, Ids
  <1> QED
    BY <1>1, <1>2 DEF IndInv, OwnPlaces, SearchTyped, Ids

\* The block that pa_fixed_alloc_atom hands out next is none of those in use.
LEMMA NewBlock ==
    ASSUME IndInv, made < MaxBlocks
    PROVE  /\ made + 1 \in Nat \ {0} /\ made + 1 \in 1 .. MaxBlocks
           /\ made + 1 \notin DOMAIN chunks /\ made + 1 \notin DOMAIN data
           /\ 1 .. (made + 1) = (1 .. made) \cup {made + 1}
           /\ made + 1 \in 0 .. MaxBlocks
           /\ 0 .. made \subseteq 0 .. (made + 1) /\ 0 \in 0 .. made
           /\ NullAtom \notin DOMAIN data
  <1>1. made \in 0 .. MaxBlocks /\ DOMAIN chunks \cup DOMAIN data = 1 .. made
    BY DEF IndInv, TypeOK
  <1>2. \A x \in DOMAIN chunks \cup DOMAIN data : x # made + 1 /\ x # 0
    BY <1>1, Sizes
  <1> QED
    BY <1>1, <1>2, Sizes DEF NullAtom

LEMMA AllocInd == ASSUME IndInv, pa_bitmap_alloc PROVE IndInv'
  <1> DEFINE new == made + 1
             empty == [c \in 0 .. (ChunkSize - 1) |-> NullAtom]
  <1>1. CASE /\ made < MaxBlocks /\ made' = new
             /\ chunks' = Extend(chunks, new, empty)
             /\ seen' = Extend(seen, new, PA_BITMAP_FIND_START)
             /\ UNCHANGED <<data, find>>
    <2>1. /\ new \in Nat \ {0} /\ new \notin DOMAIN chunks /\ new \notin DOMAIN data
          /\ 1 .. new = (1 .. made) \cup {new} /\ new \in 0 .. MaxBlocks
          /\ 0 .. made \subseteq 0 .. new /\ 0 \in 0 .. made
      BY <1>1, NewBlock
    <2>2. /\ DOMAIN chunks' = DOMAIN chunks \cup {new}
          /\ DOMAIN seen' = DOMAIN seen \cup {new}
          /\ chunks'[new] = empty /\ seen'[new] = PA_BITMAP_FIND_START
          /\ \A id \in DOMAIN chunks : chunks'[id] = chunks[id]
          /\ \A id \in DOMAIN seen : id # new => seen'[id] = seen[id]
      BY <1>1, <2>1 DEF Extend
    <2>3. empty \in [0 .. (ChunkSize - 1) -> 0 .. new]
          /\ \A c \in ChunkNums : empty[c] = NullAtom
      BY <2>1 DEF NullAtom, ChunkNums
    <2> HIDE DEF new, empty
    <2>4. TypeOK'
      BY <1>1, <2>1, <2>2, <2>3 DEF IndInv, TypeOK, Ids
    <2>5. OwnPlaces'
      <3>1. (DOMAIN chunks \cap DOMAIN data)' = {}
        BY <1>1, <2>1, <2>2 DEF IndInv, OwnPlaces
      <3>2. /\ Ids' = Ids \cup {new}
            /\ \A id \in Ids : id # new /\ chunks'[id] = chunks[id]
            /\ \A c \in ChunkNums : chunks'[new][c] = NullAtom
            /\ NullAtom \notin DOMAIN data
        BY <1>1, <2>1, <2>2, <2>3, NewBlock DEF Ids
      <3>3. /\ \A a \in DOMAIN data : \E id \in Ids, c \in ChunkNums : chunks[id][c] = a
            /\ \A id, jd \in Ids : \A c, d \in ChunkNums :
                  chunks[id][c] = chunks[jd][d] => \/ chunks[id][c] = NullAtom
                                                   \/ id = jd /\ c = d
            /\ \A id \in Ids : \A c \in ChunkNums :
                  chunks[id][c] \in DOMAIN data \cup {NullAtom}
        BY DEF IndInv, OwnPlaces
      <3>4. \A a \in DOMAIN data : \E id \in Ids', c \in ChunkNums : chunks'[id][c] = a
        BY <3>2, <3>3
      <3>5. \A id, jd \in Ids' : \A c, d \in ChunkNums :
               chunks'[id][c] = chunks'[jd][d] => \/ chunks'[id][c] = NullAtom
                                                  \/ id = jd /\ c = d
        BY <3>2, <3>3
      <3>6. \A id \in Ids' : \A c \in ChunkNums :
               chunks'[id][c] \in DOMAIN data \cup {NullAtom}
        BY <3>2, <3>3
      <3> QED
        BY <1>1, <3>1, <3>4, <3>5, <3>6 DEF OwnPlaces, ChunkNums
    <2>6. SearchTyped'
      BY <1>1, <2>1, <2>2 DEF IndInv, TypeOK, SearchTyped, Ids
    <2> QED
      BY <2>4, <2>5, <2>6 DEF IndInv
  <1>2. CASE UNCHANGED <<made, chunks, seen, data, find>>
    BY <1>2 DEF IndInv, TypeOK, OwnPlaces, SearchTyped, Ids
  <1> QED
    BY <1>1, <1>2 DEF pa_bitmap_alloc

\* Setting or clearing a bit of a chunk that exists.
LEMMA BitInd ==
    ASSUME IndInv, NEW a \in DOMAIN data, NEW u \in Units,
           NEW bits \in SUBSET (0 .. (UnitBits - 1)),
           data' = [data EXCEPT ![a][u] = bits],
           UNCHANGED <<made, chunks, find, seen>>
    PROVE  IndInv'
  <1>1. /\ DOMAIN data' = DOMAIN data
        /\ \A x \in DOMAIN data :
              data'[x] = IF x = a THEN [data[a] EXCEPT ![u] = bits] ELSE data[x]
    OBVIOUS
  <1>2. data[a] \in [Units -> SUBSET (0 .. (UnitBits - 1))]
    BY DEF IndInv, TypeOK, Units
  <1>3. [data[a] EXCEPT ![u] = bits] \in [Units -> SUBSET (0 .. (UnitBits - 1))]
    BY <1>2
  <1>4. TypeOK'
    BY <1>1, <1>3 DEF IndInv, TypeOK, Ids, Units
  <1>5. OwnPlaces' /\ SearchTyped'
    BY <1>1 DEF IndInv, OwnPlaces, SearchTyped, Ids
  <1> QED
    BY <1>4, <1>5 DEF IndInv

\* A new chunk is entered at a place that held nothing.
LEMMA NewChunkInd ==
    ASSUME IndInv, made < MaxBlocks, NEW id \in Ids, NEW c \in ChunkNums,
           NEW units \in [Units -> SUBSET (0 .. (UnitBits - 1))],
           chunks[id][c] = NullAtom, made' = made + 1,
           chunks' = [chunks EXCEPT ![id][c] = made + 1],
           data' = Extend(data, made + 1, units), UNCHANGED <<find, seen>>
    PROVE  IndInv'
  <1> DEFINE new == made + 1
  <1>1. /\ new \in Nat \ {0} /\ new \notin DOMAIN chunks /\ new \notin DOMAIN data
        /\ 1 .. new = (1 .. made) \cup {new} /\ new \in 0 .. MaxBlocks
        /\ 0 .. made \subseteq 0 .. new /\ new \in 0 .. new
    BY NewBlock
  <1>2. /\ DOMAIN data' = DOMAIN data \cup {new} /\ data'[new] = units
        /\ \A a \in DOMAIN data : data'[a] = data[a]
    BY <1>1 DEF Extend
  <1>3. /\ DOMAIN chunks' = DOMAIN chunks
        /\ \A jd \in Ids :
              chunks'[jd] = IF jd = id THEN [chunks[id] EXCEPT ![c] = new] ELSE chunks[jd]
    BY DEF Ids
  <1>4. \A jd \in Ids : chunks[jd] \in [ChunkNums -> 0 .. made]
    BY DEF IndInv, TypeOK, ChunkNums
  <1>5. \A jd \in Ids, d \in ChunkNums :
           chunks'[jd][d] = IF jd = id /\ d = c THEN new ELSE chunks[jd][d]
    BY <1>3, <1>4
  <1>6. \A jd \in Ids : chunks'[jd] \in [ChunkNums -> 0 .. new]
    BY <1>1, <1>3, <1>4
  <1> HIDE DEF new
  <1>7. TypeOK'
    BY <1>1, <1>2, <1>3, <1>6 DEF IndInv, TypeOK, Ids, ChunkNums, Units, new
  <1>8. \A jd \in Ids, d \in ChunkNums : chunks[jd][d] \in DOMAIN data \cup {NullAtom}
    BY DEF IndInv, OwnPlaces
  <1>9. NullAtom # new
    BY <1>1 DEF NullAtom
  <1>10. OwnPlaces'
    <2>1. (DOMAIN chunks \cap DOMAIN data)' = {}
      BY <1>1, <1>2, <1>3 DEF IndInv, OwnPlaces
    <2>2. \A a \in DOMAIN data' : \E jd \in Ids, d \in ChunkNums : chunks'[jd][d] = a
      <3> SUFFICES ASSUME NEW a \in DOMAIN data'
                   PROVE  \E jd \in Ids, d \in ChunkNums : chunks'[jd][d] = a
        OBVIOUS
      <3>1. CASE a = new
        BY <1>5, <3>1
      <3>2. CASE a \in DOMAIN data
        <4>1. PICK jd \in Ids, d \in ChunkNums : chunks[jd][d] = a
          BY <3>2 DEF IndInv, OwnPlaces
        <4>2. a # NullAtom
          BY <3>2, NewBlock
        <4> QED
          BY <1>5, <4>1, <4>2
      <3> QED
        BY <1>2, <3>1, <3>2
    <2>3. \A jd, kd \in Ids : \A d, e \in ChunkNums :
             chunks'[jd][d] = chunks'[kd][e] => \/ chunks'[jd][d] = NullAtom
                                                \/ jd = kd /\ d = e
      BY <1>1, <1>5, <1>8, <1>9 DEF IndInv, OwnPlaces
    <2>4. \A jd \in Ids : \A d \in ChunkNums :
             chunks'[jd][d] \in DOMAIN data' \cup {NullAtom}
      BY <1>2, <1>5, <1>8
    <2>5. Ids' = Ids
      BY <1>3 DEF Ids
    <2> QED
      BY <2>1, <2>2, <2>3, <2>4, <2>5 DEF OwnPlaces, ChunkNums
  <1>11. SearchTyped'
    BY <1>3 DEF IndInv, SearchTyped, Ids
  <1> QED
    BY <1>7, <1>10, <1>11 DEF IndInv

\* The chunk of a number, and the unit in it.
LEMMA ChunkOf ==
    ASSUME IndInv, NEW id \in Ids, NEW n \in Nat,
           chunks[id][pa_bitmap_chunknum(n)] # NullAtom
    PROVE  /\ chunks[id][pa_bitmap_chunknum(n)] \in DOMAIN data
           /\ pa_bitmap_unitnum(n) \in Units
           /\ pa_bitmap_bitnum(n) \in 0 .. (UnitBits - 1)
           /\ data[chunks[id][pa_bitmap_chunknum(n)]][pa_bitmap_unitnum(n)]
                 \in SUBSET (0 .. (UnitBits - 1))
  <1>1. pa_bitmap_chunknum(n) \in ChunkNums /\ pa_bitmap_unitnum(n) \in Units
    BY PlaceTypes DEF ChunkNums, Units
  <1>2. chunks[id][pa_bitmap_chunknum(n)] \in DOMAIN data
    BY <1>1 DEF IndInv, OwnPlaces
  <1> QED
    BY <1>1, <1>2, PlaceTypes DEF IndInv, TypeOK, Units

\* The three ways in which pa_bitmap_set ends.
LEMMA SetOutcomes ==
    ASSUME IndInv, NEW id \in Ids, NEW num \in SetNums, pa_bitmap_set(id, num)
    PROVE  LET c == pa_bitmap_chunknum(num)
               u == pa_bitmap_unitnum(num)
               b == pa_bitmap_bitnum(num)
               a == chunks[id][c]
           IN /\ UNCHANGED <<find, seen>>
              /\ \/ /\ num \in Numbers /\ a \in DOMAIN data
                    /\ data' = [data EXCEPT ![a][u] = data[a][u] \cup {b}]
                    /\ UNCHANGED <<made, chunks>>
                 \/ /\ num \in Numbers /\ a = NullAtom /\ made < MaxBlocks
                    /\ made' = made + 1
                    /\ chunks' = [chunks EXCEPT ![id][c] = made + 1]
                    /\ data' = Extend(data, made + 1, [EmptyChunk EXCEPT ![u] = {b}])
                 \/ UNCHANGED <<made, chunks, data>>
  <1> DEFINE c == pa_bitmap_chunknum(num)
             u == pa_bitmap_unitnum(num)
             b == pa_bitmap_bitnum(num)
             a == chunks[id][c]
  <1>1. num \in Nat /\ (num < PA_BITMAP_MAX_BIT => num \in Numbers)
    BY Sizes DEF Numbers
  <1>2. a # NullAtom => a \in DOMAIN data
    BY <1>1, ChunkOf
  <1>3. /\ UNCHANGED <<find, seen>>
        /\ \/ /\ num < PA_BITMAP_MAX_BIT /\ a # NullAtom
              /\ data' = [data EXCEPT ![a][u] = @ \cup {b}]
              /\ UNCHANGED <<made, chunks>>
           \/ /\ num < PA_BITMAP_MAX_BIT /\ a = NullAtom /\ made < MaxBlocks
              /\ made' = made + 1
              /\ chunks' = [chunks EXCEPT ![id][c] = made + 1]
              /\ data' = Extend(data, made + 1, [EmptyChunk EXCEPT ![u] = {b}])
           \/ UNCHANGED <<made, chunks, data>>
    BY DEF pa_bitmap_set
  <1> HIDE DEF c, u, b, a
  <1> QED
    BY <1>1, <1>2, <1>3 DEF c, u, b, a

LEMMA EmptyChunkType ==
    ASSUME NEW n \in Nat
    PROVE  [EmptyChunk EXCEPT ![pa_bitmap_unitnum(n)] = {pa_bitmap_bitnum(n)}]
              \in [Units -> SUBSET (0 .. (UnitBits - 1))]
  BY PlaceTypes DEF EmptyChunk, Units

LEMMA SetInd ==
    ASSUME IndInv, NEW id \in Ids, NEW num \in SetNums, pa_bitmap_set(id, num)
    PROVE  IndInv'
  <1> DEFINE c == pa_bitmap_chunknum(num)
             u == pa_bitmap_unitnum(num)
             b == pa_bitmap_bitnum(num)
             a == chunks[id][c]
  <1>1. num \in Nat /\ c \in ChunkNums /\ u \in Units
    BY Sizes, PlaceTypes DEF ChunkNums, Units
  <1>2. CASE /\ num \in Numbers /\ a \in DOMAIN data
             /\ data' = [data EXCEPT ![a][u] = data[a][u] \cup {b}]
             /\ UNCHANGED <<made, chunks, find, seen>>
    <2>1. data[a][u] \cup {b} \in SUBSET (0 .. (UnitBits - 1))
      BY <1>1, <1>2, PlaceTypes DEF IndInv, TypeOK, Units
    <2> HIDE DEF a, u, b
    <2> QED
      BY <1>1, <1>2, <2>1, BitInd
  <1>3. CASE /\ num \in Numbers /\ a = NullAtom /\ made < MaxBlocks
             /\ made' = made + 1
             /\ chunks' = [chunks EXCEPT ![id][c] = made + 1]
             /\ data' = Extend(data, made + 1, [EmptyChunk EXCEPT ![u] = {b}])
             /\ UNCHANGED <<find, seen>>
    <2>1. [EmptyChunk EXCEPT ![u] = {b}] \in [Units -> SUBSET (0 .. (UnitBits - 1))]
      BY <1>1, EmptyChunkType
    <2> QED
      BY <1>1, <1>3, <2>1, NewChunkInd
  <1>4. CASE UNCHANGED <<made, chunks, data, find, seen>>
    BY <1>4 DEF IndInv, TypeOK, OwnPlaces, SearchTyped, Ids
  <1> QED
    BY <1>2, <1>3, <1>4, SetOutcomes

LEMMA ClearInd ==
    ASSUME IndInv, NEW id \in Ids, NEW num \in SetNums, pa_bitmap_clear(id, num)
    PROVE  IndInv'
  <1> DEFINE u == pa_bitmap_unitnum(num)
             b == pa_bitmap_bitnum(num)
             a == chunks[id][pa_bitmap_chunknum(num)]
  <1>1. /\ a # NullAtom /\ data' = [data EXCEPT ![a][u] = data[a][u] \ {b}]
        /\ UNCHANGED <<made, chunks, find, seen>>
    BY DEF pa_bitmap_clear
  <1>2. num \in Nat
    BY Sizes
  <1>3. /\ a \in DOMAIN data /\ u \in Units
        /\ data[a][u] \ {b} \in SUBSET (0 .. (UnitBits - 1))
    BY <1>1, <1>2, ChunkOf
  <1> HIDE DEF a, u, b
  <1> QED
    BY <1>1, <1>3, BitInd

LEMMA MinIsLeast ==
    ASSUME NEW S \in SUBSET Nat, S # {}
    PROVE  Min(S) \in S /\ \A x \in S : Min(S) <= x
  BY LeastNatural DEF Min

\* A search that returns what it may return keeps the invariant.
LEMMA ReturnInd ==
    ASSUME IndInv, NEW result \in Nat \cup {PA_BITMAP_FIND_DONE}, FindReturn(result)
    PROVE  IndInv'
  <1>1. /\ find' = NoFind /\ seen' = [seen EXCEPT ![find.id] = result]
        /\ UNCHANGED <<made, chunks, data>>
    BY DEF FindReturn
  <1>2. /\ DOMAIN seen' = DOMAIN seen
        /\ \A id \in DOMAIN seen : seen'[id] \in {seen[id], result}
    BY <1>1
  <1>3. TypeOK' /\ OwnPlaces' /\ SearchTyped'
    BY <1>1, <1>2 DEF IndInv, TypeOK, OwnPlaces, SearchTyped, Ids
  <1> QED
    BY <1>3 DEF IndInv

\* A search that goes on to another number keeps it, too.
LEMMA MoveInd ==
    ASSUME IndInv, find # NoFind, NEW n \in Nat, NEW m \in Nat,
           find' = [find EXCEPT !.num = n, !.mask = m],
           UNCHANGED <<made, chunks, data, seen>>
    PROVE  IndInv' /\ find' # NoFind
  <1>1. find \in [id : Ids, from : Int, num : Nat, mask : Nat]
    BY DEF IndInv, SearchTyped
  <1>2. find' \in [id : Ids, from : Int, num : Nat, mask : Nat]
        /\ find'.id = find.id
    BY <1>1
  <1>3. find.id # 0
    <2>1. find.id \in 1 .. made /\ made \in Nat
      BY <1>1, Sizes DEF IndInv, TypeOK, Ids
    <2> QED
      BY <2>1
  <1>4. find' # NoFind
    BY <1>2, <1>3 DEF NoFind
  <1>5. TypeOK' /\ OwnPlaces' /\ SearchTyped'
    BY <1>2 DEF IndInv, TypeOK, OwnPlaces, SearchTyped, Ids
  <1> QED
    BY <1>4, <1>5 DEF IndInv

LEMMA StartInd ==
    ASSUME IndInv, NEW id \in Ids, NEW from \in Nat \cup {PA_BITMAP_FIND_START},
           FindStart(id, from)
    PROVE  IndInv'
  <1> DEFINE num == IF from = PA_BITMAP_FIND_START THEN 0 ELSE from + 1
  <1>1. num \in Nat /\ pa_bitmap_bitnum(num) \in Nat /\ from \in Int
    BY PlaceTypes DEF PA_BITMAP_FIND_START
  <1>2. /\ UNCHANGED <<made, chunks, data>>
        /\ \/ /\ seen' = [seen EXCEPT ![id] = PA_BITMAP_FIND_DONE]
              /\ find' = find /\ find = NoFind
           \/ /\ find' = [id |-> id, from |-> from, num |-> num,
                          mask |-> pa_bitmap_bitnum(num)]
              /\ seen' = seen
    BY DEF FindStart
  <1> HIDE DEF num
  <1>3. CASE seen' = [seen EXCEPT ![id] = PA_BITMAP_FIND_DONE] /\ find' = NoFind
    <2>1. /\ DOMAIN seen' = DOMAIN seen
          /\ \A jd \in DOMAIN seen : seen'[jd] \in {seen[jd], PA_BITMAP_FIND_DONE}
      BY <1>3
    <2>2. TypeOK' /\ OwnPlaces' /\ SearchTyped'
      BY <1>2, <1>3, <2>1 DEF IndInv, TypeOK, OwnPlaces, SearchTyped, Ids
    <2> QED
      BY <2>2 DEF IndInv
  <1>4. CASE /\ find' = [id |-> id, from |-> from, num |-> num,
                         mask |-> pa_bitmap_bitnum(num)]
             /\ seen' = seen
    <2>1. find' \in [id : Ids, from : Int, num : Nat, mask : Nat] /\ find'.id \in Ids
      BY <1>1, <1>4
    <2>2. TypeOK' /\ OwnPlaces' /\ SearchTyped'
      BY <1>2, <1>4, <2>1 DEF IndInv, TypeOK, OwnPlaces, SearchTyped, Ids
    <2> QED
      BY <2>2 DEF IndInv
  <1> QED
    BY <1>2, <1>3, <1>4

LEMMA FindInd == ASSUME IndInv, FindStep PROVE IndInv'
  <1>1. find # NoFind /\ find \in [id : Ids, from : Int, num : Nat, mask : Nat]
    BY DEF FindStep, FindSkip, FindUnit, IndInv, SearchTyped
  <1> DEFINE cur == pa_bitmap_chunknum(find.num)
             unit == pa_bitmap_unitnum(find.num)
  <1>2. /\ find.num \in Nat /\ find.mask \in Nat /\ find.id \in Ids
        /\ cur \in Nat /\ unit \in Nat
    BY <1>1, PlaceTypes
  <1>3. CASE FindSkip
    <2> DEFINE later == {c \in (cur + 1) .. (ChunkSize - 1) :
                           chunks[find.id][c] # NullAtom}
    <2>1. \/ FindReturn(PA_BITMAP_FIND_DONE)
          \/ /\ later # {} /\ find' = [find EXCEPT !.num = Min(later) * ChunkBits]
             /\ UNCHANGED <<made, chunks, data, seen>>
      BY <1>3 DEF FindSkip
    <2>2. later \subseteq Nat
      BY <1>2, Sizes
    <2> HIDE DEF later
    <2>3. later # {} => Min(later) * ChunkBits \in Nat
      <3>1. later # {} => Min(later) \in Nat
        BY <2>2, MinIsLeast
      <3> QED
        BY <3>1, Sizes
    <2> DEFINE n == Min(later) * ChunkBits
    <2>4. [find EXCEPT !.num = n] = [find EXCEPT !.num = n, !.mask = find.mask]
      BY <1>1
    <2> HIDE DEF n
    <2>5. \/ FindReturn(PA_BITMAP_FIND_DONE)
          \/ /\ n \in Nat /\ find' = [find EXCEPT !.num = n, !.mask = find.mask]
             /\ UNCHANGED <<made, chunks, data, seen>>
      BY <2>1, <2>3, <2>4 DEF n
    <2> QED
      BY <1>1, <1>2, <2>5, ReturnInd, MoveInd
  <1>4. CASE FindUnit
    <2> DEFINE units == data[chunks[find.id][cur]]
               value == {b \in units[unit] : b >= find.mask}
               later == {u \in (unit + 1) .. (ChunkUnits - 1) : units[u] # {}}
               next == IF later = {} THEN (cur + 1) * ChunkBits
                       ELSE cur * ChunkBits + Min(later) * UnitBits
               hit == cur * ChunkBits + unit * UnitBits + Min(value)
    <2>1. /\ chunks[find.id][cur] # NullAtom
          /\ \/ value # {} /\ FindReturn(hit)
             \/ /\ find' = [find EXCEPT !.num = next, !.mask = 0]
                /\ UNCHANGED <<made, chunks, data, seen>>
      BY <1>4 DEF FindUnit
    <2>2. value \subseteq Nat
      <3>1. units[unit] \in SUBSET (0 .. (UnitBits - 1))
        BY <1>2, <2>1, ChunkOf
      <3> QED
        BY <3>1, Sizes
    <2>3. later \subseteq Nat
      BY <1>2, Sizes
    <2> HIDE DEF cur, unit, value, later
    <2>4. value # {} => hit \in Nat
      <3>1. cur * ChunkBits \in Nat /\ unit * UnitBits \in Nat
        BY <1>2, Sizes
      <3>2. value # {} => Min(value) \in Nat
        BY <2>2, MinIsLeast
      <3> QED
        BY <3>1, <3>2
    <2>5. next \in Nat
      <3>1. (cur + 1) * ChunkBits \in Nat /\ cur * ChunkBits \in Nat
        BY <1>2, Sizes
      <3>2. later # {} => Min(later) \in Nat
        BY <2>3, MinIsLeast
      <3>3. later # {} => Min(later) * UnitBits \in Nat
        BY <3>2, Sizes
      <3> QED
        BY <3>1, <3>3
    <2> HIDE DEF next, hit
    <2> QED
      BY <1>1, <2>1, <2>4, <2>5, ReturnInd, MoveInd
  <1> QED
    BY <1>3, <1>4 DEF FindStep

LEMMA NextInd == ASSUME IndInv, [Next]_bitmapVars PROVE IndInv'
  <1>1. ASSUME NEW id \in Ids, seen[id] # PA_BITMAP_FIND_DONE, FindStart(id, seen[id])
        PROVE  IndInv'
    <2>1. seen[id] \in Nat \cup {PA_BITMAP_FIND_START}
      BY <1>1 DEF IndInv, SearchTyped
    <2> QED
      BY <1>1, <2>1, StartInd
  <1>2. ASSUME NEW id \in Ids, NEW from \in Starts, FindStart(id, from)
        PROVE  IndInv'
    <2>1. from \in Nat
      BY Sizes DEF Numbers
    <2> QED
      BY <1>2, <2>1, StartInd
  <1>3. ASSUME NEW id \in Ids, FindStart(id, PA_BITMAP_FIND_START)
        PROVE  IndInv'
    BY <1>3, StartInd
  <1>4. CASE UNCHANGED bitmapVars
    BY <1>4 DEF bitmapVars, IndInv, TypeOK, OwnPlaces, SearchTyped, Ids
  <1> QED
    BY <1>1, <1>2, <1>3, <1>4, AllocInd, SetInd, ClearInd, FindInd DEF Next

LEMMA Invariance == Spec => []IndInv
  <1>1. Init => IndInv
    BY InitInd
  <1>2. IndInv /\ [Next]_bitmapVars => IndInv'
    BY NextInd
  <1> QED
    BY <1>1, <1>2, PTL DEF Spec

LEMMA OwnPlacesApart == IndInv => BlocksApart
  <1> SUFFICES ASSUME IndInv PROVE BlocksApart
    OBVIOUS
  <1>1. ASSUME NEW a \in DOMAIN data
        PROVE  Cardinality({p \in Ids \X (0 .. (ChunkSize - 1)) : chunks[p[1]][p[2]] = a}) = 1
    <2> DEFINE places == {p \in Ids \X (0 .. (ChunkSize - 1)) : chunks[p[1]][p[2]] = a}
    <2>1. PICK id \in Ids, c \in ChunkNums : chunks[id][c] = a
      BY DEF IndInv, OwnPlaces
    <2>2. a # NullAtom
      BY Sizes DEF IndInv, TypeOK, NullAtom
    <2>3. \A jd \in Ids, d \in ChunkNums : chunks[jd][d] = a => jd = id /\ d = c
      BY <2>1, <2>2 DEF IndInv, OwnPlaces
    <2>4. places = {<<id, c>>}
      BY <2>1, <2>3 DEF ChunkNums
    <2> HIDE DEF places
    <2>5. Cardinality(places) = 1
      BY <2>4, FS_Singleton
    <2> QED
      BY <2>5 DEF places
  <1>2. DOMAIN chunks \cap DOMAIN data = {}
    BY DEF IndInv, OwnPlaces
  <1>3. \A id \in Ids : \A c \in 0 .. (ChunkSize - 1) :
           chunks[id][c] \in DOMAIN data \cup {NullAtom}
    BY DEF IndInv, OwnPlaces, ChunkNums
  <1> QED
    BY <1>1, <1>2, <1>3 DEF BlocksApart, IndInv

\* A block that pa_bitmap_alloc or pa_bitmap_set takes from the paged array
\* serves one purpose at one place, for every size of units and chunks.
THEOREM BlocksAlwaysApart == Spec => []BlocksApart
  <1>1. IndInv => BlocksApart
    BY OwnPlacesApart
  <1> QED
    BY <1>1, Invariance, PTL

-----------------------------------------------------------------------------
(* A bitmap is a set of numbers *)

LEMMA MemberIff ==
    ASSUME IndInv, NEW id \in Ids, NEW n
    PROVE  n \in Members[id] <=>
              /\ n \in Numbers
              /\ chunks[id][pa_bitmap_chunknum(n)] # NullAtom
              /\ pa_bitmap_bitnum(n) \in
                    data[chunks[id][pa_bitmap_chunknum(n)]][pa_bitmap_unitnum(n)]
  BY Sizes DEF Members, pa_bitmap_test, Numbers

\* The unit of num holds bits afterwards, which differ from what it held in
\* num's own bit alone.
BitChange(id, num, bits) ==
    LET u == pa_bitmap_unitnum(num)
        a == chunks[id][pa_bitmap_chunknum(num)]
    IN
    /\ a \in DOMAIN data
    /\ data' = [data EXCEPT ![a][u] = bits]
    /\ \A b : b # pa_bitmap_bitnum(num) => (b \in bits <=> b \in data[a][u])
    /\ UNCHANGED <<made, chunks>>

\* Such a change is one of a single membership at most.
LEMMA BitStep ==
    ASSUME IndInv, IndInv', NEW id \in Ids, NEW num \in Numbers, NEW bits,
           BitChange(id, num, bits),
           NEW jd \in Ids, NEW n, n # num \/ jd # id
    PROVE  n \in Members'[jd] <=> n \in Members[jd]
  <1> DEFINE c == pa_bitmap_chunknum(num)
             u == pa_bitmap_unitnum(num)
             a == chunks[id][c]
             d == pa_bitmap_chunknum(n)
             v == pa_bitmap_unitnum(n)
             e == chunks[jd][d]
  <1>0. /\ a \in DOMAIN data
        /\ data' = [data EXCEPT ![a][u] = bits]
        /\ \A b : b # pa_bitmap_bitnum(num) => (b \in bits <=> b \in data[a][u])
        /\ UNCHANGED <<made, chunks>>
    BY DEF BitChange
  <1> SUFFICES ASSUME n \in Numbers, e # NullAtom
               PROVE  pa_bitmap_bitnum(n) \in data'[e][v]
                         <=> pa_bitmap_bitnum(n) \in data[e][v]
    <2>1. Ids' = Ids /\ chunks' = chunks
      BY <1>0 DEF Ids
    <2>2. n \in Members[jd] <=> /\ n \in Numbers /\ e # NullAtom
                               /\ pa_bitmap_bitnum(n) \in data[e][v]
      BY MemberIff
    <2>3. n \in Members'[jd] <=> /\ n \in Numbers /\ e # NullAtom
                                /\ pa_bitmap_bitnum(n) \in data'[e][v]
      BY <2>1, Sizes DEF Members, pa_bitmap_test, Numbers
    <2> QED
      BY <2>2, <2>3
  <1>1. /\ n \in Nat /\ num \in Nat
        /\ c \in ChunkNums /\ d \in ChunkNums /\ u \in Units /\ v \in Units
    BY PlaceTypes, Sizes DEF Numbers, ChunkNums, Units
  <1>2. e \in DOMAIN data /\ a # NullAtom
    <2>1. e \in DOMAIN data
      BY <1>1, ChunkOf
    <2>2. DOMAIN data \subseteq 1 .. made
      BY DEF IndInv, TypeOK
    <2> QED
      BY <1>0, <2>1, <2>2, Sizes DEF NullAtom
  <1>3. a = e => id = jd /\ c = d
    BY <1>1, <1>2 DEF IndInv, OwnPlaces
  <1>4. (a = e /\ u = v) => pa_bitmap_bitnum(n) # pa_bitmap_bitnum(num)
    BY <1>3, PlacesDiffer
  <1>5. data[a] \in [Units -> SUBSET (0 .. (UnitBits - 1))]
    BY <1>0 DEF IndInv, TypeOK, Units
  <1>6. /\ data'[e] = IF e = a THEN [data[a] EXCEPT ![u] = bits] ELSE data[e]
    BY <1>0, <1>2
  <1>7. data'[e][v] = IF e = a /\ u = v THEN bits ELSE data[e][v]
    BY <1>1, <1>5, <1>6
  <1> HIDE DEF a, c, d, e, u, v
  <1> QED
    BY <1>0, <1>4, <1>7 DEF a, c, u

LEMMA MembersFunction ==
    /\ Members = [id \in Ids |-> Members[id]] /\ DOMAIN Members = Ids
    /\ Members' = [id \in Ids' |-> Members'[id]] /\ DOMAIN Members' = Ids'
  BY DEF Members

\* If the sets agree but for one element of one of them, that one was added or
\* removed.
LEMMA OneChange ==
    ASSUME UNCHANGED Ids, NEW id \in Ids, NEW num,
           \A jd \in Ids : \A n : (n # num \/ jd # id) =>
              (n \in Members'[jd] <=> n \in Members[jd])
    PROVE  /\ num \in Members'[id] =>
                 Members' = [Members EXCEPT ![id] = Members[id] \cup {num}]
           /\ num \notin Members'[id] =>
                 Members' = [Members EXCEPT ![id] = Members[id] \ {num}]
  <1>1. /\ Members = [jd \in Ids |-> Members[jd]]
        /\ Members' = [jd \in Ids |-> Members'[jd]]
    BY MembersFunction
  <1>2. \A jd \in Ids : jd # id => Members'[jd] = Members[jd]
    OBVIOUS
  <1>3. ASSUME num \in Members'[id]
        PROVE  Members' = [Members EXCEPT ![id] = Members[id] \cup {num}]
    <2>1. Members'[id] = Members[id] \cup {num}
      BY <1>3
    <2> QED
      BY <1>1, <1>2, <2>1
  <1>4. ASSUME num \notin Members'[id]
        PROVE  Members' = [Members EXCEPT ![id] = Members[id] \ {num}]
    <2>1. Members'[id] = Members[id] \ {num}
      BY <1>4
    <2> QED
      BY <1>1, <1>2, <2>1
  <1> QED
    BY <1>3, <1>4

\* A new chunk holds the bit that it was made for, and nothing else.
LEMMA NewChunkStep ==
    ASSUME IndInv, made < MaxBlocks, NEW id \in Ids, NEW num \in Numbers,
           chunks[id][pa_bitmap_chunknum(num)] = NullAtom,
           chunks' = [chunks EXCEPT ![id][pa_bitmap_chunknum(num)] = made + 1],
           data' = Extend(data, made + 1,
                          [EmptyChunk EXCEPT ![pa_bitmap_unitnum(num)] =
                              {pa_bitmap_bitnum(num)}])
    PROVE  /\ Ids' = Ids /\ num \in Members'[id]
           /\ \A jd \in Ids : \A n : (n # num \/ jd # id) =>
                 (n \in Members'[jd] <=> n \in Members[jd])
  <1> DEFINE new == made + 1
             c == pa_bitmap_chunknum(num)
             u == pa_bitmap_unitnum(num)
             b == pa_bitmap_bitnum(num)
             units == [EmptyChunk EXCEPT ![u] = {b}]
  <1>1. num \in Nat /\ c \in ChunkNums /\ u \in Units
    BY PlaceTypes, Sizes DEF Numbers, ChunkNums, Units
  <1>2. new # NullAtom /\ new \notin DOMAIN data /\ NullAtom \notin DOMAIN data
    BY NewBlock DEF NullAtom
  <1>3. /\ data'[new] = units
        /\ \A a \in DOMAIN data : data'[a] = data[a]
    BY <1>2 DEF Extend
  <1>4. \A v \in Units : units[v] = IF v = u THEN {b} ELSE {}
    BY <1>1 DEF EmptyChunk, Units
  <1>5. /\ Ids' = Ids
        /\ \A jd \in Ids :
              chunks'[jd] = IF jd = id THEN [chunks[id] EXCEPT ![c] = new] ELSE chunks[jd]
    BY DEF Ids
  <1>6. \A jd \in Ids : chunks[jd] \in [ChunkNums -> 0 .. made]
    BY DEF IndInv, TypeOK, ChunkNums
  <1>7. \A jd \in Ids, d \in ChunkNums :
           chunks'[jd][d] = IF jd = id /\ d = c THEN new ELSE chunks[jd][d]
    BY <1>5, <1>6
  <1>8. \A jd \in Ids, d \in ChunkNums : chunks[jd][d] \in DOMAIN data \cup {NullAtom}
    BY DEF IndInv, OwnPlaces
  <1>9. ASSUME NEW jd \in Ids, NEW n
        PROVE  n \in Members'[jd] <=>
                  /\ n \in Numbers
                  /\ chunks'[jd][pa_bitmap_chunknum(n)] # NullAtom
                  /\ pa_bitmap_bitnum(n) \in
                        data'[chunks'[jd][pa_bitmap_chunknum(n)]][pa_bitmap_unitnum(n)]
    BY <1>5, Sizes DEF Members, pa_bitmap_test, Numbers
  <1> HIDE DEF new, units
  <1>10. num \in Members'[id]
    <2>1. chunks'[id][c] = new
      BY <1>1, <1>7
    <2>2. b \in data'[new][u]
      BY <1>1, <1>3, <1>4
    <2> QED
      BY <1>2, <1>9, <2>1, <2>2
  <1>11. ASSUME NEW jd \in Ids, NEW n, n # num \/ jd # id
         PROVE  n \in Members'[jd] <=> n \in Members[jd]
    <2> SUFFICES ASSUME n \in Numbers
                 PROVE  n \in Members'[jd] <=> n \in Members[jd]
      BY <1>9, MemberIff
    <2> DEFINE d == pa_bitmap_chunknum(n)
               v == pa_bitmap_unitnum(n)
    <2>1. d \in ChunkNums /\ v \in Units
      BY PlaceTypes, Sizes DEF Numbers, ChunkNums, Units
    <2>2. n \in Members[jd] <=> /\ chunks[jd][d] # NullAtom
                               /\ pa_bitmap_bitnum(n) \in data[chunks[jd][d]][v]
      BY MemberIff
    <2>3. n \in Members'[jd] <=> /\ chunks'[jd][d] # NullAtom
                                /\ pa_bitmap_bitnum(n) \in data'[chunks'[jd][d]][v]
      BY <1>9
    <2>4. CASE jd = id /\ d = c
      <3>1. chunks[jd][d] = NullAtom /\ chunks'[jd][d] = new
        BY <1>1, <1>7, <2>4
      <3>2. v = u => pa_bitmap_bitnum(n) # b
        BY <1>11, <2>4, PlacesDiffer
      <3>3. pa_bitmap_bitnum(n) \notin units[v]
        BY <1>4, <2>1, <3>2
      <3> QED
        BY <1>3, <2>2, <2>3, <3>1, <3>3
    <2>5. CASE ~(jd = id /\ d = c)
      <3>1. chunks'[jd][d] = chunks[jd][d]
        BY <1>7, <2>1, <2>5
      <3>2. chunks[jd][d] # NullAtom => data'[chunks[jd][d]] = data[chunks[jd][d]]
        BY <1>3, <1>8, <2>1
      <3> HIDE DEF d, v
      <3> QED
        BY <2>2, <2>3, <3>1, <3>2
    <2> QED
      BY <2>4, <2>5
  <1> QED
    BY <1>5, <1>10, <1>11

LEMMA SetStep ==
    ASSUME IndInv, IndInv', NEW id \in Ids, NEW num \in SetNums, pa_bitmap_set(id, num)
    PROVE  BitSet!Add \/ UNCHANGED Members
  <1> DEFINE c == pa_bitmap_chunknum(num)
             u == pa_bitmap_unitnum(num)
             b == pa_bitmap_bitnum(num)
             a == chunks[id][c]
  <1>1. num \in Nat
    BY Sizes
  <1>2. CASE /\ num \in Numbers /\ a \in DOMAIN data
             /\ data' = [data EXCEPT ![a][u] = data[a][u] \cup {b}]
             /\ UNCHANGED <<made, chunks>>
    <2>1. Ids' = Ids
      BY <1>2 DEF Ids
    <2>2. \A jd \in Ids : \A n : (n # num \/ jd # id) =>
             (n \in Members'[jd] <=> n \in Members[jd])
      <3> SUFFICES ASSUME NEW jd \in Ids, NEW n, n # num \/ jd # id
                   PROVE  n \in Members'[jd] <=> n \in Members[jd]
        OBVIOUS
      <3> DEFINE bits == data[a][u] \cup {b}
      <3>1. \A x : x # b => (x \in bits <=> x \in data[a][u])
        OBVIOUS
      <3>2. data' = [data EXCEPT ![a][u] = bits]
        BY <1>2
      <3>3. BitChange(id, num, bits)
        BY <1>2, <3>1, <3>2 DEF BitChange
      <3> HIDE DEF bits
      <3> QED
        BY <1>2, <3>3, BitStep
    <2>3. num \in Members'[id]
      <3>1. a # NullAtom /\ u \in Units /\ data[a] \in [Units -> SUBSET (0 .. (UnitBits - 1))]
        BY <1>1, <1>2, PlaceTypes, NewBlock DEF IndInv, TypeOK, Units, NullAtom
      <3>2. b \in data'[a][u] /\ chunks' = chunks
        BY <1>2, <3>1
      <3> QED
        BY <1>2, <2>1, <3>1, <3>2, Sizes DEF Members, pa_bitmap_test, Numbers
    <2>4. Members' = [Members EXCEPT ![id] = Members[id] \cup {num}]
      BY <2>1, <2>2, <2>3, OneChange
    <2> QED
      BY <2>4, MembersFunction DEF BitSet!Add
  <1>3. CASE /\ num \in Numbers /\ a = NullAtom /\ made < MaxBlocks
             /\ chunks' = [chunks EXCEPT ![id][c] = made + 1]
             /\ data' = Extend(data, made + 1, [EmptyChunk EXCEPT ![u] = {b}])
    <2>1. /\ Ids' = Ids /\ num \in Members'[id]
          /\ \A jd \in Ids : \A n : (n # num \/ jd # id) =>
                (n \in Members'[jd] <=> n \in Members[jd])
      BY <1>3, NewChunkStep
    <2>2. Members' = [Members EXCEPT ![id] = Members[id] \cup {num}]
      BY <2>1, OneChange
    <2> QED
      BY <2>2, MembersFunction DEF BitSet!Add
  <1>4. CASE UNCHANGED <<made, chunks, data>>
    BY <1>4 DEF Members, Ids, pa_bitmap_test
  <1> QED
    BY <1>2, <1>3, <1>4, SetOutcomes

LEMMA ClearStep ==
    ASSUME IndInv, IndInv', NEW id \in Ids, NEW num \in SetNums, pa_bitmap_clear(id, num)
    PROVE  BitSet!Remove
  <1> DEFINE u == pa_bitmap_unitnum(num)
             b == pa_bitmap_bitnum(num)
             a == chunks[id][pa_bitmap_chunknum(num)]
  <1>1. /\ num \in Numbers /\ num \in Nat /\ a # NullAtom
        /\ data' = [data EXCEPT ![a][u] = data[a][u] \ {b}]
        /\ UNCHANGED <<made, chunks>>
    BY Sizes DEF pa_bitmap_clear, Numbers
  <1>2. a \in DOMAIN data /\ u \in Units /\ Ids' = Ids
    BY <1>1, ChunkOf DEF Ids
  <1>3. \A jd \in Ids : \A n : (n # num \/ jd # id) =>
           (n \in Members'[jd] <=> n \in Members[jd])
    <2> SUFFICES ASSUME NEW jd \in Ids, NEW n, n # num \/ jd # id
                 PROVE  n \in Members'[jd] <=> n \in Members[jd]
      OBVIOUS
    <2> DEFINE bits == data[a][u] \ {b}
    <2>1. \A x : x # b => (x \in bits <=> x \in data[a][u])
      OBVIOUS
    <2>2. data' = [data EXCEPT ![a][u] = bits]
      BY <1>1
    <2>3. BitChange(id, num, bits)
      BY <1>1, <1>2, <2>1, <2>2 DEF BitChange
    <2> HIDE DEF bits
    <2> QED
      BY <1>1, <2>3, BitStep
  <1>4. num \notin Members'[id]
    <2>1. data[a] \in [Units -> SUBSET (0 .. (UnitBits - 1))]
      BY <1>2 DEF IndInv, TypeOK, Units
    <2>2. b \notin data'[a][u] /\ chunks' = chunks
      BY <1>1, <1>2, <2>1
    <2> QED
      BY <1>2, <2>2 DEF Members, pa_bitmap_test
  <1>5. Members' = [Members EXCEPT ![id] = Members[id] \ {num}]
    BY <1>2, <1>3, <1>4, OneChange
  <1> QED
    BY <1>5, MembersFunction DEF BitSet!Remove

LEMMA AllocStep ==
    ASSUME IndInv, IndInv', pa_bitmap_alloc
    PROVE  BitSet!Create \/ UNCHANGED Members
  <1> DEFINE new == made + 1
             empty == [c \in 0 .. (ChunkSize - 1) |-> NullAtom]
  <1>1. CASE /\ made < MaxBlocks /\ chunks' = Extend(chunks, new, empty)
             /\ UNCHANGED data
    <2>1. new \notin DOMAIN chunks /\ new \in 1 .. MaxBlocks
      BY <1>1, NewBlock
    <2>2. /\ Ids' = Ids \cup {new} /\ chunks'[new] = empty
          /\ \A id \in Ids : chunks'[id] = chunks[id] /\ id # new
      BY <1>1, <2>1 DEF Extend, Ids
    <2> HIDE DEF new
    <2>3. Members'[new] = {}
      <3>1. ASSUME NEW n \in Numbers
            PROVE  chunks'[new][pa_bitmap_chunknum(n)] = NullAtom
        <4>1. pa_bitmap_chunknum(n) \in 0 .. (ChunkSize - 1)
          BY PlaceTypes, Sizes DEF Numbers
        <4> QED
          BY <2>2, <4>1
      <3> QED
        BY <2>2, <3>1 DEF Members, pa_bitmap_test, Numbers
    <2>4. \A id \in Ids : Members'[id] = Members[id]
      BY <1>1, <2>2 DEF Members, pa_bitmap_test
    <2>5. Members' = [id \in Ids \cup {new} |-> IF id = new THEN {} ELSE Members[id]]
      BY <2>2, <2>3, <2>4, MembersFunction
    <2>6. new \in (1 .. MaxBlocks) \ DOMAIN Members
      BY <2>1, MembersFunction DEF Ids
    <2> QED
      BY <2>5, <2>6, MembersFunction DEF BitSet!Create
  <1>2. CASE UNCHANGED <<chunks, data>>
    BY <1>2 DEF Members, Ids, pa_bitmap_test
  <1> QED
    BY <1>1, <1>2 DEF pa_bitmap_alloc

LEMMA BitSetStep ==
    ASSUME IndInv, IndInv', [Next]_bitmapVars
    PROVE  [BitSet!Create \/ BitSet!Add \/ BitSet!Remove]_Members
  <1>1. CASE UNCHANGED <<chunks, data>>
    BY <1>1 DEF Members, Ids, pa_bitmap_test
  <1>2. ASSUME NEW id \in Ids, NEW from, FindStart(id, from)
        PROVE  UNCHANGED <<chunks, data>>
    BY <1>2 DEF FindStart
  <1>3. CASE FindStep
    BY <1>1, <1>3 DEF FindStep, FindSkip, FindUnit, FindReturn
  <1>4. CASE UNCHANGED bitmapVars
    BY <1>1, <1>4 DEF bitmapVars
  <1> QED
    BY <1>1, <1>2, <1>3, <1>4, AllocStep, SetStep, ClearStep DEF Next

\* Seen as sets of numbers, the bitmaps do what they are asked: an operation
\* adds or removes one number of one bitmap, makes an empty one, or does nothing.
THEOREM ImplementsBitSet == Spec => BitSetSpec
  <1>1. Init => Members = <<>>
    BY DEF Init, Members, Ids
  <1>2. IndInv /\ IndInv' /\ [Next]_bitmapVars
           => [BitSet!Create \/ BitSet!Add \/ BitSet!Remove]_Members
    BY BitSetStep
  <1> QED
    BY <1>1, <1>2, Invariance, PTL DEF Spec, BitSetSpec, BitSet!Spec

-----------------------------------------------------------------------------
(* Searches *)

\* No number that callers set is in the last chunk.  (A search that leaves the
\* last unit of the last chunk would go on in the first: the masking of
\* pa_bitmap_chunknum is no noop there.)
LastChunkEmpty ==
    \A n \in SetNums : n < PA_BITMAP_MAX_BIT => pa_bitmap_chunknum(n) # ChunkSize - 1

\* Where no earlier search ended, a search starts at the first bit of a unit.
\* (The low bits to be discarded are forgotten only after a chunk that exists.)
StartsAtUnits == \A s \in Starts : pa_bitmap_bitnum(s + 1) = 0

\* The order of numbers, by their places.
AtOrAfter(n, c, u, b) ==
    \/ pa_bitmap_chunknum(n) > c
    \/ pa_bitmap_chunknum(n) = c /\ pa_bitmap_unitnum(n) > u
    \/ pa_bitmap_chunknum(n) = c /\ pa_bitmap_unitnum(n) = u /\ pa_bitmap_bitnum(n) >= b

\* A result, and with it the start of the next search, is in a chunk that exists.
SeenKept ==
    \A id \in Ids : seen[id] \in Nat =>
       seen[id] \in Numbers /\ chunks[id][pa_bitmap_chunknum(seen[id])] # NullAtom

\* The members still to be found are those at or after the place that the
\* search has reached, where low bits are discarded only in a chunk that exists.
SearchOnTrack ==
    find # NoFind =>
       /\ find.num \in Numbers
       /\ find.mask # 0 => chunks[find.id][pa_bitmap_chunknum(find.num)] # NullAtom
       /\ \A n \in Members[find.id] :
             n > find.from <=> AtOrAfter(n, pa_bitmap_chunknum(find.num),
                                         pa_bitmap_unitnum(find.num), find.mask)

LastChunkNull == \A id \in Ids : chunks[id][ChunkSize - 1] = NullAtom

SearchInv == IndInv /\ LastChunkNull /\ SeenKept /\ SearchOnTrack

\* Numbers written with two digits are ordered by the first, then by the second.
LEMMA TwoDigits ==
    ASSUME NEW B \in Nat \ {0}, NEW p \in Nat, NEW q \in Nat,
           NEW r \in 0 .. (B - 1), NEW s \in 0 .. (B - 1)
    PROVE  B * p + r >= B * q + s <=> (p > q \/ (p = q /\ r >= s))
  <1>1. B * p \in Nat /\ B * q \in Nat
    OBVIOUS
  <1>2. ASSUME p > q PROVE B * p >= B * q + B
    <2>1. B * (q + 1) <= B * p
      BY <1>2
    <2> QED
      BY <2>1
  <1>3. ASSUME q > p PROVE B * q >= B * p + B
    <2>1. B * (p + 1) <= B * q
      BY <1>3
    <2> QED
      BY <2>1
  <1>4. CASE p > q
    BY <1>1, <1>2, <1>4
  <1>5. CASE q > p
    BY <1>1, <1>3, <1>5
  <1>6. CASE p = q
    <2>1. B * p = B * q
      BY <1>6
    <2> QED
      BY <1>1, <1>6, <2>1
  <1> QED
    BY <1>4, <1>5, <1>6

\* The units of a bitmap are numbered through its chunks.
LEMMA UnitPlace ==
    ASSUME NEW n \in Numbers
    PROVE  n = UnitBits * (ChunkUnits * pa_bitmap_chunknum(n) + pa_bitmap_unitnum(n))
                 + pa_bitmap_bitnum(n)
  <1> DEFINE c == pa_bitmap_chunknum(n)
             u == pa_bitmap_unitnum(n)
  <1>1. n = ChunkBits * c + UnitBits * u + pa_bitmap_bitnum(n)
    BY Place
  <1>2. /\ c \in Nat /\ u \in Nat /\ pa_bitmap_bitnum(n) \in Nat
        /\ UnitBits \in Nat /\ ChunkUnits \in Nat /\ ChunkBits = ChunkUnits * UnitBits
    BY PlaceTypes, Sizes DEF Numbers
  <1> HIDE DEF c, u
  <1>3. UnitBits * (ChunkUnits * c + u) = ChunkUnits * UnitBits * c + UnitBits * u
    BY <1>2
  <1>4. ChunkUnits * UnitBits * c = ChunkBits * c
    BY <1>2
  <1> QED
    BY <1>1, <1>3, <1>4 DEF c, u

\* Numbers are ordered as their places are.
LEMMA PlaceOrder ==
    ASSUME NEW n \in Numbers, NEW m \in Numbers
    PROVE  n >= m <=> AtOrAfter(n, pa_bitmap_chunknum(m), pa_bitmap_unitnum(m),
                                pa_bitmap_bitnum(m))
  <1> DEFINE c == pa_bitmap_chunknum(n)
             u == pa_bitmap_unitnum(n)
             b == pa_bitmap_bitnum(n)
             d == pa_bitmap_chunknum(m)
             v == pa_bitmap_unitnum(m)
             e == pa_bitmap_bitnum(m)
             p == ChunkUnits * c + u
             q == ChunkUnits * d + v
  <1>1. /\ c \in Nat /\ d \in Nat /\ u \in 0 .. (ChunkUnits - 1)
        /\ v \in 0 .. (ChunkUnits - 1)
        /\ b \in 0 .. (UnitBits - 1) /\ e \in 0 .. (UnitBits - 1)
        /\ UnitBits \in Nat \ {0} /\ ChunkUnits \in Nat \ {0}
    BY PlaceTypes, Sizes DEF Numbers
  <1>2. n = UnitBits * p + b /\ m = UnitBits * q + e
    BY UnitPlace
  <1>3. AtOrAfter(n, d, v, e) <=> \/ c > d
                                  \/ c = d /\ u > v
                                  \/ c = d /\ u = v /\ b >= e
    BY DEF AtOrAfter
  <1> HIDE DEF c, u, b, d, v, e
  <1>4. /\ p >= q <=> (c > d \/ (c = d /\ u >= v))
        /\ q >= p <=> (d > c \/ (d = c /\ v >= u))
    BY <1>1, TwoDigits
  <1>5. p \in Nat /\ q \in Nat
    BY <1>1
  <1> HIDE DEF p, q
  <1>6. n >= m <=> (p > q \/ (p = q /\ b >= e))
    BY <1>1, <1>2, <1>5, TwoDigits
  <1>7. p > q <=> (c > d \/ (c = d /\ u > v))
    BY <1>1, <1>4, <1>5
  <1>8. p = q <=> c = d /\ u = v
    BY <1>1, <1>4, <1>5
  <1>9. n >= m <=> AtOrAfter(n, d, v, e)
    BY <1>3, <1>6, <1>7, <1>8
  <1> QED
    BY <1>9 DEF d, v, e

\* The number at a place.
LEMMA Compose ==
    ASSUME NEW c \in ChunkNums, NEW u \in Units, NEW b \in 0 .. (UnitBits - 1)
    PROVE  LET n == c * ChunkBits + u * UnitBits + b
           IN  /\ n \in Numbers
               /\ pa_bitmap_chunknum(n) = c
               /\ pa_bitmap_unitnum(n) = u
               /\ pa_bitmap_bitnum(n) = b
  <1> DEFINE n == c * ChunkBits + u * UnitBits + b
             r == UnitBits * u + b
             q == ChunkUnits * c + u
  <1>1. /\ UnitBits \in Nat \ {0} /\ ChunkUnits \in Nat \ {0}
        /\ ChunkSize \in Nat \ {0} /\ ChunkBits \in Nat \ {0}
        /\ ChunkBits = ChunkUnits * UnitBits
        /\ PA_BITMAP_MAX_BIT = ChunkBits * ChunkSize
        /\ c \in Nat /\ c < ChunkSize
        /\ u \in 0 .. (ChunkUnits - 1) /\ b \in 0 .. (UnitBits - 1)
    BY Sizes DEF ChunkNums, Units
  <1>2. ChunkBits * c \in Nat /\ UnitBits * u \in Nat /\ ChunkUnits * c \in Nat
    BY <1>1
  <1>3. n = ChunkBits * c + r
    BY <1>1, <1>2
  <1>4. r \in 0 .. (ChunkBits - 1)
    <2>1. UnitBits * (u + 1) <= UnitBits * ChunkUnits
      BY <1>1
    <2>2. UnitBits * (u + 1) = UnitBits * u + UnitBits
      BY <1>1
    <2>3. UnitBits * ChunkUnits = ChunkBits
      BY <1>1
    <2> QED
      BY <1>1, <1>2, <2>1, <2>2, <2>3
  <1>5. q \in Nat
    BY <1>1, <1>2
  <1>6. n = UnitBits * q + b
    <2>1. UnitBits * q = ChunkUnits * UnitBits * c + UnitBits * u
      BY <1>1
    <2>2. ChunkUnits * UnitBits * c = ChunkBits * c
      BY <1>1
    <2> QED
      BY <1>1, <1>2, <1>3, <2>1, <2>2
  <1>7. n \div UnitBits = q /\ n % UnitBits = b
    BY <1>1, <1>5, <1>6, DivisionUnique
  <1>8. q % ChunkUnits = u
    BY <1>1, DivisionUnique
  <1> HIDE DEF r, q
  <1>9. n \div ChunkBits = c
    BY <1>1, <1>3, <1>4, DivisionUnique
  <1>10. c % ChunkSize = c
    <2>1. (ChunkSize * 0 + c) % ChunkSize = c
      BY <1>1, DivisionUnique
    <2> QED
      BY <1>1, <2>1
  <1>11. n < PA_BITMAP_MAX_BIT
    <2>1. ChunkBits * (c + 1) <= ChunkBits * ChunkSize
      BY <1>1
    <2>2. ChunkBits * (c + 1) = ChunkBits * c + ChunkBits
      BY <1>1
    <2> QED
      BY <1>1, <1>2, <1>3, <1>4, <2>1, <2>2
  <1>12. n \in Numbers
    <2>1. n \in Nat
      BY <1>2, <1>3, <1>4, <1>1
    <2> HIDE DEF n
    <2> QED
      BY <1>11, <2>1, Sizes DEF Numbers
  <1> QED
    BY <1>7, <1>8, <1>9, <1>10, <1>12
    DEF pa_bitmap_chunknum, pa_bitmap_unitnum, pa_bitmap_bitnum

LEMMA MinUnique ==
    ASSUME NEW S \in SUBSET Int, NEW x \in S, \A y \in S : x <= y
    PROVE  Min(S) = x
  <1>1. Min(S) \in S /\ \A y \in S : Min(S) <= y
    BY DEF Min
  <1>2. Min(S) \in Int /\ x \in Int /\ Min(S) <= x /\ x <= Min(S)
    BY <1>1
  <1> QED
    BY <1>2

\* Where low bits are discarded, the number before is in the same chunk.
LEMMA SameChunk ==
    ASSUME NEW n \in Numbers, n + 1 \in Numbers, pa_bitmap_bitnum(n + 1) # 0
    PROVE  pa_bitmap_chunknum(n + 1) = pa_bitmap_chunknum(n)
  <1> DEFINE c == pa_bitmap_chunknum(n + 1)
             u == pa_bitmap_unitnum(n + 1)
             b == pa_bitmap_bitnum(n + 1)
  <1>1. c \in ChunkNums /\ u \in Units /\ b \in 1 .. (UnitBits - 1)
    BY PlaceTypes, Sizes DEF Numbers, ChunkNums, Units
  <1>2. n + 1 = ChunkBits * c + UnitBits * u + b
    BY Place
  <1>3. b - 1 \in 0 .. (UnitBits - 1) /\ n \in Nat
    BY <1>1, Sizes DEF Numbers
  <1> HIDE DEF c, u, b
  <1>4. c * ChunkBits \in Nat /\ u * UnitBits \in Nat
        /\ c * ChunkBits = ChunkBits * c /\ u * UnitBits = UnitBits * u
    BY <1>1, Sizes DEF ChunkNums, Units
  <1>5. n = c * ChunkBits + u * UnitBits + (b - 1)
    BY <1>1, <1>2, <1>3, <1>4
  <1>6. pa_bitmap_chunknum(n) = c
    BY <1>1, <1>3, <1>5, Compose
  <1> QED
    BY <1>6 DEF c

LEMMA MembersUnchanged == UNCHANGED <<chunks, data>> => UNCHANGED Members
  BY DEF Members, Ids, pa_bitmap_test

LEMMA MemberIsNumber ==
    ASSUME NEW id \in Ids, NEW n \in Members[id]
    PROVE  n \in Numbers
  BY Sizes DEF Members, Numbers

\* The call begins where the members still to be found begin.
LEMMA StartSearch ==
    ASSUME SearchInv, IndInv', NEW id \in Ids,
           NEW from \in Numbers \cup {PA_BITMAP_FIND_START}, FindStart(id, from),
           from \in Numbers /\ pa_bitmap_bitnum(from + 1) # 0
              => chunks[id][pa_bitmap_chunknum(from)] # NullAtom
    PROVE  SearchInv'
  <1> DEFINE num == from + 1
  <1>1. /\ num \in Nat /\ num <= PA_BITMAP_MAX_BIT
        /\ num = IF from = PA_BITMAP_FIND_START THEN 0 ELSE from + 1
    BY Sizes DEF PA_BITMAP_FIND_START, Numbers
  <1>2. /\ find = NoFind /\ UNCHANGED <<made, chunks, data>>
        /\ \/ /\ num = PA_BITMAP_MAX_BIT
              /\ seen' = [seen EXCEPT ![id] = PA_BITMAP_FIND_DONE] /\ find' = find
           \/ /\ num # PA_BITMAP_MAX_BIT
              /\ find' = [id |-> id, from |-> from, num |-> num,
                          mask |-> pa_bitmap_bitnum(num)]
              /\ seen' = seen
    BY <1>1 DEF FindStart
  <1>3. LastChunkNull'
    BY <1>2 DEF SearchInv, LastChunkNull, Ids
  <1>4. CASE find' = find /\ seen' = [seen EXCEPT ![id] = PA_BITMAP_FIND_DONE]
    <2>1. \A jd \in Ids : seen'[jd] \in {seen[jd], PA_BITMAP_FIND_DONE}
      BY <1>4 DEF SearchInv, IndInv, TypeOK
    <2>2. SeenKept'
      BY <1>2, <2>1 DEF SearchInv, SeenKept, Ids, PA_BITMAP_FIND_DONE
    <2> QED
      BY <1>2, <1>3, <1>4, <2>2 DEF SearchInv, SearchOnTrack
  <1>5. CASE /\ num # PA_BITMAP_MAX_BIT /\ seen' = seen
             /\ find' = [id |-> id, from |-> from, num |-> num,
                         mask |-> pa_bitmap_bitnum(num)]
    <2>1. num \in Numbers
      BY <1>1, <1>5, Sizes DEF Numbers
    <2>2. /\ find'.id = id /\ find'.from = from /\ find'.num = num
          /\ find'.mask = pa_bitmap_bitnum(num)
      BY <1>5
    <2>3. ASSUME pa_bitmap_bitnum(num) # 0
          PROVE  chunks[id][pa_bitmap_chunknum(num)] # NullAtom
      <3>1. from # PA_BITMAP_FIND_START
        <4>1. 0 % UnitBits = 0
          BY Sizes
        <4> QED
          BY <1>1, <2>3, <4>1 DEF pa_bitmap_bitnum
      <3>2. from \in Numbers
        BY <3>1
      <3> QED
        BY <2>1, <2>3, <3>2, SameChunk
    <2>4. ASSUME NEW n \in Members[id]
          PROVE  n > from <=> AtOrAfter(n, pa_bitmap_chunknum(num),
                                        pa_bitmap_unitnum(num), pa_bitmap_bitnum(num))
      <3>1. n \in Numbers
        BY MemberIsNumber
      <3>2. n > from <=> n >= num
        BY <3>1, Sizes DEF Numbers, PA_BITMAP_FIND_START
      <3> QED
        BY <2>1, <3>1, <3>2, PlaceOrder
    <2> HIDE DEF num
    <2>5. SeenKept' /\ chunks' = chunks /\ Members' = Members
      BY <1>2, <1>5, MembersUnchanged DEF SearchInv, SeenKept, Ids
    <2>6. SearchOnTrack'
      BY <2>1, <2>2, <2>3, <2>4, <2>5 DEF SearchOnTrack, AtOrAfter
    <2> QED
      BY <1>3, <2>5, <2>6 DEF SearchInv
  <1> QED
    BY <1>2, <1>4, <1>5

\* A search that returns a member, or none, keeps the invariant.
LEMMA ReturnSearch ==
    ASSUME SearchInv, IndInv', find # NoFind,
           NEW result \in Members[find.id] \cup {PA_BITMAP_FIND_DONE}, FindReturn(result)
    PROVE  SearchInv'
  <1>1. /\ find' = NoFind /\ seen' = [seen EXCEPT ![find.id] = result]
        /\ UNCHANGED <<made, chunks, data>>
    BY DEF FindReturn
  <1>2. find.id \in Ids
    BY DEF SearchInv, IndInv, TypeOK
  <1>3. result \in Nat => /\ result \in Numbers
                          /\ chunks[find.id][pa_bitmap_chunknum(result)] # NullAtom
    BY <1>2, MemberIff DEF PA_BITMAP_FIND_DONE, SearchInv
  <1>4. \A id \in Ids : seen'[id] = IF id = find.id THEN result ELSE seen[id]
    BY <1>1 DEF SearchInv, IndInv, TypeOK
  <1>5. SeenKept'
    BY <1>1, <1>3, <1>4 DEF SearchInv, SeenKept, Ids
  <1>6. LastChunkNull' /\ SearchOnTrack'
    BY <1>1 DEF SearchInv, LastChunkNull, SearchOnTrack, Ids
  <1> QED
    BY <1>5, <1>6 DEF SearchInv

\* So does one that goes on to the first bit of a unit before which there is
\* nothing left to be found.
LEMMA MoveSearch ==
    ASSUME SearchInv, IndInv', find # NoFind, NEW c \in ChunkNums, NEW u \in Units,
           find' = [find EXCEPT !.num = c * ChunkBits + u * UnitBits, !.mask = 0],
           UNCHANGED <<made, chunks, data, seen>>,
           \A n \in Members[find.id] :
              AtOrAfter(n, pa_bitmap_chunknum(find.num), pa_bitmap_unitnum(find.num),
                        find.mask)
                 <=> AtOrAfter(n, c, u, 0)
    PROVE  SearchInv'
  <1> DEFINE num == c * ChunkBits + u * UnitBits
  <1>1. num \in Numbers /\ pa_bitmap_chunknum(num) = c /\ pa_bitmap_unitnum(num) = u
    <2>1. num = num + 0 /\ 0 \in 0 .. (UnitBits - 1)
      BY Sizes DEF ChunkNums, Units
    <2> QED
      BY <2>1, Compose
  <1>2. find \in [id : Ids, from : Int, num : Nat, mask : Nat]
    BY DEF SearchInv, IndInv, SearchTyped
  <1> HIDE DEF num
  <1>3. find'.id = find.id /\ find'.from = find.from /\ find'.num = num /\ find'.mask = 0
    BY <1>2 DEF num
  <1>4. /\ Members' = Members /\ chunks' = chunks
        /\ LastChunkNull' /\ SeenKept'
    BY MembersUnchanged DEF SearchInv, LastChunkNull, SeenKept, Ids
  <1>5. \A n \in Members[find.id] : n > find.from <=> AtOrAfter(n, c, u, 0)
    BY DEF SearchInv, SearchOnTrack
  <1>6. SearchOnTrack'
    BY <1>1, <1>3, <1>4, <1>5 DEF SearchOnTrack, AtOrAfter
  <1> QED
    BY <1>4, <1>6 DEF SearchInv

\* Chunks stay, and none is made at the end of a bitmap.
LEMMA SetSearch ==
    ASSUME LastChunkEmpty, SearchInv, IndInv', NEW id \in Ids, NEW num \in SetNums,
           pa_bitmap_set(id, num)
    PROVE  SearchInv'
  <1>1. find = NoFind /\ find' = NoFind /\ seen' = seen
    BY DEF pa_bitmap_set
  <1>2. CASE chunks' = chunks
    BY <1>1, <1>2 DEF SearchInv, SearchOnTrack, LastChunkNull, SeenKept, Ids
  <1>3. CASE /\ num \in Numbers /\ chunks[id][pa_bitmap_chunknum(num)] = NullAtom
             /\ made < MaxBlocks
             /\ chunks' = [chunks EXCEPT ![id][pa_bitmap_chunknum(num)] = made + 1]
    <2> DEFINE c == pa_bitmap_chunknum(num)
               new == made + 1
    <2>1. c \in ChunkNums /\ c # ChunkSize - 1
      BY <1>3, PlaceTypes, Sizes DEF LastChunkEmpty, Numbers, ChunkNums
    <2>2. new # NullAtom
      BY <1>3, NewBlock DEF SearchInv, NullAtom
    <2> HIDE DEF new, c
    <2>3. \A jd \in Ids : chunks[jd] \in [ChunkNums -> 0 .. made]
      BY DEF SearchInv, IndInv, TypeOK, ChunkNums
    <2>4. Ids' = Ids /\ \A jd \in Ids, d \in ChunkNums :
             chunks'[jd][d] = IF jd = id /\ d = c THEN new ELSE chunks[jd][d]
      BY <1>3, <2>3 DEF Ids, c, new
    <2>5. ChunkSize - 1 \in ChunkNums
      BY Sizes DEF ChunkNums
    <2>6. LastChunkNull'
      BY <2>1, <2>4, <2>5 DEF SearchInv, LastChunkNull
    <2>7. SeenKept'
      <3> SUFFICES ASSUME NEW jd \in Ids, seen[jd] \in Nat
                   PROVE  /\ seen[jd] \in Numbers
                          /\ chunks'[jd][pa_bitmap_chunknum(seen[jd])] # NullAtom
        BY <1>1, <2>4 DEF SeenKept
      <3>1. /\ seen[jd] \in Numbers
            /\ chunks[jd][pa_bitmap_chunknum(seen[jd])] # NullAtom
        BY DEF SearchInv, SeenKept
      <3>2. pa_bitmap_chunknum(seen[jd]) \in ChunkNums
        BY PlaceTypes DEF ChunkNums
      <3> QED
        BY <2>2, <2>4, <3>1, <3>2
    <2> QED
      BY <1>1, <2>6, <2>7 DEF SearchInv, SearchOnTrack
  <1> QED
    BY <1>2, <1>3, SetOutcomes DEF SearchInv

LEMMA ClearSearch ==
    ASSUME SearchInv, IndInv', NEW id \in Ids, NEW num \in SetNums, pa_bitmap_clear(id, num)
    PROVE  SearchInv'
  BY DEF pa_bitmap_clear, SearchInv, SearchOnTrack, LastChunkNull, SeenKept, Ids

LEMMA AllocSearch == ASSUME SearchInv, IndInv', pa_bitmap_alloc PROVE SearchInv'
  <1> DEFINE new == made + 1
             empty == [c \in 0 .. (ChunkSize - 1) |-> NullAtom]
  <1>1. find = NoFind /\ find' = NoFind
    BY DEF pa_bitmap_alloc
  <1>2. CASE UNCHANGED <<chunks, seen>>
    BY <1>1, <1>2 DEF SearchInv, SearchOnTrack, LastChunkNull, SeenKept, Ids
  <1>3. CASE /\ made < MaxBlocks /\ chunks' = Extend(chunks, new, empty)
             /\ seen' = Extend(seen, new, PA_BITMAP_FIND_START)
    <2>1. new \notin DOMAIN chunks
      BY <1>3, NewBlock DEF SearchInv
    <2> HIDE DEF new
    <2>2. /\ Ids' = Ids \cup {new} /\ chunks'[new] = empty
          /\ seen'[new] = PA_BITMAP_FIND_START
          /\ \A id \in Ids : chunks'[id] = chunks[id] /\ seen'[id] = seen[id]
      BY <1>3, <2>1 DEF Extend, Ids, SearchInv, IndInv, TypeOK
    <2>3. empty[ChunkSize - 1] = NullAtom
      BY Sizes
    <2>4. LastChunkNull'
      BY <2>2, <2>3 DEF SearchInv, LastChunkNull
    <2>5. SeenKept'
      BY <2>2 DEF SearchInv, SeenKept, PA_BITMAP_FIND_START
    <2> QED
      BY <1>1, <2>4, <2>5 DEF SearchInv, SearchOnTrack
  <1> QED
    BY <1>2, <1>3 DEF pa_bitmap_alloc

\* What a search still has to look at, from where it is.
Above == {n \in Members[find.id] : n > find.from}

Answer == IF Above = {} THEN PA_BITMAP_FIND_DONE ELSE Min(Above)

LEMMA SearchPlace ==
    ASSUME SearchInv, find # NoFind
    PROVE  /\ find \in [id : Ids, from : Int, num : Nat, mask : Nat]
           /\ find.id \in Ids /\ find.num \in Numbers /\ find.mask \in Nat
           /\ pa_bitmap_chunknum(find.num) \in ChunkNums
           /\ pa_bitmap_unitnum(find.num) \in Units
           /\ \A n \in Members[find.id] :
                 /\ n \in Numbers /\ n \in Int
                 /\ pa_bitmap_chunknum(n) \in ChunkNums
                 /\ pa_bitmap_unitnum(n) \in Units
                 /\ pa_bitmap_bitnum(n) \in 0 .. (UnitBits - 1)
                 /\ chunks[find.id][pa_bitmap_chunknum(n)] # NullAtom
                 /\ pa_bitmap_bitnum(n) \in
                       data[chunks[find.id][pa_bitmap_chunknum(n)]][pa_bitmap_unitnum(n)]
                 /\ n > find.from <=> AtOrAfter(n, pa_bitmap_chunknum(find.num),
                                                pa_bitmap_unitnum(find.num), find.mask)
  <1>1. find \in [id : Ids, from : Int, num : Nat, mask : Nat]
    BY DEF SearchInv, IndInv, SearchTyped
  <1>2. find.id \in Ids /\ find.num \in Numbers /\ find.mask \in Nat
    BY <1>1 DEF SearchInv, SearchOnTrack
  <1>3. \A n \in Numbers : /\ pa_bitmap_chunknum(n) \in ChunkNums
                           /\ pa_bitmap_unitnum(n) \in Units
                           /\ pa_bitmap_bitnum(n) \in 0 .. (UnitBits - 1)
                           /\ n \in Int
    BY PlaceTypes, Sizes DEF Numbers, ChunkNums, Units
  <1>4. ASSUME NEW n \in Members[find.id]
        PROVE  /\ n \in Numbers
               /\ chunks[find.id][pa_bitmap_chunknum(n)] # NullAtom
               /\ pa_bitmap_bitnum(n) \in
                     data[chunks[find.id][pa_bitmap_chunknum(n)]][pa_bitmap_unitnum(n)]
    BY <1>2, MemberIff DEF SearchInv
  <1> QED
    BY <1>1, <1>2, <1>3, <1>4 DEF SearchInv, SearchOnTrack

LEMMA SkipSearch ==
    ASSUME SearchInv, IndInv', FindSkip
    PROVE  SearchInv' /\ (find' = NoFind => seen'[find.id] = Answer)
  <1> DEFINE cur == pa_bitmap_chunknum(find.num)
             later == {c \in (cur + 1) .. (ChunkSize - 1) : chunks[find.id][c] # NullAtom}
             m == Min(later)
  <1>1. /\ find # NoFind /\ chunks[find.id][cur] = NullAtom
        /\ IF later = {}
           THEN FindReturn(PA_BITMAP_FIND_DONE)
           ELSE /\ find' = [find EXCEPT !.num = m * ChunkBits]
                /\ UNCHANGED <<made, chunks, data, seen>>
    BY DEF FindSkip
  <1>2. find.mask = 0
    BY <1>1 DEF SearchInv, SearchOnTrack
  <1>3. cur \in ChunkNums /\ find.id \in Ids /\ find.num \in Numbers
    BY <1>1, SearchPlace
  <1>4. ASSUME NEW n \in Members[find.id]
        PROVE  /\ n > find.from <=> pa_bitmap_chunknum(n) > cur
               /\ pa_bitmap_chunknum(n) > cur <=> pa_bitmap_chunknum(n) \in later
               /\ n > find.from <=> AtOrAfter(n, cur, pa_bitmap_unitnum(find.num), find.mask)
    <2>1. /\ pa_bitmap_chunknum(n) \in ChunkNums
          /\ chunks[find.id][pa_bitmap_chunknum(n)] # NullAtom
          /\ n > find.from <=> AtOrAfter(n, cur, pa_bitmap_unitnum(find.num), find.mask)
      BY <1>1, SearchPlace
    <2>2. pa_bitmap_chunknum(n) # cur
      BY <1>1, <2>1
    <2> HIDE DEF cur
    <2>3. n > find.from <=> pa_bitmap_chunknum(n) > cur
      BY <2>1, <2>2 DEF AtOrAfter
    <2> QED
      BY <1>3, <2>1, <2>3, Sizes DEF ChunkNums
  <1>5. CASE later = {}
    <2>1. FindReturn(PA_BITMAP_FIND_DONE)
      BY <1>1, <1>5
    <2>2. Above = {}
      BY <1>4, <1>5 DEF Above
    <2>3. seen'[find.id] = PA_BITMAP_FIND_DONE
      BY <1>3, <2>1 DEF FindReturn, SearchInv, IndInv, TypeOK
    <2> QED
      BY <1>1, <2>1, <2>2, <2>3, ReturnSearch DEF Answer
  <1>6. CASE later # {}
    <2>1. later \in SUBSET Nat /\ later \subseteq ChunkNums
      BY <1>3, Sizes DEF ChunkNums
    <2>2. m \in later /\ \A x \in later : m <= x
      BY <1>6, <2>1, MinIsLeast
    <2>3. m \in ChunkNums /\ m > cur /\ 0 \in Units /\ m \in Nat /\ cur \in Nat
      BY <1>3, <2>1, <2>2, Sizes DEF ChunkNums, Units
    <2>4. m * ChunkBits = m * ChunkBits + 0 * UnitBits
      BY <2>3, Sizes
    <2>5. /\ find' = [find EXCEPT !.num = m * ChunkBits]
          /\ UNCHANGED <<made, chunks, data, seen>>
      BY <1>1, <1>6
    <2>6. find \in [id : Ids, from : Int, num : Nat, mask : Nat]
      BY <1>1, SearchPlace
    <2> HIDE DEF m, later, cur
    <2>7. find' = [find EXCEPT !.num = m * ChunkBits + 0 * UnitBits, !.mask = 0]
      BY <1>2, <2>4, <2>5, <2>6
    <2>8. ASSUME NEW n \in Members[find.id]
          PROVE  AtOrAfter(n, cur, pa_bitmap_unitnum(find.num), find.mask)
                    <=> AtOrAfter(n, m, 0, 0)
      <3>1. /\ pa_bitmap_chunknum(n) \in Nat /\ pa_bitmap_unitnum(n) \in Nat
            /\ pa_bitmap_bitnum(n) \in Nat
        BY <1>1, SearchPlace, Sizes DEF ChunkNums, Units
      <3>2. AtOrAfter(n, m, 0, 0) <=> pa_bitmap_chunknum(n) >= m
        BY <2>3, <3>1 DEF AtOrAfter
      <3>3. pa_bitmap_chunknum(n) > cur => pa_bitmap_chunknum(n) >= m
        BY <1>4, <2>2, <2>3, <3>1
      <3>4. pa_bitmap_chunknum(n) >= m => pa_bitmap_chunknum(n) > cur
        BY <2>3, <3>1
      <3> QED
        BY <1>4, <3>2, <3>3, <3>4
    <2>9. SearchInv'
      BY <1>1, <2>3, <2>5, <2>7, <2>8, MoveSearch DEF cur
    <2>10. find' # NoFind
      <3> DEFINE k == m * ChunkBits
      <3>1. k \in Nat /\ 0 \in Nat
        BY <2>3, Sizes
      <3>2. find' = [find EXCEPT !.num = k, !.mask = 0]
        BY <2>4, <2>7
      <3> HIDE DEF k
      <3> QED
        BY <1>1, <2>5, <3>1, <3>2, MoveInd DEF SearchInv
    <2> QED
      BY <2>9, <2>10
  <1> QED
    BY <1>5, <1>6

\* A search goes on within a bitmap, and is still the same one.
LEMMA StillSearching ==
    ASSUME SearchInv, find # NoFind, NEW c \in ChunkNums, NEW u \in Units,
           find' = [find EXCEPT !.num = c * ChunkBits + u * UnitBits, !.mask = 0],
           UNCHANGED <<made, chunks, data, seen>>
    PROVE  find' # NoFind
  <1> DEFINE k == c * ChunkBits + u * UnitBits
  <1>1. k \in Nat /\ 0 \in Nat
    <2>1. c * ChunkBits \in Nat /\ u * UnitBits \in Nat
      BY Sizes DEF ChunkNums, Units
    <2> QED
      BY <2>1
  <1>2. find' = [find EXCEPT !.num = k, !.mask = 0]
    OBVIOUS
  <1> HIDE DEF k
  <1> QED
    BY <1>1, <1>2, MoveInd DEF SearchInv

LEMMA UnitSearch ==
    ASSUME SearchInv, IndInv', FindUnit
    PROVE  SearchInv' /\ (find' = NoFind => seen'[find.id] = Answer)
  <1> DEFINE cur == pa_bitmap_chunknum(find.num)
             unit == pa_bitmap_unitnum(find.num)
             units == data[chunks[find.id][cur]]
             value == {b \in units[unit] : b >= find.mask}
             later == {u \in (unit + 1) .. (ChunkUnits - 1) : units[u] # {}}
             next == IF later = {} THEN (cur + 1) * ChunkBits
                     ELSE cur * ChunkBits + Min(later) * UnitBits
             hit == cur * ChunkBits + unit * UnitBits + Min(value)
  <1>1. /\ find # NoFind /\ chunks[find.id][cur] # NullAtom
        /\ IF value # {}
           THEN FindReturn(hit)
           ELSE /\ find' = [find EXCEPT !.num = next, !.mask = 0]
                /\ UNCHANGED <<made, chunks, data, seen>>
    BY DEF FindUnit
  <1>2. /\ cur \in ChunkNums /\ unit \in Units /\ find.id \in Ids
        /\ find.num \in Numbers /\ find.mask \in Nat
    BY <1>1, SearchPlace
  <1>3. units \in [Units -> SUBSET (0 .. (UnitBits - 1))]
    <2>1. units \in [0 .. (ChunkUnits - 1) -> SUBSET (0 .. (UnitBits - 1))]
      BY <1>1, <1>2 DEF SearchInv, IndInv, OwnPlaces, TypeOK
    <2> QED
      BY <2>1 DEF Units
  <1>4. /\ cur \in Nat /\ unit \in Nat /\ cur < ChunkSize /\ ChunkSize \in Nat
        /\ ChunkUnits \in Nat /\ 0 \in Units
        /\ Units = 0 .. (ChunkUnits - 1)
    BY <1>2, Sizes DEF ChunkNums, Units
  <1>5. ASSUME NEW n \in Members[find.id]
        PROVE  /\ n \in Numbers /\ n \in Int
               /\ pa_bitmap_chunknum(n) \in Nat /\ pa_bitmap_unitnum(n) \in Units
               /\ pa_bitmap_unitnum(n) \in Nat /\ pa_bitmap_bitnum(n) \in Nat
               /\ n > find.from <=> AtOrAfter(n, cur, unit, find.mask)
               /\ pa_bitmap_chunknum(n) = cur
                     => pa_bitmap_bitnum(n) \in units[pa_bitmap_unitnum(n)]
    <2>1. /\ n \in Numbers /\ n \in Int
          /\ pa_bitmap_chunknum(n) \in ChunkNums /\ pa_bitmap_unitnum(n) \in Units
          /\ pa_bitmap_bitnum(n) \in 0 .. (UnitBits - 1)
          /\ pa_bitmap_bitnum(n) \in
                data[chunks[find.id][pa_bitmap_chunknum(n)]][pa_bitmap_unitnum(n)]
          /\ n > find.from <=> AtOrAfter(n, cur, unit, find.mask)
      BY <1>1, SearchPlace
    <2>2. /\ pa_bitmap_chunknum(n) \in Nat /\ pa_bitmap_unitnum(n) \in Nat
          /\ pa_bitmap_bitnum(n) \in Nat
      BY <2>1, Sizes DEF ChunkNums, Units
    <2> QED
      BY <2>1, <2>2
  <1> HIDE DEF cur, unit, units
  <1>6. CASE value # {}
    <2> DEFINE least == Min(value)
    <2>1. value \in SUBSET Nat /\ value \subseteq 0 .. (UnitBits - 1)
      BY <1>2, <1>3, Sizes
    <2>2. least \in value /\ \A b \in value : least <= b
      BY <1>6, <2>1, MinIsLeast
    <2>3. /\ least \in 0 .. (UnitBits - 1) /\ least \in units[unit]
          /\ least >= find.mask /\ least \in Nat
      BY <2>1, <2>2
    <2> HIDE DEF least
    <2>4. /\ hit \in Numbers /\ pa_bitmap_chunknum(hit) = cur
          /\ pa_bitmap_unitnum(hit) = unit /\ pa_bitmap_bitnum(hit) = least
      BY <1>2, <2>3, Compose DEF least
    <2>5. FindReturn(hit)
      BY <1>1, <1>6
    <2> HIDE DEF hit, value
    <2>6. hit \in Members[find.id]
      BY <1>1, <1>2, <2>3, <2>4, MemberIff DEF units, SearchInv
    <2>7. hit \in Above
      BY <1>5, <2>3, <2>4, <2>6 DEF Above, AtOrAfter
    <2>8. ASSUME NEW y \in Above
          PROVE  hit <= y
      <3>1. y \in Members[find.id] /\ y > find.from
        BY DEF Above
      <3>2. /\ y \in Numbers /\ AtOrAfter(y, cur, unit, find.mask)
            /\ pa_bitmap_bitnum(y) \in Nat
            /\ pa_bitmap_chunknum(y) = cur
                  => pa_bitmap_bitnum(y) \in units[pa_bitmap_unitnum(y)]
        BY <1>5, <3>1
      <3>3. pa_bitmap_chunknum(y) = cur /\ pa_bitmap_unitnum(y) = unit
               /\ pa_bitmap_bitnum(y) >= find.mask
            => least <= pa_bitmap_bitnum(y)
        BY <2>2, <3>2 DEF value
      <3>4. AtOrAfter(y, cur, unit, least)
        BY <2>3, <3>2, <3>3 DEF AtOrAfter
      <3>5. y >= hit
        BY <2>4, <3>2, <3>4, PlaceOrder
      <3> QED
        BY <2>4, <3>2, <3>5, Sizes DEF Numbers
    <2>9. Above \subseteq Int
      BY <1>5 DEF Above
    <2>10. Answer = hit
      BY <2>7, <2>8, <2>9, MinUnique DEF Answer
    <2>11. seen'[find.id] = hit
      BY <1>2, <2>5 DEF FindReturn, SearchInv, IndInv, TypeOK
    <2>12. SearchInv'
      BY <1>1, <2>5, <2>6, ReturnSearch
    <2> QED
      BY <2>10, <2>11, <2>12
  <1>7. CASE value = {} /\ later = {}
    <2> DEFINE c == cur + 1
    <2>1. chunks[find.id][ChunkSize - 1] = NullAtom
      BY <1>2 DEF SearchInv, LastChunkNull
    <2>2. c \in ChunkNums
      BY <1>1, <1>2, <1>4, <2>1 DEF ChunkNums
    <2>3. c * ChunkBits = c * ChunkBits + 0 * UnitBits
      BY <1>4, Sizes
    <2>4. /\ find' = [find EXCEPT !.num = c * ChunkBits + 0 * UnitBits, !.mask = 0]
          /\ UNCHANGED <<made, chunks, data, seen>>
      BY <1>1, <1>7, <2>3
    <2>5. ASSUME NEW n \in Members[find.id]
          PROVE  AtOrAfter(n, cur, unit, find.mask) <=> AtOrAfter(n, c, 0, 0)
      <3>1. AtOrAfter(n, c, 0, 0) <=> pa_bitmap_chunknum(n) > cur
        BY <1>4, <1>5 DEF AtOrAfter
      <3>2. ~(pa_bitmap_chunknum(n) = cur /\ pa_bitmap_unitnum(n) = unit
                 /\ pa_bitmap_bitnum(n) >= find.mask)
        BY <1>5, <1>7
      <3>3. ~(pa_bitmap_chunknum(n) = cur /\ pa_bitmap_unitnum(n) > unit)
        BY <1>4, <1>5, <1>7
      <3> QED
        BY <3>1, <3>2, <3>3 DEF AtOrAfter
    <2> HIDE DEF c
    <2>6. find' # NoFind
      BY <1>1, <1>4, <2>2, <2>4, StillSearching
    <2>7. SearchInv'
      BY <1>1, <1>4, <2>2, <2>4, <2>5, MoveSearch DEF cur, unit
    <2> QED
      BY <2>6, <2>7
  <1>8. CASE value = {} /\ later # {}
    <2> DEFINE m == Min(later)
    <2>1. later \in SUBSET Nat
      BY <1>4
    <2>2. m \in later /\ \A x \in later : m <= x
      BY <1>8, <2>1, MinIsLeast
    <2>3. m \in Units /\ m > unit /\ m \in Nat
      BY <1>4, <2>1, <2>2
    <2>4. /\ find' = [find EXCEPT !.num = cur * ChunkBits + m * UnitBits, !.mask = 0]
          /\ UNCHANGED <<made, chunks, data, seen>>
      BY <1>1, <1>8
    <2> HIDE DEF m
    <2>5. ASSUME NEW n \in Members[find.id]
          PROVE  AtOrAfter(n, cur, unit, find.mask) <=> AtOrAfter(n, cur, m, 0)
      <3>1. ~(pa_bitmap_chunknum(n) = cur /\ pa_bitmap_unitnum(n) = unit
                 /\ pa_bitmap_bitnum(n) >= find.mask)
        BY <1>5, <1>8
      <3>2. pa_bitmap_chunknum(n) = cur /\ pa_bitmap_unitnum(n) > unit
               => pa_bitmap_unitnum(n) \in later
        BY <1>4, <1>5
      <3>3. pa_bitmap_chunknum(n) = cur /\ pa_bitmap_unitnum(n) > unit
               => m <= pa_bitmap_unitnum(n)
        BY <2>2, <3>2
      <3>4. AtOrAfter(n, cur, m, 0)
               <=> \/ pa_bitmap_chunknum(n) > cur
                   \/ pa_bitmap_chunknum(n) = cur /\ pa_bitmap_unitnum(n) >= m
        BY <1>5, <2>3 DEF AtOrAfter
      <3>5. pa_bitmap_unitnum(n) >= m => pa_bitmap_unitnum(n) > unit
        BY <1>4, <1>5, <2>3
      <3> QED
        BY <1>5, <2>3, <3>1, <3>3, <3>4, <3>5 DEF AtOrAfter
    <2>6. find' # NoFind
      BY <1>1, <1>2, <2>3, <2>4, StillSearching
    <2>7. SearchInv'
      BY <1>1, <1>2, <2>3, <2>4, <2>5, MoveSearch DEF cur, unit
    <2> QED
      BY <2>6, <2>7
  <1> QED
    BY <1>6, <1>7, <1>8

LEMMA SearchNext ==
    ASSUME LastChunkEmpty, StartsAtUnits, SearchInv, [Next]_bitmapVars
    PROVE  /\ SearchInv'
           /\ (find # NoFind /\ find' = NoFind) => seen'[find.id] = Answer
  <1>1. IndInv'
    BY NextInd DEF SearchInv
  <1>2. CASE FindStep
    BY <1>1, <1>2, SkipSearch, UnitSearch DEF FindStep
  <1>3. CASE UNCHANGED bitmapVars
    <2>1. UNCHANGED Members
      BY <1>3, MembersUnchanged DEF bitmapVars
    <2> QED
      BY <1>1, <1>3, <2>1
      DEF bitmapVars, SearchInv, SearchOnTrack, LastChunkNull, SeenKept, Ids
  <1>4. ASSUME NEW id \in Ids, seen[id] # PA_BITMAP_FIND_DONE, FindStart(id, seen[id])
        PROVE  SearchInv'
    <2>1. seen[id] \in Nat \cup {PA_BITMAP_FIND_START}
      BY <1>4 DEF SearchInv, IndInv, SearchTyped
    <2>2. seen[id] \in Numbers \cup {PA_BITMAP_FIND_START}
      BY <2>1 DEF SearchInv, SeenKept
    <2>3. seen[id] \in Numbers => chunks[id][pa_bitmap_chunknum(seen[id])] # NullAtom
      BY Sizes DEF SearchInv, SeenKept, Numbers
    <2> QED
      BY <1>1, <1>4, <2>2, <2>3, StartSearch
  <1>5. ASSUME NEW id \in Ids, FindStart(id, PA_BITMAP_FIND_START)
        PROVE  SearchInv'
    <2>1. PA_BITMAP_FIND_START \notin Numbers
      BY Sizes DEF PA_BITMAP_FIND_START, Numbers
    <2> QED
      BY <1>1, <1>5, <2>1, StartSearch
  <1>6. ASSUME NEW id \in Ids, NEW from \in Starts, FindStart(id, from)
        PROVE  SearchInv'
    <2>1. from \in Numbers /\ pa_bitmap_bitnum(from + 1) = 0
      BY Sizes DEF StartsAtUnits
    <2> QED
      BY <1>1, <1>6, <2>1, StartSearch
  <1>7. ~FindStep => (find = NoFind \/ find' = find)
    BY DEF Next, pa_bitmap_alloc, pa_bitmap_set, pa_bitmap_clear, FindStart, bitmapVars
  <1>8. SearchInv'
    BY <1>1, <1>2, <1>3, <1>4, <1>5, <1>6, AllocSearch, SetSearch, ClearSearch DEF Next
  <1> QED
    BY <1>2, <1>7, <1>8

\* A search of pa_bitmap_find_next returns the least member above the number it
\* was asked to start after, and DONE if there is none, as long as nothing is
\* in the last chunk and searches start at the end of a unit or where an
\* earlier one ended: beyond these the code is wrong.
THEOREM SearchesAnswer ==
    ASSUME LastChunkEmpty, StartsAtUnits
    PROVE  Spec => FindsNext
  <1>1. Init => SearchInv
    BY InitInd DEF Init, SearchInv, LastChunkNull, SeenKept, SearchOnTrack, Ids
  <1>2. SearchInv /\ [Next]_bitmapVars => SearchInv'
    BY SearchNext
  <1>3. SearchInv /\ [Next]_bitmapVars =>
           [(find # NoFind /\ find' = NoFind) =>
              LET above == {n \in Members[find.id] : n > find.from}
              IN  seen'[find.id] = IF above = {} THEN PA_BITMAP_FIND_DONE ELSE Min(above)
           ]_bitmapVars
    BY SearchNext DEF Answer, Above
  <1> QED
    BY <1>1, <1>2, <1>3, PTL DEF Spec, FindsNext
=============================================================================
