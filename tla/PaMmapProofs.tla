--------------------------- MODULE PaMmapProofs ---------------------------
(***************************************************************************)
(* Proofs about PaMmap for every segment length, growth quantum, request   *)
(* size and limit.                                                         *)
(***************************************************************************)
EXTENDS PaMmap, SequenceTheorems, TLAPS

-----------------------------------------------------------------------------
(* The chain as a sequence *)

\* Unlinking element i closes the gap and keeps the order.
LEMMA RemoveAtElements ==
    ASSUME NEW S, NEW s \in Seq(S), NEW i \in 1 .. Len(s)
    PROVE  /\ RemoveAt(s, i) \in Seq(S)
           /\ Len(RemoveAt(s, i)) = Len(s) - 1
           /\ \A j \in 1 .. (Len(s) - 1) :
                 RemoveAt(s, i)[j] = IF j < i THEN s[j] ELSE s[j + 1]
  <1> DEFINE a == SubSeq(s, 1, i - 1)
             b == SubSeq(s, i + 1, Len(s))
  <1>1. /\ a \in Seq(S) /\ Len(a) = i - 1
        /\ \A j \in 1 .. (i - 1) : a[j] = s[j]
    OBVIOUS
  <1>2. /\ b \in Seq(S) /\ Len(b) = Len(s) - i
        /\ \A j \in 1 .. (Len(s) - i) : b[j] = s[j + i]
    OBVIOUS
  <1>3. RemoveAt(s, i) = a \o b
    BY DEF RemoveAt
  <1> HIDE DEF a, b
  <1>4. /\ a \o b \in Seq(S)
        /\ Len(a \o b) = Len(s) - 1
        /\ \A j \in 1 .. (Len(s) - 1) :
              (a \o b)[j] = IF j <= Len(a) THEN a[j] ELSE b[j - Len(a)]
    <2>1. a \in Seq(S) /\ b \in Seq(S) /\ Len(a) + Len(b) = Len(s) - 1
      BY <1>1, <1>2
    <2> QED
      BY <2>1, ConcatProperties
  <1>5. ASSUME NEW j \in 1 .. (Len(s) - 1)
        PROVE  (a \o b)[j] = IF j < i THEN s[j] ELSE s[j + 1]
    BY <1>1, <1>2, <1>4
  <1> QED
    BY <1>3, <1>4, <1>5

\* Linking e in before element k moves the later ones up by one.
LEMMA InsertAtElements ==
    ASSUME NEW S, NEW s \in Seq(S), NEW k \in 1 .. (Len(s) + 1), NEW e \in S
    PROVE  /\ InsertAt(s, k, e) \in Seq(S)
           /\ Len(InsertAt(s, k, e)) = Len(s) + 1
           /\ \A j \in 1 .. (Len(s) + 1) :
                 InsertAt(s, k, e)[j] = IF j < k THEN s[j]
                                        ELSE IF j = k THEN e ELSE s[j - 1]
  <1> DEFINE a == SubSeq(s, 1, k - 1)
             b == SubSeq(s, k, Len(s))
             c == a \o <<e>>
  <1>1. /\ a \in Seq(S) /\ Len(a) = k - 1
        /\ \A j \in 1 .. (k - 1) : a[j] = s[j]
    OBVIOUS
  <1>2. /\ b \in Seq(S) /\ Len(b) = Len(s) - k + 1
        /\ \A j \in 1 .. (Len(s) - k + 1) : b[j] = s[j + k - 1]
    OBVIOUS
  <1>3. InsertAt(s, k, e) = c \o b
    BY DEF InsertAt
  <1> HIDE DEF a, b
  <1>4. /\ c \in Seq(S) /\ Len(c) = k
        /\ \A j \in 1 .. k : c[j] = IF j < k THEN a[j] ELSE e
    BY <1>1
  <1> HIDE DEF c
  <1>5. /\ c \o b \in Seq(S)
        /\ Len(c \o b) = Len(s) + 1
        /\ \A j \in 1 .. (Len(s) + 1) :
              (c \o b)[j] = IF j <= Len(c) THEN c[j] ELSE b[j - Len(c)]
    BY <1>2, <1>4, ConcatProperties
  <1>6. ASSUME NEW j \in 1 .. (Len(s) + 1)
        PROVE  (c \o b)[j] = IF j < k THEN s[j]
                             ELSE IF j = k THEN e ELSE s[j - 1]
    BY <1>1, <1>2, <1>4, <1>5
  <1> QED
    BY <1>3, <1>5, <1>6

-----------------------------------------------------------------------------
(* Arithmetic of sizes *)

\* A request of at least one byte needs at least one atom.
LEMMA ItemsPositive ==
    ASSUME NEW v \in Nat \ {0}, NEW u \in Nat \ {0}
    PROVE  pa_items(v, u) \in Nat \ {0}
  BY DEF pa_items

\* Rounding up never yields less than was asked for.
LEMMA RoundupEnough ==
    ASSUME NEW v \in Nat, NEW u \in Nat \ {0}
    PROVE  pa_roundup(v, u) \in Nat /\ pa_roundup(v, u) >= v
  BY DEF pa_roundup

-----------------------------------------------------------------------------
(* Blocks *)

LEMMA BlockFields ==
    ASSUME NEW a \in Nat, NEW n \in Nat
    PROVE  Block(a, n) \in Blocks /\ Block(a, n).atom = a /\ Block(a, n).size = n
  BY DEF Block, Blocks

LEMMA FieldTypes ==
    ASSUME NEW b \in Blocks
    PROVE  b.atom \in Nat /\ b.size \in Nat
  BY DEF Blocks

\* What is apart from a block is apart from every part of it.
LEMMA ApartFromPart ==
    ASSUME NEW b \in Blocks, NEW c \in Blocks, NEW d \in Blocks,
           Apart(b, c) \/ Apart(c, b),
           c.atom <= d.atom, d.atom + d.size <= c.atom + c.size
    PROVE  Apart(b, d) /\ Apart(d, b)
  <1>1. /\ b.atom \in Nat /\ b.size \in Nat /\ c.atom \in Nat
        /\ c.size \in Nat /\ d.atom \in Nat /\ d.size \in Nat
    BY FieldTypes
  <1> QED
    BY <1>1 DEF Apart

\* The two parts into which pa_mmap_alloc splits a chunk c.
LEMMA Split ==
    ASSUME NEW c \in Blocks, NEW n \in Nat \ {0}, c.size >= n
    PROVE  LET blk == Block(c.atom + (c.size - n), n)
               rest == Block(c.atom, c.size - n)
           IN /\ blk \in Blocks /\ rest \in Blocks
              /\ blk.size = n /\ rest.size = c.size - n
              /\ c.atom <= blk.atom /\ blk.atom + blk.size = c.atom + c.size
              /\ rest.atom = c.atom
              /\ rest.atom + rest.size <= c.atom + c.size
              /\ Apart(blk, rest)
  <1> DEFINE blk == Block(c.atom + (c.size - n), n)
             rest == Block(c.atom, c.size - n)
  <1>1. c.atom \in Nat /\ c.size \in Nat
    BY FieldTypes
  <1>2. blk \in Blocks /\ blk.atom = c.atom + (c.size - n) /\ blk.size = n
    BY <1>1, BlockFields
  <1>3. rest \in Blocks /\ rest.atom = c.atom /\ rest.size = c.size - n
    BY <1>1, BlockFields
  <1> HIDE DEF blk, rest
  <1>4. Apart(blk, rest)
    BY <1>1, <1>2, <1>3 DEF Apart
  <1>5. c.atom <= blk.atom /\ blk.atom + blk.size = c.atom + c.size
    BY <1>1, <1>2
  <1>6. rest.atom + rest.size <= c.atom + c.size
    BY <1>1, <1>3
  <1> QED
    BY <1>2, <1>3, <1>4, <1>5, <1>6 DEF blk, rest

-----------------------------------------------------------------------------
(* What each operation does to the chain *)

\* A block handed out of chunk i is apart from everything else, and what is
\* left of the chunk stays where it was.
LEMMA TakeKeeps ==
    ASSUME IndInv, NEW i \in DOMAIN free, NEW count \in Nat \ {0},
           free[i].size >= count, TakeChunk(i, count), top' = top,
           used' = used \cup {Block(free[i].atom + (free[i].size - count), count)}
    PROVE  /\ free' \in Seq(Blocks) /\ used' \subseteq Blocks
           /\ NoOverlap'
           /\ \A b \in (used \cup Chunks)' :
                 b.atom >= 1 /\ b.size >= 1 /\ b.atom + b.size <= top'
  <1> DEFINE blk == Block(free[i].atom + (free[i].size - count), count)
             Inside(b) == b.atom >= 1 /\ b.size >= 1 /\ b.atom + b.size <= top
  <1>1. /\ free \in Seq(Blocks) /\ DOMAIN free = 1 .. Len(free)
        /\ \A j \in DOMAIN free : free[j] \in Blocks /\ Inside(free[j])
        /\ \A b \in used : b \in Blocks /\ Inside(b)
    BY DEF IndInv, TypeOK, InSegment, Chunks
  <1>2. /\ \A b, c \in used : b = c \/ Apart(b, c)
        /\ \A b \in used, j \in DOMAIN free : Apart(b, free[j])
        /\ \A j, k \in DOMAIN free : j = k \/ Apart(free[j], free[k])
    BY DEF IndInv, NoOverlap
  <1>3. /\ free[i] \in Blocks /\ Inside(free[i])
        /\ free[i].atom \in Nat /\ free[i].size \in Nat /\ top \in Nat
    BY <1>1, FieldTypes DEF IndInv, TypeOK
  <1> DEFINE rest == Block(free[i].atom, free[i].size - count)
  <1>4. /\ blk \in Blocks /\ rest \in Blocks
        /\ blk.size = count /\ rest.size = free[i].size - count
        /\ free[i].atom <= blk.atom
        /\ blk.atom + blk.size = free[i].atom + free[i].size
        /\ rest.atom = free[i].atom
        /\ rest.atom + rest.size <= free[i].atom + free[i].size
        /\ Apart(blk, rest)
    BY <1>3, Split
  <1>u. used' = used \cup {blk}
    OBVIOUS
  <1>t. /\ count < free[i].size => free' = [free EXCEPT ![i] = rest]
        /\ ~(count < free[i].size) => free' = RemoveAt(free, i)
    BY DEF TakeChunk
  <1> HIDE DEF blk, rest
  <1>i. blk.atom \in Nat /\ blk.size \in Nat /\ rest.atom \in Nat
    BY <1>4, FieldTypes
  <1>5. Inside(blk)
    BY <1>3, <1>4, <1>i
  <1>6. \A b \in used : /\ Apart(b, blk) /\ Apart(blk, b)
                        /\ Apart(b, rest) /\ Apart(rest, b)
    <2> SUFFICES ASSUME NEW b \in used
                 PROVE  /\ Apart(b, blk) /\ Apart(blk, b)
                        /\ Apart(b, rest) /\ Apart(rest, b)
      OBVIOUS
    <2>1. b \in Blocks /\ Apart(b, free[i])
      BY <1>1, <1>2
    <2>2. blk.atom + blk.size <= free[i].atom + free[i].size
      BY <1>3, <1>4, <1>i
    <2>3. free[i].atom <= rest.atom
      BY <1>3, <1>4
    <2> QED
      BY <1>3, <1>4, <2>1, <2>2, <2>3, ApartFromPart
  <1>7. \A j \in DOMAIN free \ {i} :
           /\ Apart(free[j], blk) /\ Apart(blk, free[j])
           /\ Apart(free[j], rest) /\ Apart(rest, free[j])
    <2> SUFFICES ASSUME NEW j \in DOMAIN free \ {i}
                 PROVE  /\ Apart(free[j], blk) /\ Apart(blk, free[j])
                        /\ Apart(free[j], rest) /\ Apart(rest, free[j])
      OBVIOUS
    <2>1. free[j] \in Blocks /\ Apart(free[j], free[i])
      BY <1>1, <1>2
    <2>2. blk.atom + blk.size <= free[i].atom + free[i].size
      BY <1>3, <1>4, <1>i
    <2>3. free[i].atom <= rest.atom
      BY <1>3, <1>4
    <2> QED
      BY <1>3, <1>4, <2>1, <2>2, <2>3, ApartFromPart
  <1>8. CASE count < free[i].size
    <2>1. /\ free' \in Seq(Blocks) /\ DOMAIN free' = DOMAIN free
          /\ \A j \in DOMAIN free : free'[j] = IF j = i THEN rest ELSE free[j]
      BY <1>1, <1>4, <1>8, <1>t
    <2>2. Apart(rest, blk)
      BY <1>4 DEF Apart
    <2>3. Inside(rest)
      BY <1>3, <1>4, <1>8, <1>i
    <2>4. \A b, c \in used' : b = c \/ Apart(b, c)
      BY <1>2, <1>6, <1>u
    <2>5. \A b \in used', j \in DOMAIN free' : Apart(b, free'[j])
      BY <1>2, <1>4, <1>6, <1>7, <1>u, <2>1
    <2>6. \A j, k \in DOMAIN free' : j = k \/ Apart(free'[j], free'[k])
      BY <1>2, <1>7, <2>1
    <2> QED
      BY <1>1, <1>4, <1>5, <1>u, <2>1, <2>3, <2>4, <2>5, <2>6
      DEF Chunks, NoOverlap
  <1>9. CASE ~(count < free[i].size)
    <2> DEFINE old(j) == IF j < i THEN j ELSE j + 1
    <2>1. /\ free' \in Seq(Blocks) /\ DOMAIN free' = 1 .. (Len(free) - 1)
          /\ \A j \in DOMAIN free' : free'[j] = free[old(j)]
      <3>1. i \in 1 .. Len(free) /\ Len(free) \in Nat
        BY <1>1
      <3>2. free' = RemoveAt(free, i)
        BY <1>9, <1>t
      <3>3. /\ free' \in Seq(Blocks) /\ Len(free') = Len(free) - 1
            /\ \A j \in 1 .. (Len(free) - 1) :
                  free'[j] = IF j < i THEN free[j] ELSE free[j + 1]
        BY <1>1, <3>1, <3>2, RemoveAtElements
      <3> QED
        BY <3>1, <3>3
    <2>2. /\ \A j \in DOMAIN free' : old(j) \in DOMAIN free \ {i}
          /\ \A j, k \in DOMAIN free' : old(j) = old(k) => j = k
      BY <1>1, <2>1
    <2> HIDE DEF old
    <2>4. \A b, c \in used' : b = c \/ Apart(b, c)
      BY <1>2, <1>6, <1>u
    <2>5. \A b \in used', j \in DOMAIN free' : Apart(b, free'[j])
      BY <1>2, <1>7, <1>u, <2>1, <2>2
    <2>6. \A j, k \in DOMAIN free' : j = k \/ Apart(free'[j], free'[k])
      BY <1>2, <2>1, <2>2
    <2>7. \A j \in DOMAIN free' : Inside(free'[j])
      BY <1>1, <2>1, <2>2
    <2>8. \A b \in used' : b \in Blocks /\ Inside(b)
      BY <1>1, <1>4, <1>5, <1>u
    <2>9. NoOverlap'
      BY <2>4, <2>5, <2>6 DEF NoOverlap
    <2> QED
      BY <2>1, <2>7, <2>8, <2>9 DEF Chunks
  <1> QED
    BY <1>8, <1>9

\* A released block goes onto the chain whole, wherever it is inserted.
LEMMA ReleaseKeeps ==
    ASSUME IndInv, NEW blk \in used, pa_mmap_list_add(blk),
           used' = used \ {blk}, top' = top
    PROVE  /\ free' \in Seq(Blocks) /\ used' \subseteq Blocks
           /\ NoOverlap'
           /\ \A b \in (used \cup Chunks)' :
                 b.atom >= 1 /\ b.size >= 1 /\ b.atom + b.size <= top'
  <1> DEFINE Inside(b) == b.atom >= 1 /\ b.size >= 1 /\ b.atom + b.size <= top
  <1>1. /\ free \in Seq(Blocks) /\ DOMAIN free = 1 .. Len(free)
        /\ Len(free) \in Nat
        /\ \A j \in DOMAIN free : free[j] \in Blocks /\ Inside(free[j])
        /\ \A b \in used : b \in Blocks /\ Inside(b)
    BY DEF IndInv, TypeOK, InSegment, Chunks
  <1>2. /\ \A b, c \in used : b = c \/ Apart(b, c)
        /\ \A b \in used, j \in DOMAIN free : Apart(b, free[j])
        /\ \A j, k \in DOMAIN free : j = k \/ Apart(free[j], free[k])
    BY DEF IndInv, NoOverlap
  <1>3. PICK k \in 1 .. (Len(free) + 1) : free' = InsertAt(free, k, blk)
    BY DEF pa_mmap_list_add
  <1>4. /\ free' \in Seq(Blocks) /\ Len(free') = Len(free) + 1
        /\ \A j \in 1 .. (Len(free) + 1) :
              free'[j] = IF j < k THEN free[j]
                         ELSE IF j = k THEN blk ELSE free[j - 1]
    <2>1. blk \in Blocks /\ free \in Seq(Blocks)
      BY <1>1
    <2>2. /\ InsertAt(free, k, blk) \in Seq(Blocks)
          /\ Len(InsertAt(free, k, blk)) = Len(free) + 1
          /\ \A j \in 1 .. (Len(free) + 1) :
                InsertAt(free, k, blk)[j] =
                    IF j < k THEN free[j]
                    ELSE IF j = k THEN blk ELSE free[j - 1]
      BY <2>1, InsertAtElements
    <2> QED
      BY <1>3, <2>2
  <1> DEFINE old(j) == IF j < k THEN j ELSE j - 1
  <1>5. /\ DOMAIN free' = 1 .. (Len(free) + 1)
        /\ \A j \in DOMAIN free' : free'[j] = IF j = k THEN blk ELSE free[old(j)]
    BY <1>1, <1>4
  <1>6. /\ \A j \in DOMAIN free' : j = k \/ old(j) \in DOMAIN free
        /\ \A i, j \in DOMAIN free' :
              (i # k /\ j # k /\ old(i) = old(j)) => i = j
    BY <1>1, <1>5
  <1> HIDE DEF old
  <1>7. \A j \in DOMAIN free : Apart(free[j], blk) /\ Apart(blk, free[j])
    BY <1>1, <1>2 DEF Apart
  <1>8. \A b \in used' : b \in Blocks /\ Inside(b) /\ Apart(b, blk)
    BY <1>1, <1>2
  <1>9. \A j \in DOMAIN free' : Inside(free'[j])
    BY <1>1, <1>5, <1>6
  <1>10. \A b, c \in used' : b = c \/ Apart(b, c)
    BY <1>2
  <1>11. \A b \in used', j \in DOMAIN free' : Apart(b, free'[j])
    BY <1>2, <1>5, <1>6, <1>8
  <1>12. \A i, j \in DOMAIN free' : i = j \/ Apart(free'[i], free'[j])
    BY <1>2, <1>5, <1>6, <1>7
  <1>13. NoOverlap'
    BY <1>10, <1>11, <1>12 DEF NoOverlap
  <1> QED
    BY <1>4, <1>8, <1>9, <1>13 DEF Chunks

\* A growth hands out atoms that were in nobody's hands, and puts the rest of
\* them at the end of the chain.
LEMMA GrowKeeps ==
    ASSUME IndInv, NEW count \in Nat \ {0}, NEW newLen \in Nat,
           newLen >= pmLen + count, pm # "closed",
           GrowDone(count, newLen), used' = used \cup {Block(pmLen, count)}
    PROVE  /\ free' \in Seq(Blocks) /\ used' \subseteq Blocks
           /\ NoOverlap'
           /\ \A b \in (used \cup Chunks)' :
                 b.atom >= 1 /\ b.size >= 1 /\ b.atom + b.size <= top'
  <1> DEFINE Inside(b) == b.atom >= 1 /\ b.size >= 1 /\ b.atom + b.size <= newLen
             blk == Block(pmLen, count)
             rest == Block(pmLen + count, newLen - pmLen - count)
  <1>1. /\ free \in Seq(Blocks) /\ DOMAIN free = 1 .. Len(free)
        /\ Len(free) \in Nat
        /\ pmLen = top /\ top \in Nat /\ top >= 1 /\ top' = newLen
    BY DEF IndInv, TypeOK, InSegment, GrowDone
  <1>2. /\ \A j \in DOMAIN free :
              free[j] \in Blocks /\ Inside(free[j])
              /\ free[j].atom + free[j].size <= pmLen
        /\ \A b \in used :
              b \in Blocks /\ Inside(b) /\ b.atom + b.size <= pmLen
    <2>1. \A b \in used \cup Chunks : b \in Blocks
      BY <1>1 DEF IndInv, TypeOK, Chunks
    <2>2. \A b \in used \cup Chunks :
             b.atom >= 1 /\ b.size >= 1 /\ b.atom + b.size <= top
      BY DEF IndInv, InSegment
    <2>3. \A b \in used \cup Chunks :
             b \in Blocks /\ Inside(b) /\ b.atom + b.size <= pmLen
      BY <1>1, <2>1, <2>2, FieldTypes
    <2> QED
      BY <2>3 DEF Chunks
  <1>3. /\ \A b, c \in used : b = c \/ Apart(b, c)
        /\ \A b \in used, j \in DOMAIN free : Apart(b, free[j])
        /\ \A j, k \in DOMAIN free : j = k \/ Apart(free[j], free[k])
    BY DEF IndInv, NoOverlap
  <1>4. /\ blk \in Blocks /\ blk.atom = pmLen /\ blk.size = count
        /\ rest \in Blocks /\ rest.atom = pmLen + count
        /\ rest.size = newLen - pmLen - count
    <2>1. newLen - pmLen - count \in Nat /\ pmLen + count \in Nat
      BY <1>1
    <2> QED
      BY <1>1, <2>1, BlockFields
  <1>5. used' = used \cup {blk}
    OBVIOUS
  <1>6. free' = IF newLen > pmLen + count THEN Append(free, rest) ELSE free
    BY DEF GrowDone
  <1> HIDE DEF blk, rest
  <1>7. Inside(blk) /\ Apart(blk, rest)
    BY <1>1, <1>4 DEF Apart
  <1>8. \A b \in Blocks : b.atom + b.size <= pmLen =>
           /\ Apart(b, blk) /\ Apart(blk, b)
           /\ Apart(b, rest) /\ Apart(rest, b)
    BY <1>1, <1>4, FieldTypes DEF Apart
  <1>9. \A b \in used' : b \in Blocks /\ Inside(b)
    BY <1>2, <1>4, <1>5, <1>7
  <1>10. \A b, c \in used' : b = c \/ Apart(b, c)
    BY <1>2, <1>3, <1>5, <1>8
  <1>11. CASE newLen > pmLen + count
    <2>1. /\ free' \in Seq(Blocks) /\ DOMAIN free' = 1 .. (Len(free) + 1)
          /\ \A j \in DOMAIN free' :
                free'[j] = IF j \in DOMAIN free THEN free[j] ELSE rest
          /\ \A j \in DOMAIN free' : j \in DOMAIN free \/ j = Len(free) + 1
      BY <1>1, <1>4, <1>6, <1>11
    <2>2. Inside(rest)
      BY <1>1, <1>4, <1>11
    <2>3. \A b \in used' : Apart(b, rest)
      BY <1>2, <1>5, <1>7, <1>8
    <2>4. \A b \in used', j \in DOMAIN free' : Apart(b, free'[j])
      BY <1>2, <1>3, <1>5, <1>8, <2>1, <2>3
    <2>5. \A i, j \in DOMAIN free' : i = j \/ Apart(free'[i], free'[j])
      BY <1>2, <1>3, <1>8, <2>1
    <2>6. \A j \in DOMAIN free' : Inside(free'[j])
      BY <1>2, <2>1, <2>2
    <2>7. NoOverlap'
      BY <1>10, <2>4, <2>5 DEF NoOverlap
    <2> QED
      BY <1>1, <1>9, <2>1, <2>6, <2>7 DEF Chunks
  <1>12. CASE ~(newLen > pmLen + count)
    <2>1. free' = free
      BY <1>6, <1>12
    <2>2. \A b \in used', j \in DOMAIN free' : Apart(b, free'[j])
      BY <1>2, <1>3, <1>5, <1>8, <2>1
    <2>3. NoOverlap'
      BY <1>3, <1>10, <2>1, <2>2 DEF NoOverlap
    <2> QED
      BY <1>1, <1>2, <1>9, <2>1, <2>3 DEF Chunks
  <1> QED
    BY <1>11, <1>12

-----------------------------------------------------------------------------
(* The invariant is inductive *)

LEMMA InitInd == Init => IndInv
  <1> SUFFICES ASSUME Init PROVE IndInv
    OBVIOUS
  <1>1. free = <<>> /\ used = {} /\ Chunks = {}
    BY DEF Init, Chunks
  <1>2. TypeOK
    <2>1. free \in Seq(Blocks)
      BY <1>1
    <2>2. file \in [kind : {"absent", "raw", "db"}, len : Nat, pmi_len : Nat]
      BY DEF Init, NoFile
    <2> QED
      BY <2>1, <2>2 DEF Init, TypeOK
  <1>3. NoOverlap
    BY <1>1 DEF NoOverlap
  <1>4. InSegment
    BY <1>1 DEF Init, NoFile, InSegment
  <1>5. Backed
    BY DEF Init, NoFile, Backed
  <1> QED
    BY <1>2, <1>3, <1>4, <1>5 DEF IndInv

\* The failed growth and the requests refused at once.
LEMMA IdleAllocInd ==
    ASSUME IndInv, pm = "rw",
           UNCHANGED <<filename, pm, nextSlot, lost, used>>,
           \/ NothingDone
           \/ \E n \in Nat : n >= pmLen /\ GrowHalfDone(n)
    PROVE  IndInv'
  <1>1. CASE NothingDone
    BY <1>1 DEF NothingDone, IndInv, TypeOK, NoOverlap, InSegment, Backed, Chunks
  <1>2. CASE \E n \in Nat : n >= pmLen /\ GrowHalfDone(n)
    <2>1. PICK n \in Nat : n >= pmLen /\ GrowHalfDone(n)
      BY <1>2
    <2>2. TypeOK'
      BY <2>1 DEF GrowHalfDone, IndInv, TypeOK
    <2>3. NoOverlap'
      BY <2>1 DEF GrowHalfDone, IndInv, NoOverlap
    <2>4. InSegment'
      BY <2>1 DEF GrowHalfDone, IndInv, TypeOK, InSegment, Chunks
    <2>5. Backed'
      BY <2>1 DEF GrowHalfDone, IndInv, TypeOK, InSegment, Backed
    <2> QED
      BY <2>2, <2>3, <2>4, <2>5 DEF IndInv
  <1> QED
    BY <1>1, <1>2

\* The ways in which pa_mmap_alloc ends: with nothing, with a part of a chunk,
\* or with the first atoms of a larger segment.
LEMMA AllocOutcomes ==
    ASSUME IndInv, NEW size \in Nat, NEW ret \in Nat, pa_mmap_alloc(size, ret)
    PROVE  /\ pm = "rw" /\ UNCHANGED <<filename, pm, nextSlot, lost>>
           /\ \/ /\ NothingDone \/ \E n \in Nat : n >= pmLen /\ GrowHalfDone(n)
                 /\ used' = used
              \/ \E count \in Nat \ {0}, i \in DOMAIN free :
                    /\ free[i].size >= count /\ TakeChunk(i, count)
                    /\ used' = used \cup
                          {Block(free[i].atom + (free[i].size - count), count)}
                    /\ UNCHANGED <<file, pmLen, top, mapped, record, noteLost>>
              \/ \E count \in Nat \ {0}, newLen \in Nat :
                    /\ newLen >= pmLen + count /\ GrowDone(count, newLen)
                    /\ used' = used \cup {Block(pmLen, count)}
  <1> DEFINE count == pa_items(size, AtomBytes)
             newLen == pmLen + new_count(count)
             fits == \E i \in DOMAIN free : free[i].size >= count
             refused == /\ size = 0 \/ (~fits /\ TooBig(newLen))
                        /\ ret = NullAtom
                        /\ NothingDone
             found == /\ size > 0
                      /\ \E i \in DOMAIN free :
                            /\ FirstFit(i, count)
                            /\ TakeChunk(i, count)
                            /\ ret = free[i].atom + (free[i].size - count)
                      /\ UNCHANGED <<file, pmLen, top, mapped, record, noteLost>>
             grown == size > 0 /\ ret = pmLen /\ GrowDone(count, newLen)
             failed == /\ size > 0 /\ ret = NullAtom
                       /\ NothingDone \/ GrowHalfDone(newLen)
  <1>1. /\ pm = "rw"
        /\ refused \/ found \/ grown \/ failed
        /\ used' = IF ret = NullAtom THEN used
                   ELSE used \cup {Block(ret, count)}
        /\ UNCHANGED <<filename, pm, nextSlot, lost>>
    BY DEF pa_mmap_alloc, Writable
  <1>2. size > 0 => count \in Nat \ {0}
    BY MmapAssumption, ItemsPositive
  <1>3. pmLen \in Nat /\ pmLen = top /\ top >= 1
    BY <1>1 DEF IndInv, TypeOK, InSegment
  <1>4. size > 0 => newLen \in Nat /\ newLen >= pmLen + count
    <2> SUFFICES ASSUME size > 0
                 PROVE  newLen \in Nat /\ newLen >= pmLen + count
      OBVIOUS
    <2>1. count \in Nat
      BY <1>2
    <2> HIDE DEF count
    <2>2. new_count(count) \in Nat /\ new_count(count) >= count
      BY <2>1, MmapAssumption, RoundupEnough DEF new_count
    <2> QED
      BY <1>3, <2>1, <2>2
  <1> HIDE DEF count, newLen, fits
  <1>5. CASE refused
    BY <1>1, <1>5
  <1>6. CASE failed
    BY <1>1, <1>2, <1>3, <1>4, <1>6
  <1>7. CASE found
    <2>1. PICK i \in DOMAIN free :
              /\ free[i].size >= count
              /\ TakeChunk(i, count)
              /\ ret = free[i].atom + (free[i].size - count)
      BY <1>7 DEF FirstFit
    <2>2. free[i] \in Blocks /\ free[i].atom >= 1
      BY DEF IndInv, TypeOK, InSegment, Chunks
    <2>3. ret # NullAtom
      BY <1>2, <1>7, <2>1, <2>2, FieldTypes DEF NullAtom
    <2>4. used' = used \cup {Block(free[i].atom + (free[i].size - count), count)}
      BY <1>1, <2>1, <2>3
    <2> QED
      BY <1>1, <1>2, <1>7, <2>1, <2>4
  <1>8. CASE grown
    <2>1. used' = used \cup {Block(pmLen, count)}
      BY <1>1, <1>3, <1>8 DEF NullAtom
    <2> QED
      BY <1>1, <1>2, <1>4, <1>8, <2>1
  <1> QED
    BY <1>1, <1>5, <1>6, <1>7, <1>8

LEMMA AllocInd ==
    ASSUME IndInv, NEW size \in Nat, NEW ret \in Nat, pa_mmap_alloc(size, ret)
    PROVE  IndInv'
  <1>1. pm = "rw" /\ UNCHANGED <<filename, pm, nextSlot, lost>>
    BY AllocOutcomes
  <1>2. pmLen \in Nat /\ pmLen = top /\ top >= 1
    BY <1>1 DEF IndInv, TypeOK, InSegment
  <1>3. CASE /\ NothingDone \/ \E n \in Nat : n >= pmLen /\ GrowHalfDone(n)
             /\ used' = used
    BY <1>1, <1>3, IdleAllocInd
  <1>4. ASSUME NEW count \in Nat \ {0}, NEW i \in DOMAIN free,
               free[i].size >= count, TakeChunk(i, count),
               used' = used \cup
                         {Block(free[i].atom + (free[i].size - count), count)},
               UNCHANGED <<file, pmLen, top, mapped, record, noteLost>>
        PROVE  IndInv'
    <2>1. /\ free' \in Seq(Blocks) /\ used' \subseteq Blocks
          /\ NoOverlap'
          /\ \A b \in (used \cup Chunks)' :
                b.atom >= 1 /\ b.size >= 1 /\ b.atom + b.size <= top'
      BY <1>4, TakeKeeps
    <2>2. TypeOK'
      BY <1>1, <1>4, <2>1 DEF IndInv, TypeOK
    <2>3. InSegment'
      BY <1>1, <1>4, <2>1 DEF IndInv, InSegment
    <2>4. Backed'
      BY <1>1, <1>4 DEF IndInv, Backed
    <2> QED
      BY <2>1, <2>2, <2>3, <2>4 DEF IndInv
  <1>5. ASSUME NEW count \in Nat \ {0}, NEW newLen \in Nat,
               newLen >= pmLen + count, GrowDone(count, newLen),
               used' = used \cup {Block(pmLen, count)}
        PROVE  IndInv'
    <2>1. /\ free' \in Seq(Blocks) /\ used' \subseteq Blocks
          /\ NoOverlap'
          /\ \A b \in (used \cup Chunks)' :
                b.atom >= 1 /\ b.size >= 1 /\ b.atom + b.size <= top'
      BY <1>1, <1>5, GrowKeeps
    <2>2. /\ pmLen' = newLen /\ top' = newLen
          /\ file' = IF filename THEN [file EXCEPT !.len = newLen] ELSE file
          /\ MapMore(newLen)
      BY <1>5 DEF GrowDone
    <2>3. newLen - pmLen \in Nat /\ newLen \in Nat /\ newLen >= 1
      BY <1>2, <1>5
    <2>4. Block(pmLen, newLen - pmLen) \in Blocks
      BY <1>2, <2>3, BlockFields
    <2>5. record' \subseteq Blocks
      BY <2>2, <2>4 DEF MapMore, IndInv, TypeOK
    <2>6. noteLost' \in BOOLEAN
      BY <2>2 DEF MapMore, IndInv, TypeOK
    <2>7. mapped' \subseteq Nat
      BY <1>2, <2>2, <2>3 DEF MapMore, IndInv, TypeOK
    <2>8. TypeOK'
      BY <1>1, <2>1, <2>2, <2>5, <2>6, <2>7 DEF IndInv, TypeOK
    <2>9. InSegment'
      BY <1>1, <1>2, <2>1, <2>2, <2>3 DEF IndInv, TypeOK, InSegment
    <2>10. Backed'
      BY <1>1, <1>2, <2>2, <2>3 DEF IndInv, TypeOK, InSegment, Backed
    <2> QED
      BY <2>1, <2>8, <2>9, <2>10 DEF IndInv
  <1> QED
    BY <1>3, <1>4, <1>5, AllocOutcomes

LEMMA FreeInd ==
    ASSUME IndInv, NEW atom \in Nat, NEW size \in Nat, pa_mmap_free(atom, size)
    PROVE  IndInv'
  <1> DEFINE blk == Block(atom, pa_items(size, AtomBytes))
  <1>1. /\ pm = "rw" /\ blk \in used /\ pa_mmap_list_add(blk)
        /\ used' = used \ {blk}
        /\ UNCHANGED <<filename, file, pm, pmLen, record, noteLost, mapped,
                       nextSlot, top, lost>>
    BY DEF pa_mmap_free, Writable
  <1> HIDE DEF blk
  <1>2. /\ free' \in Seq(Blocks) /\ used' \subseteq Blocks
        /\ NoOverlap'
        /\ \A b \in (used \cup Chunks)' :
              b.atom >= 1 /\ b.size >= 1 /\ b.atom + b.size <= top'
    BY <1>1, ReleaseKeeps
  <1>3. TypeOK'
    BY <1>1, <1>2 DEF IndInv, TypeOK
  <1>4. InSegment'
    BY <1>1, <1>2 DEF IndInv, InSegment
  <1>5. Backed'
    BY <1>1 DEF IndInv, Backed
  <1> QED
    BY <1>2, <1>3, <1>4, <1>5 DEF IndInv

\* The chain of a segment that has just been laid out.
LEMMA NewChain ==
    ASSUME NEW len \in Nat \ {0, 1}, used' = {}, top' = len,
           free' = <<Block(1, len - 1)>>
    PROVE  /\ free' \in Seq(Blocks) /\ used' \subseteq Blocks
           /\ NoOverlap'
           /\ \A b \in (used \cup Chunks)' :
                 b.atom >= 1 /\ b.size >= 1 /\ b.atom + b.size <= top'
  <1> DEFINE blk == Block(1, len - 1)
  <1>1. blk \in Blocks /\ blk.atom = 1 /\ blk.size = len - 1
    BY BlockFields
  <1>2. free' = <<blk>>
    OBVIOUS
  <1> HIDE DEF blk
  <1>3. /\ free' \in Seq(Blocks) /\ DOMAIN free' = {1} /\ free'[1] = blk
    BY <1>1, <1>2
  <1>4. NoOverlap'
    BY <1>3 DEF NoOverlap
  <1> QED
    BY <1>1, <1>3, <1>4 DEF Chunks

\* What attaching a handle does.
LEMMA AttachTypes ==
    ASSUME IndInv, NEW mode \in {"ro", "rw"}, NEW len \in Nat, Attach(mode, len)
    PROVE  /\ pm' = mode /\ pmLen' = len /\ mapped' \subseteq Nat
           /\ record' \subseteq Blocks /\ noteLost' \in BOOLEAN
  <1>1. Block(0, len) \in Blocks
    BY BlockFields
  <1>2. mapped' \subseteq Nat
    BY DEF Attach
  <1>3. record' \subseteq Blocks
    BY <1>1 DEF Attach
  <1>4. noteLost' \in BOOLEAN
    BY DEF Attach, IndInv, TypeOK
  <1> QED
    BY <1>2, <1>3, <1>4 DEF Attach

LEMMA CreateInd == ASSUME IndInv, Create PROVE IndInv'
  <1> DEFINE len == IF filename THEN InitCount ELSE DefaultCount
  <1>1. /\ pm = "closed" /\ file.kind = "absent"
        /\ nextSlot' = nextSlot + 1 /\ Attach("rw", len)
        /\ file' = IF filename THEN [kind |-> "db", len |-> len, pmi_len |-> len]
                   ELSE file
        /\ free' = <<Block(1, len - 1)>> /\ top' = len
        /\ UNCHANGED <<filename, used, lost>>
    BY DEF Create
  <1>2. len \in Nat \ {0, 1}
    BY MmapAssumption
  <1> HIDE DEF len
  <1>3. used' = {}
    BY <1>1 DEF IndInv, Backed
  <1>4. /\ free' \in Seq(Blocks) /\ used' \subseteq Blocks
        /\ NoOverlap'
        /\ \A b \in (used \cup Chunks)' :
              b.atom >= 1 /\ b.size >= 1 /\ b.atom + b.size <= top'
    BY <1>1, <1>2, <1>3, NewChain
  <1>5. /\ pm' = "rw" /\ pmLen' = len /\ mapped' \subseteq Nat
        /\ record' \subseteq Blocks /\ noteLost' \in BOOLEAN
    BY <1>1, <1>2, AttachTypes
  <1>6. TypeOK'
    BY <1>1, <1>2, <1>4, <1>5 DEF IndInv, TypeOK
  <1>7. InSegment'
    BY <1>1, <1>2, <1>4, <1>5 DEF InSegment
  <1>8. Backed'
    BY <1>1, <1>2, <1>5 DEF IndInv, Backed
  <1> QED
    BY <1>4, <1>6, <1>7, <1>8 DEF IndInv

LEMMA CreateNoHandleInd == ASSUME IndInv, CreateNoHandle PROVE IndInv'
  <1>1. /\ pm = "closed" /\ file.kind = "absent" /\ nextSlot' = nextSlot + 1
        /\ UNCHANGED <<filename, pm, pmLen, record, noteLost, mapped, used, lost>>
    BY DEF CreateNoHandle
  <1>2. used' = {} /\ used = {}
    BY <1>1 DEF IndInv, Backed
  <1>3. CASE filename
    <2>1. /\ file' = [kind |-> "db", len |-> InitCount, pmi_len |-> InitCount]
          /\ free' = <<Block(1, InitCount - 1)>>
          /\ top' = InitCount
      BY <1>3 DEF CreateNoHandle
    <2>2. InitCount \in Nat \ {0, 1}
      BY MmapAssumption
    <2>3. /\ free' \in Seq(Blocks) /\ used' \subseteq Blocks
          /\ NoOverlap'
          /\ \A b \in (used \cup Chunks)' :
                b.atom >= 1 /\ b.size >= 1 /\ b.atom + b.size <= top'
      BY <1>2, <2>1, <2>2, NewChain
    <2>4. TypeOK'
      BY <1>1, <2>1, <2>2, <2>3 DEF IndInv, TypeOK
    <2>5. InSegment'
      BY <1>1, <2>1, <2>2, <2>3 DEF InSegment
    <2>6. Backed'
      BY <1>1, <1>3, <2>1, <2>2 DEF IndInv, Backed
    <2> QED
      BY <2>3, <2>4, <2>5, <2>6 DEF IndInv
  <1>4. CASE ~filename
    <2>1. UNCHANGED <<file, free, top>>
      BY <1>4 DEF CreateNoHandle
    <2> QED
      BY <1>1, <2>1 DEF IndInv, TypeOK, NoOverlap, InSegment, Backed, Chunks
  <1> QED
    BY <1>3, <1>4

LEMMA CreateHalfDoneInd == ASSUME IndInv, CreateHalfDone PROVE IndInv'
  <1>1. /\ pm = "closed" /\ file.kind = "absent" /\ filename
        /\ UNCHANGED <<filename, free, pm, pmLen, record, noteLost, mapped,
                       used, lost>>
        /\ nextSlot' \in {nextSlot, 0}
        /\ top' \in {top, 1}
    BY DEF CreateHalfDone
  <1>2. used = {} /\ free = <<>> /\ top = 0 /\ Chunks' = {}
    BY <1>1 DEF IndInv, Backed, Chunks
  <1>3. \/ /\ file'.kind = "raw" /\ top' = 0
        \/ /\ file'.kind = "db" /\ file'.len = InitCount /\ top' = 1
    BY <1>2 DEF CreateHalfDone, RawFile
  <1>4. /\ file' \in [kind : {"absent", "raw", "db"}, len : Nat, pmi_len : Nat]
        /\ file'.len \in Nat /\ InitCount \in Nat \ {0, 1}
    BY MmapAssumption DEF CreateHalfDone, RawFile
  <1>5. TypeOK'
    BY <1>1, <1>2, <1>4 DEF IndInv, TypeOK
  <1>6. NoOverlap'
    BY <1>1 DEF IndInv, NoOverlap
  <1>7. InSegment'
    BY <1>1, <1>2, <1>3, <1>4 DEF IndInv, InSegment
  <1>8. Backed'
    BY <1>1, <1>2, <1>3, <1>4 DEF IndInv, Backed
  <1> QED
    BY <1>5, <1>6, <1>7, <1>8 DEF IndInv

LEMMA OpenExistingInd ==
    ASSUME IndInv, NEW mode \in {"ro", "rw"}, OpenExisting(mode)
    PROVE  IndInv'
  <1>1. /\ pm = "closed" /\ file.kind = "db" /\ nextSlot' = nextSlot + 1
        /\ Attach(mode, file.len) /\ top' = file.len
        /\ lost' = lost \cup (top .. (file.len - 1))
        /\ UNCHANGED <<filename, file, free, used>>
    BY DEF OpenExisting
  <1>2. /\ filename /\ file.len \in Nat /\ file.len >= 1 /\ top \in Nat
        /\ top <= file.len
    BY <1>1 DEF IndInv, TypeOK, InSegment, Backed
  <1>3. /\ pm' = mode /\ pmLen' = file.len /\ mapped' \subseteq Nat
        /\ record' \subseteq Blocks /\ noteLost' \in BOOLEAN
    BY <1>1, <1>2, AttachTypes
  <1>4. lost' \subseteq Nat
    <2>1. top .. (file.len - 1) \subseteq Nat /\ lost \subseteq Nat
      BY <1>2 DEF IndInv, TypeOK
    <2> QED
      BY <1>1, <2>1
  <1>5. TypeOK'
    BY <1>1, <1>2, <1>3, <1>4 DEF IndInv, TypeOK
  <1>6. NoOverlap'
    BY <1>1 DEF IndInv, NoOverlap
  <1>7. \A b \in (used \cup Chunks)' :
           b.atom >= 1 /\ b.size >= 1 /\ b.atom + b.size <= top'
    <2>1. \A b \in used \cup Chunks : b \in Blocks
      BY DEF IndInv, TypeOK, Chunks
    <2>2. \A b \in used \cup Chunks :
             b.atom >= 1 /\ b.size >= 1 /\ b.atom + b.size <= top
      BY DEF IndInv, InSegment
    <2>3. (used \cup Chunks)' = used \cup Chunks
      BY <1>1 DEF Chunks
    <2> QED
      BY <1>1, <1>2, <2>1, <2>2, <2>3, FieldTypes
  <1>8. InSegment'
    BY <1>1, <1>2, <1>3, <1>7 DEF InSegment
  <1>9. Backed'
    BY <1>1, <1>2, <1>3 DEF IndInv, Backed
  <1> QED
    BY <1>5, <1>6, <1>8, <1>9 DEF IndInv

LEMMA OpenFailsInd == ASSUME IndInv, OpenFails PROVE IndInv'
  BY MmapAssumption
  DEF OpenFails, IndInv, TypeOK, NoOverlap, InSegment, Backed, Chunks

\* Closing and being killed leave what the file holds, and nothing else.
LEMMA LetGoInd ==
    ASSUME IndInv, LetGo, mapped' \subseteq Nat, nextSlot' \in Nat,
           noteLost' \in BOOLEAN
    PROVE  IndInv'
  <1>1. /\ pm' = "closed" /\ pmLen' = 0 /\ record' = {}
        /\ UNCHANGED <<filename, file>>
    BY DEF LetGo
  <1>2. CASE filename
    <2>1. UNCHANGED <<free, used, top, lost>>
      BY <1>2 DEF LetGo
    <2> QED
      BY <1>1, <1>2, <2>1
      DEF IndInv, TypeOK, NoOverlap, InSegment, Backed, Chunks
  <1>3. CASE ~filename
    <2>1. free' = <<>> /\ used' = {} /\ top' = 0 /\ lost' = {} /\ Chunks' = {}
      BY <1>3 DEF LetGo, Chunks
    <2>2. free' \in Seq(Blocks)
      BY <2>1
    <2>3. TypeOK'
      BY <1>1, <2>1, <2>2 DEF IndInv, TypeOK
    <2>4. NoOverlap'
      BY <2>1 DEF NoOverlap
    <2>5. InSegment' /\ Backed'
      BY <1>1, <1>3, <2>1 DEF IndInv, InSegment, Backed
    <2> QED
      BY <2>3, <2>4, <2>5 DEF IndInv
  <1> QED
    BY <1>2, <1>3

LEMMA NextInd == ASSUME IndInv, [Next]_mmapVars PROVE IndInv'
  <1>1. ASSUME NEW size \in ReqSizes, NEW ret \in 0 .. LenBound,
               pa_mmap_alloc(size, ret)
        PROVE  IndInv'
    <2>1. size \in Nat /\ ret \in Nat
      BY MmapAssumption
    <2> QED
      BY <1>1, <2>1, AllocInd
  <1>2. ASSUME NEW atom \in 1 .. LenBound, NEW size \in ReqSizes,
               pa_mmap_free(atom, size)
        PROVE  IndInv'
    <2>1. size \in Nat /\ atom \in Nat
      BY MmapAssumption
    <2> QED
      BY <1>2, <2>1, FreeInd
  <1>3. CASE pa_mmap_close
    <2>1. mapped' \subseteq Nat /\ nextSlot' \in Nat /\ noteLost' \in BOOLEAN
      BY <1>3 DEF pa_mmap_close, IndInv, TypeOK
    <2> QED
      BY <1>3, <2>1, LetGoInd DEF pa_mmap_close
  <1>4. CASE Kill
    BY <1>4, LetGoInd DEF Kill
  <1>5. CASE UNCHANGED mmapVars
    BY <1>5 DEF mmapVars, IndInv, TypeOK, NoOverlap, InSegment, Backed, Chunks
  <1> QED
    BY <1>1, <1>2, <1>3, <1>4, <1>5, CreateInd, CreateNoHandleInd,
       CreateHalfDoneInd, OpenExistingInd, OpenFailsInd DEF Next

-----------------------------------------------------------------------------
(* The theorems *)

\* The allocator's invariant holds in every reachable state.
THEOREM Invariance == Spec => []IndInv
  <1>1. Init => IndInv
    BY InitInd
  <1>2. IndInv /\ [Next]_mmapVars => IndInv'
    BY NextInd
  <1> QED
    BY <1>1, <1>2, PTL DEF Spec

\* The variables keep their types: no length, atom or size that pammap.c
\* computes ever leaves the naturals.
THEOREM TypeCorrect == Spec => []TypeOK
  <1>1. IndInv => TypeOK
    BY DEF IndInv
  <1> QED
    BY <1>1, Invariance, PTL

\* pa_mmap_alloc never hands out an atom that is in use or still on the chain,
\* whatever fails and whenever the process is killed.
THEOREM AtomsOwnedOnce == Spec => []NoOverlap
  <1>1. IndInv => NoOverlap
    BY DEF IndInv
  <1> QED
    BY <1>1, Invariance, PTL

\* Every block and chunk lies inside the mapping and the file.
THEOREM BlocksInSegment == Spec => []InSegment
  <1>1. IndInv => InSegment
    BY DEF IndInv
  <1> QED
    BY <1>1, Invariance, PTL

-----------------------------------------------------------------------------
(* No page is dropped, and nothing stays mapped *)

InUse(p) == \E b \in used : p \in Pages(b)

OnChain(p) == \E i \in DOMAIN free : p \in Pages(free[i])

\* Conserved, page by page.
Accounted == \A p : p \in 1 .. (top - 1) <=> InUse(p) \/ OnChain(p) \/ p \in lost

\* A file with a header has its header page, so that an open which finds more
\* than the last handle knew of adds none of the allocator's own pages.
HeaderPage == file.kind = "db" => top >= 1

\* What this process has mapped is what pa_mmap_close will unmap: all pieces are
\* on record, or the segment is a file and one piece.
MappedKnown ==
    /\ (pm # "closed" /\ filename) => record = {} /\ mapped \subseteq 0 .. (pmLen - 1)
    /\ (pm # "closed" /\ ~filename /\ ~noteLost) =>
          record # {} /\ mapped \subseteq UNION {Pages(r) : r \in record}
    /\ CloseUnmaps

SoundInv == IndInv /\ Accounted /\ HeaderPage /\ MappedKnown

LEMMA AccountedConserved == Accounted <=> Conserved
  <1>1. \A p : (p \in UNION {Pages(b) : b \in used \cup Chunks})
                  <=> InUse(p) \/ OnChain(p)
    BY DEF InUse, OnChain, Chunks
  <1> DEFINE held == (UNION {Pages(b) : b \in used \cup Chunks})
  <1>2. Conserved <=> (1 .. (top - 1) = held \cup lost)
    BY DEF Conserved
  <1>3. Accounted <=> \A p : p \in 1 .. (top - 1) <=> p \in held \cup lost
    BY <1>1 DEF Accounted
  <1> HIDE DEF held
  <1> QED
    BY <1>2, <1>3

LEMMA PagesOf ==
    ASSUME NEW b \in Blocks, NEW p
    PROVE  p \in Pages(b) <=> /\ p \in Nat /\ b.atom <= p
                              /\ p < b.atom + b.size
  BY FieldTypes DEF Pages

\* A chunk's pages are those of what is handed out and of what is left.
LEMMA TakeAccounts ==
    ASSUME IndInv, NEW i \in DOMAIN free, NEW count \in Nat \ {0},
           free[i].size >= count, TakeChunk(i, count),
           used' = used \cup {Block(free[i].atom + (free[i].size - count), count)},
           NEW p
    PROVE  InUse(p)' \/ OnChain(p)' <=> InUse(p) \/ OnChain(p)
  <1> DEFINE blk == Block(free[i].atom + (free[i].size - count), count)
             rest == Block(free[i].atom, free[i].size - count)
  <1>1. /\ free \in Seq(Blocks) /\ DOMAIN free = 1 .. Len(free) /\ Len(free) \in Nat
        /\ \A j \in DOMAIN free : free[j] \in Blocks
        /\ free[i].atom \in Nat /\ free[i].size \in Nat
    BY FieldTypes DEF IndInv, TypeOK
  <1>2. /\ blk \in Blocks /\ blk.size = count
        /\ blk.atom = free[i].atom + (free[i].size - count)
        /\ rest \in Blocks /\ rest.atom = free[i].atom
        /\ rest.size = free[i].size - count
    BY <1>1, BlockFields
  <1>3. used' = used \cup {blk}
    OBVIOUS
  <1>4. /\ count < free[i].size => free' = [free EXCEPT ![i] = rest]
        /\ ~(count < free[i].size) => free' = RemoveAt(free, i)
    BY DEF TakeChunk
  <1> HIDE DEF blk, rest
  <1>5. p \in Pages(free[i]) <=> p \in Pages(blk) \/ p \in Pages(rest)
    <2> DEFINE a == free[i].atom
               n == free[i].size
    <2>1. /\ a \in Nat /\ n \in Nat /\ n >= count /\ count \in Nat
          /\ p \in Pages(free[i]) <=> p \in Nat /\ a <= p /\ p < a + n
      BY <1>1, PagesOf
    <2>2. p \in Pages(blk) <=> p \in Nat /\ a + (n - count) <= p
                               /\ p < a + (n - count) + count
      BY <1>2, PagesOf
    <2>3. p \in Pages(rest) <=> p \in Nat /\ a <= p /\ p < a + (n - count)
      BY <1>2, PagesOf
    <2> HIDE DEF a, n
    <2> QED
      BY <2>1, <2>2, <2>3
  <1>6. InUse(p)' <=> InUse(p) \/ p \in Pages(blk)
    BY <1>3 DEF InUse
  <1>7. CASE count < free[i].size
    <2>1. /\ DOMAIN free' = DOMAIN free
          /\ \A j \in DOMAIN free : free'[j] = IF j = i THEN rest ELSE free[j]
      BY <1>1, <1>4, <1>7
    <2> QED
      BY <1>5, <1>6, <2>1 DEF OnChain
  <1>8. CASE ~(count < free[i].size)
    <2>1. rest.size = 0
      BY <1>1, <1>2, <1>8
    <2>2. p \notin Pages(rest)
      BY <1>2, <2>1, PagesOf, FieldTypes
    <2>3. i \in 1 .. Len(free)
      BY <1>1
    <2>4. /\ free' \in Seq(Blocks) /\ Len(free') = Len(free) - 1
          /\ \A j \in 1 .. (Len(free) - 1) :
                free'[j] = IF j < i THEN free[j] ELSE free[j + 1]
      BY <1>1, <1>4, <1>8, <2>3, RemoveAtElements
    <2>5. DOMAIN free' = 1 .. (Len(free) - 1)
      BY <1>1, <2>4
    <2>6. ASSUME NEW j \in DOMAIN free \ {i}
          PROVE  \E k \in DOMAIN free' : free'[k] = free[j]
      <3>1. CASE j < i
        BY <1>1, <2>3, <2>4, <2>5, <3>1
      <3>2. CASE j > i
        <4>1. j - 1 \in 1 .. (Len(free) - 1) /\ ~(j - 1 < i) /\ (j - 1) + 1 = j
          BY <1>1, <2>3, <3>2
        <4> QED
          BY <2>4, <2>5, <4>1
      <3> QED
        BY <1>1, <3>1, <3>2
    <2>7. \A k \in DOMAIN free' : \E j \in DOMAIN free : free'[k] = free[j]
      BY <1>1, <2>4, <2>5
    <2> QED
      BY <1>5, <1>6, <2>2, <2>6, <2>7 DEF OnChain
  <1> QED
    BY <1>7, <1>8

\* A released block's pages are on the chain, where it was inserted.
LEMMA ReleaseAccounts ==
    ASSUME IndInv, NEW blk \in used, pa_mmap_list_add(blk),
           used' = used \ {blk}, NEW p
    PROVE  InUse(p)' \/ OnChain(p)' <=> InUse(p) \/ OnChain(p)
  <1>1. /\ free \in Seq(Blocks) /\ DOMAIN free = 1 .. Len(free) /\ Len(free) \in Nat
        /\ blk \in Blocks
    BY DEF IndInv, TypeOK
  <1>2. PICK k \in 1 .. (Len(free) + 1) : free' = InsertAt(free, k, blk)
    BY DEF pa_mmap_list_add
  <1>3. /\ free' \in Seq(Blocks) /\ Len(free') = Len(free) + 1
        /\ \A j \in 1 .. (Len(free) + 1) :
              free'[j] = IF j < k THEN free[j]
                         ELSE IF j = k THEN blk ELSE free[j - 1]
    <2>1. /\ InsertAt(free, k, blk) \in Seq(Blocks)
          /\ Len(InsertAt(free, k, blk)) = Len(free) + 1
          /\ \A j \in 1 .. (Len(free) + 1) :
                InsertAt(free, k, blk)[j] =
                    IF j < k THEN free[j]
                    ELSE IF j = k THEN blk ELSE free[j - 1]
      BY <1>1, InsertAtElements
    <2> QED
      BY <1>2, <2>1
  <1>4. DOMAIN free' = 1 .. (Len(free) + 1)
    BY <1>1, <1>3
  <1>5. k \in DOMAIN free' /\ free'[k] = blk
    BY <1>1, <1>3, <1>4
  <1>6. ASSUME NEW j \in DOMAIN free
        PROVE  \E n \in DOMAIN free' : free'[n] = free[j]
    <2>1. CASE j < k
      BY <1>1, <1>3, <1>4, <2>1
    <2>2. CASE ~(j < k)
      <3>1. j + 1 \in 1 .. (Len(free) + 1) /\ ~(j + 1 < k) /\ j + 1 # k
            /\ (j + 1) - 1 = j
        BY <1>1, <2>2
      <3> QED
        BY <1>3, <1>4, <3>1
    <2> QED
      BY <2>1, <2>2
  <1>7. \A n \in DOMAIN free' :
           free'[n] = blk \/ \E j \in DOMAIN free : free'[n] = free[j]
    <2> SUFFICES ASSUME NEW n \in DOMAIN free', n # k
                 PROVE  \E j \in DOMAIN free : free'[n] = free[j]
      BY <1>5
    <2>1. CASE n < k
      BY <1>1, <1>3, <1>4, <2>1
    <2>2. CASE n > k
      <3>1. n - 1 \in DOMAIN free /\ ~(n < k)
        BY <1>1, <1>4, <2>2
      <3> QED
        BY <1>3, <1>4, <3>1
    <2> QED
      BY <1>4, <2>1, <2>2
  <1> QED
    BY <1>5, <1>6, <1>7 DEF InUse, OnChain

\* A growth hands out and chains up all of the pages it adds.
LEMMA GrowAccounts ==
    ASSUME IndInv, NEW count \in Nat \ {0}, NEW newLen \in Nat,
           newLen >= pmLen + count, pm # "closed",
           GrowDone(count, newLen), used' = used \cup {Block(pmLen, count)},
           NEW p
    PROVE  InUse(p)' \/ OnChain(p)' <=>
              InUse(p) \/ OnChain(p) \/ p \in pmLen .. (newLen - 1)
  <1> DEFINE blk == Block(pmLen, count)
             rest == Block(pmLen + count, newLen - pmLen - count)
  <1>1. /\ free \in Seq(Blocks) /\ DOMAIN free = 1 .. Len(free) /\ Len(free) \in Nat
        /\ pmLen \in Nat
    BY DEF IndInv, TypeOK
  <1>2. /\ blk \in Blocks /\ blk.atom = pmLen /\ blk.size = count
        /\ rest \in Blocks /\ rest.atom = pmLen + count
        /\ rest.size = newLen - pmLen - count
    <2>1. newLen - pmLen - count \in Nat /\ pmLen + count \in Nat
      BY <1>1
    <2> QED
      BY <1>1, <2>1, BlockFields
  <1>3. used' = used \cup {blk}
    OBVIOUS
  <1>4. free' = IF newLen > pmLen + count THEN Append(free, rest) ELSE free
    BY DEF GrowDone
  <1> HIDE DEF blk, rest
  <1>5. p \in pmLen .. (newLen - 1) <=> p \in Pages(blk) \/ p \in Pages(rest)
    BY <1>1, <1>2, PagesOf
  <1>6. InUse(p)' <=> InUse(p) \/ p \in Pages(blk)
    BY <1>3 DEF InUse
  <1>7. CASE newLen > pmLen + count
    <2>1. /\ DOMAIN free' = 1 .. (Len(free) + 1)
          /\ \A j \in DOMAIN free : j \in DOMAIN free' /\ free'[j] = free[j]
          /\ Len(free) + 1 \in DOMAIN free' /\ free'[Len(free) + 1] = rest
          /\ \A j \in DOMAIN free' : j \in DOMAIN free \/ j = Len(free) + 1
      BY <1>1, <1>2, <1>4, <1>7
    <2>2. OnChain(p)' <=> OnChain(p) \/ p \in Pages(rest)
      BY <2>1 DEF OnChain
    <2> QED
      BY <1>5, <1>6, <2>2
  <1>8. CASE ~(newLen > pmLen + count)
    <2>1. p \notin Pages(rest)
      BY <1>1, <1>2, <1>8, PagesOf
    <2>2. OnChain(p)' <=> OnChain(p)
      BY <1>4, <1>8 DEF OnChain
    <2> QED
      BY <1>5, <1>6, <2>1, <2>2
  <1> QED
    BY <1>7, <1>8

LEMMA AllocSound ==
    ASSUME SoundInv, IndInv', NEW size \in Nat, NEW ret \in Nat,
           pa_mmap_alloc(size, ret)
    PROVE  SoundInv'
  <1>1. IndInv /\ pm = "rw" /\ UNCHANGED <<filename, pm, nextSlot, lost>>
    BY AllocOutcomes DEF SoundInv
  <1>2. pmLen \in Nat /\ pmLen = top /\ top >= 1
    BY <1>1 DEF IndInv, TypeOK, InSegment
  <1>3. ASSUME UNCHANGED <<pmLen, mapped, record, noteLost>>
        PROVE  MappedKnown'
    BY <1>1, <1>3 DEF SoundInv, MappedKnown, CloseUnmaps
  <1>4. CASE /\ NothingDone \/ \E n \in Nat : n >= pmLen /\ GrowHalfDone(n)
             /\ used' = used
    <2>1. UNCHANGED <<free, pmLen, top, mapped, record, noteLost>>
      BY <1>4 DEF NothingDone, GrowHalfDone
    <2>2. Accounted'
      BY <1>1, <1>4, <2>1 DEF SoundInv, Accounted, InUse, OnChain
    <2>3. HeaderPage'
      BY <1>2, <2>1 DEF HeaderPage
    <2> QED
      BY <1>3, <2>1, <2>2, <2>3 DEF SoundInv
  <1>5. ASSUME NEW count \in Nat \ {0}, NEW i \in DOMAIN free,
               free[i].size >= count, TakeChunk(i, count),
               used' = used \cup
                         {Block(free[i].atom + (free[i].size - count), count)},
               UNCHANGED <<file, pmLen, top, mapped, record, noteLost>>
        PROVE  SoundInv'
    <2>1. \A p : InUse(p)' \/ OnChain(p)' <=> InUse(p) \/ OnChain(p)
      BY <1>1, <1>5, TakeAccounts
    <2>2. Accounted'
      BY <1>1, <1>5, <2>1 DEF SoundInv, Accounted
    <2>3. HeaderPage'
      BY <1>5 DEF SoundInv, HeaderPage
    <2> QED
      BY <1>3, <1>5, <2>2, <2>3 DEF SoundInv
  <1>6. ASSUME NEW count \in Nat \ {0}, NEW newLen \in Nat,
               newLen >= pmLen + count, GrowDone(count, newLen),
               used' = used \cup {Block(pmLen, count)}
        PROVE  SoundInv'
    <2>1. /\ pmLen' = newLen /\ top' = newLen /\ MapMore(newLen)
          /\ newLen >= 1 /\ newLen >= pmLen
      BY <1>2, <1>6 DEF GrowDone
    <2>2. Accounted'
      <3>1. \A p : InUse(p)' \/ OnChain(p)' <=>
                      InUse(p) \/ OnChain(p) \/ p \in pmLen .. (newLen - 1)
        BY <1>1, <1>6, GrowAccounts
      <3>2. \A p : p \in 1 .. (newLen - 1) <=>
                      p \in 1 .. (top - 1) \/ p \in pmLen .. (newLen - 1)
        BY <1>2, <2>1
      <3> QED
        BY <1>1, <2>1, <3>1, <3>2 DEF SoundInv, Accounted
    <2>3. HeaderPage'
      BY <2>1 DEF HeaderPage
    <2>4. MappedKnown'
      <3> DEFINE piece == Block(pmLen, newLen - pmLen)
      <3>1. /\ mapped' = mapped \cup (pmLen .. (newLen - 1))
            /\ \/ /\ ~filename /\ record' = record \cup {piece}
                  /\ noteLost' = noteLost
               \/ /\ record' = record
                  /\ noteLost' = (noteLost \/ ~filename)
        BY <2>1 DEF MapMore
      <3>2. Pages(piece) = pmLen .. (newLen - 1)
        <4>1. newLen - pmLen \in Nat /\ pmLen + (newLen - pmLen) = newLen
          BY <1>2, <2>1
        <4> QED
          BY <1>2, <4>1, BlockFields DEF Pages
      <3> HIDE DEF piece
      <3>3. CASE filename
        <4>1. record' = {} /\ mapped \subseteq 0 .. (pmLen - 1)
          BY <1>1, <3>1, <3>3 DEF SoundInv, MappedKnown
        <4>2. mapped' \subseteq 0 .. (newLen - 1)
          BY <1>2, <2>1, <3>1, <4>1
        <4> QED
          BY <1>1, <2>1, <3>3, <4>1, <4>2 DEF MappedKnown, CloseUnmaps
      <3>4. CASE ~filename
        <4>1. CASE noteLost'
          BY <1>1, <3>4, <4>1 DEF MappedKnown, CloseUnmaps
        <4>2. CASE ~noteLost'
          <5>0. noteLost' # (noteLost \/ ~filename)
            BY <3>4, <4>2, Zenon
          <5>1. ~noteLost /\ record' = record \cup {piece}
            BY <3>1, <4>2, <5>0
          <5>2. mapped \subseteq UNION {Pages(r) : r \in record}
            BY <1>1, <3>4, <5>1 DEF SoundInv, MappedKnown
          <5>3. mapped' \subseteq UNION {Pages(r) : r \in record'}
            BY <3>1, <3>2, <5>1, <5>2
          <5> QED
            BY <1>1, <3>4, <5>1, <5>3 DEF MappedKnown, CloseUnmaps
        <4> QED
          BY <4>1, <4>2
      <3> QED
        BY <3>3, <3>4
    <2> QED
      BY <2>2, <2>3, <2>4 DEF SoundInv
  <1> QED
    BY <1>1, <1>4, <1>5, <1>6, AllocOutcomes

\* A segment of n pages that has just been laid out is one chunk.
LEMMA NewAccounts ==
    ASSUME SoundInv, NEW n \in Nat \ {0, 1}, pm = "closed", file.kind # "db",
           used' = used, lost' = lost, top' = n, free' = <<Block(1, n - 1)>>
    PROVE  Accounted'
  <1>1. used = {} /\ free = <<>> /\ top = 0
    BY DEF SoundInv, IndInv, Backed
  <1>2. lost = {}
    BY <1>1 DEF SoundInv, Accounted
  <1>3. DOMAIN free' = {1} /\ Pages(free'[1]) = 1 .. (n - 1)
    <2>1. Block(1, n - 1).atom = 1 /\ Block(1, n - 1).size = n - 1
      BY BlockFields
    <2> QED
      BY <2>1 DEF Pages
  <1> QED
    BY <1>1, <1>2, <1>3 DEF Accounted, InUse, OnChain

\* What attaching a handle makes known.
LEMMA AttachKnown ==
    ASSUME NEW mode \in {"ro", "rw"}, NEW len \in Nat, Attach(mode, len),
           UNCHANGED filename
    PROVE  MappedKnown'
  <1>1. /\ pm' = mode /\ pmLen' = len /\ mapped' = 0 .. (len - 1)
        /\ \/ ~filename /\ record' = {Block(0, len)} /\ ~noteLost'
           \/ record' = {} /\ noteLost' = ~filename
    BY DEF Attach
  <1>2. Pages(Block(0, len)) = 0 .. (len - 1)
    BY BlockFields DEF Pages
  <1> QED
    BY <1>1, <1>2 DEF MappedKnown, CloseUnmaps

LEMMA OpenSound ==
    ASSUME SoundInv, IndInv',
           \/ Create \/ CreateNoHandle \/ CreateHalfDone \/ OpenFails
           \/ \E mode \in {"ro", "rw"} : OpenExisting(mode)
    PROVE  SoundInv'
  <1>1. InitCount \in Nat \ {0, 1} /\ DefaultCount \in Nat \ {0, 1}
    BY MmapAssumption
  <1>2. ASSUME UNCHANGED <<filename, pm, record, noteLost, mapped>>, pm = "closed"
        PROVE  MappedKnown'
    BY <1>2 DEF SoundInv, MappedKnown, CloseUnmaps
  <1>3. CASE Create
    <2> DEFINE len == IF filename THEN InitCount ELSE DefaultCount
    <2>1. /\ pm = "closed" /\ file.kind = "absent" /\ Attach("rw", len)
          /\ free' = <<Block(1, len - 1)>> /\ top' = len
          /\ UNCHANGED <<filename, used, lost>>
      BY <1>3 DEF Create
    <2>2. len \in Nat \ {0, 1}
      BY <1>1
    <2> HIDE DEF len
    <2>3. Accounted'
      BY <2>1, <2>2, NewAccounts
    <2>4. HeaderPage'
      BY <2>1, <2>2 DEF HeaderPage
    <2> QED
      BY <2>1, <2>2, <2>3, <2>4, AttachKnown DEF SoundInv
  <1>4. CASE CreateNoHandle
    <2>1. /\ pm = "closed" /\ file.kind = "absent"
          /\ UNCHANGED <<filename, pm, record, noteLost, mapped, used, lost>>
      BY <1>4 DEF CreateNoHandle
    <2>2. CASE filename
      <3>1. top' = InitCount /\ free' = <<Block(1, InitCount - 1)>>
        BY <1>4, <2>2 DEF CreateNoHandle
      <3>2. Accounted'
        BY <1>1, <2>1, <3>1, NewAccounts
      <3>3. HeaderPage'
        BY <1>1, <3>1 DEF HeaderPage
      <3> QED
        BY <1>2, <2>1, <3>2, <3>3 DEF SoundInv
    <2>3. CASE ~filename
      <3>1. UNCHANGED <<file, free, top>>
        BY <1>4, <2>3 DEF CreateNoHandle
      <3> QED
        BY <1>2, <2>1, <3>1
        DEF SoundInv, Accounted, InUse, OnChain, HeaderPage
    <2> QED
      BY <2>2, <2>3
  <1>5. CASE CreateHalfDone
    <2>1. /\ pm = "closed" /\ file.kind = "absent"
          /\ UNCHANGED <<filename, free, pm, record, noteLost, mapped, used, lost>>
      BY <1>5 DEF CreateHalfDone
    <2>2. top = 0 /\ (top' = 1 \/ (top' = top /\ file'.kind = "raw"))
      BY <1>5 DEF CreateHalfDone, RawFile, SoundInv, IndInv, Backed
    <2>3. Accounted'
      BY <2>1, <2>2 DEF SoundInv, Accounted, InUse, OnChain
    <2>4. HeaderPage'
      BY <2>2 DEF HeaderPage
    <2> QED
      BY <1>2, <2>1, <2>3, <2>4 DEF SoundInv
  <1>6. CASE OpenFails
    <2>1. /\ pm = "closed"
          /\ UNCHANGED <<filename, file, free, pm, record, noteLost, mapped,
                         used, top, lost>>
      BY <1>6 DEF OpenFails
    <2> QED
      BY <1>2, <2>1 DEF SoundInv, Accounted, InUse, OnChain, HeaderPage
  <1>7. ASSUME NEW mode \in {"ro", "rw"}, OpenExisting(mode)
        PROVE  SoundInv'
    <2>1. /\ pm = "closed" /\ file.kind = "db" /\ Attach(mode, file.len)
          /\ top' = file.len
          /\ lost' = lost \cup (top .. (file.len - 1))
          /\ UNCHANGED <<filename, file, free, used>>
      BY <1>7 DEF OpenExisting
    <2>2. file.len \in Nat /\ top \in Nat /\ 1 <= top /\ top <= file.len
      BY <2>1 DEF SoundInv, IndInv, TypeOK, InSegment, Backed, HeaderPage
    <2>3. Accounted'
      <3>1. \A p : p \in 1 .. (file.len - 1) <=>
                      p \in 1 .. (top - 1) \/ p \in top .. (file.len - 1)
        BY <2>2
      <3> QED
        BY <2>1, <3>1 DEF SoundInv, Accounted, InUse, OnChain
    <2>4. HeaderPage'
      BY <2>1, <2>2 DEF HeaderPage
    <2> QED
      BY <2>1, <2>2, <2>3, <2>4, AttachKnown DEF SoundInv
  <1> QED
    BY <1>3, <1>4, <1>5, <1>6, <1>7

LEMMA LetGoSound ==
    ASSUME SoundInv, LetGo
    PROVE  Accounted' /\ HeaderPage'
  <1>1. UNCHANGED <<filename, file>>
    BY DEF LetGo
  <1>2. CASE filename
    <2>1. UNCHANGED <<free, used, top, lost>>
      BY <1>2 DEF LetGo
    <2> QED
      BY <1>1, <2>1 DEF SoundInv, Accounted, InUse, OnChain, HeaderPage
  <1>3. CASE ~filename
    <2>1. free' = <<>> /\ used' = {} /\ top' = 0 /\ lost' = {}
      BY <1>3 DEF LetGo
    <2>2. file.kind = "absent"
      BY <1>3 DEF SoundInv, IndInv, Backed
    <2> QED
      BY <1>1, <2>1, <2>2 DEF Accounted, InUse, OnChain, HeaderPage
  <1> QED
    BY <1>2, <1>3

LEMMA SoundStep == ASSUME SoundInv, [Next]_mmapVars PROVE SoundInv'
  <1>1. IndInv'
    BY NextInd DEF SoundInv
  <1>2. ASSUME NEW size \in ReqSizes, NEW ret \in 0 .. LenBound,
               pa_mmap_alloc(size, ret)
        PROVE  SoundInv'
    <2>1. size \in Nat /\ ret \in Nat
      BY MmapAssumption
    <2> QED
      BY <1>1, <1>2, <2>1, AllocSound
  <1>3. ASSUME NEW atom \in 1 .. LenBound, NEW size \in ReqSizes,
               pa_mmap_free(atom, size)
        PROVE  SoundInv'
    <2> DEFINE blk == Block(atom, pa_items(size, AtomBytes))
    <2>1. /\ blk \in used /\ pa_mmap_list_add(blk) /\ used' = used \ {blk}
          /\ UNCHANGED <<filename, file, pm, pmLen, record, noteLost, mapped,
                         nextSlot, top, lost>>
      BY <1>3 DEF pa_mmap_free
    <2> HIDE DEF blk
    <2>2. \A p : InUse(p)' \/ OnChain(p)' <=> InUse(p) \/ OnChain(p)
      BY <2>1, ReleaseAccounts DEF SoundInv
    <2>3. Accounted'
      BY <2>1, <2>2 DEF SoundInv, Accounted
    <2>4. HeaderPage' /\ MappedKnown'
      BY <2>1 DEF SoundInv, HeaderPage, MappedKnown, CloseUnmaps
    <2> QED
      BY <1>1, <2>3, <2>4 DEF SoundInv
  <1>4. CASE pa_mmap_close
    <2>1. /\ pm # "closed" /\ LetGo /\ UNCHANGED <<nextSlot, noteLost>>
          /\ mapped' = mapped \ (IF record = {} THEN 0 .. (pmLen - 1)
                                 ELSE UNION {Pages(r) : r \in record})
      BY <1>4 DEF pa_mmap_close
    <2>2. pm' = "closed"
      BY <2>1 DEF LetGo
    <2>3. ~noteLost => mapped' = {}
      <3>1. CASE filename
        BY <2>1, <3>1 DEF SoundInv, MappedKnown
      <3>2. CASE ~filename
        BY <2>1, <3>2 DEF SoundInv, MappedKnown
      <3> QED
        BY <3>1, <3>2
    <2>4. MappedKnown'
      BY <2>1, <2>2, <2>3 DEF MappedKnown, CloseUnmaps
    <2> QED
      BY <1>1, <2>1, <2>4, LetGoSound DEF SoundInv
  <1>5. CASE Kill
    <2>1. LetGo /\ mapped' = {} /\ pm' = "closed"
      BY <1>5 DEF Kill, LetGo
    <2>2. MappedKnown'
      BY <2>1 DEF MappedKnown, CloseUnmaps
    <2> QED
      BY <1>1, <2>1, <2>2, LetGoSound DEF SoundInv
  <1>6. CASE UNCHANGED mmapVars
    BY <1>1, <1>6
    DEF mmapVars, SoundInv, Accounted, InUse, OnChain, HeaderPage, MappedKnown,
        CloseUnmaps
  <1> QED
    BY <1>1, <1>2, <1>3, <1>4, <1>5, <1>6, OpenSound DEF Next

\* Whatever fails and whenever the process is killed, every page of the segment
\* is in use, on the chain or known to be lost, the segment is backed by a file
\* of ours or by nothing, and pa_mmap_close unmaps what was mapped.
THEOREM SegmentAlwaysSound == Spec => []SegmentSound
  <1>1. Init => SoundInv
    <2> SUFFICES ASSUME Init PROVE SoundInv
      OBVIOUS
    <2>1. Accounted /\ HeaderPage /\ MappedKnown
      BY DEF Init, NoFile, Accounted, InUse, OnChain, HeaderPage, MappedKnown,
             CloseUnmaps
    <2> QED
      BY <2>1, InitInd DEF SoundInv
  <1>2. SoundInv /\ [Next]_mmapVars => SoundInv'
    BY SoundStep
  <1>3. SoundInv => SegmentSound
    BY AccountedConserved DEF SoundInv, IndInv, SegmentSound, MappedKnown
  <1> QED
    BY <1>1, <1>2, <1>3, PTL DEF Spec

-----------------------------------------------------------------------------
(* The allocator implements PaStore *)

LEMMA HandOutStep ==
    ASSUME IndInv, IndInv', NEW blk, used' = used \cup {blk}, top' >= top
    PROVE  Store!Next
  <1>1. CASE blk \in used
    <2>1. used' = used
      BY <1>1
    <2> QED
      BY <2>1 DEF Store!Next, Store!Extend
  <1>2. CASE blk \notin used
    <2>1. \A c \in used : Apart(blk, c)
      BY <1>2 DEF IndInv, NoOverlap
    <2>2. blk.atom >= 1 /\ blk.size >= 1 /\ blk.atom + blk.size <= top'
      BY DEF IndInv, InSegment
    <2>3. Store!HandOut(blk)
      BY <2>1, <2>2 DEF Store!HandOut, Store!Apart, Apart
    <2> QED
      BY <1>2, <2>3 DEF Store!Next
  <1> QED
    BY <1>1, <1>2

LEMMA AllocStep ==
    ASSUME IndInv, IndInv', NEW size \in Nat, NEW ret \in Nat,
           pa_mmap_alloc(size, ret)
    PROVE  Store!Next
  <1> DEFINE count == pa_items(size, AtomBytes)
             newLen == pmLen + new_count(count)
  <1>1. \/ used' = used
        \/ used' = used \cup {Block(ret, count)}
    BY DEF pa_mmap_alloc
  <1>2. top' >= top
    <2>1. top \in Nat /\ pmLen = top
      BY DEF pa_mmap_alloc, Writable, IndInv, TypeOK, InSegment
    <2>2. CASE size > 0 /\ GrowDone(count, newLen)
      <3>1. count \in Nat
        BY <2>2, MmapAssumption, ItemsPositive
      <3> HIDE DEF count
      <3>2. new_count(count) \in Nat
        BY <3>1, MmapAssumption, RoundupEnough DEF new_count
      <3> QED
        BY <2>1, <2>2, <3>2 DEF GrowDone
    <2>3. CASE ~(size > 0 /\ GrowDone(count, newLen))
      <3>1. UNCHANGED top
        BY <2>3 DEF pa_mmap_alloc, NothingDone, GrowHalfDone
      <3> QED
        BY <2>1, <3>1
    <2> QED
      BY <2>2, <2>3
  <1>3. CASE used' = used
    BY <1>2, <1>3 DEF Store!Next, Store!Extend
  <1>4. CASE used' = used \cup {Block(ret, count)}
    BY <1>2, <1>4, HandOutStep
  <1> QED
    BY <1>1, <1>3, <1>4

LEMMA LetGoStep ==
    ASSUME IndInv, LetGo
    PROVE  Store!Next
  <1>1. CASE filename
    BY <1>1 DEF LetGo, IndInv, TypeOK, Store!Next, Store!Extend
  <1>2. CASE ~filename
    BY <1>2 DEF LetGo, Store!Next, Store!Vanish
  <1> QED
    BY <1>1, <1>2

LEMMA StoreStep ==
    ASSUME IndInv, IndInv', [Next]_mmapVars
    PROVE  [Store!Next]_(Store!storeVars)
  <1>1. ASSUME NEW size \in ReqSizes, NEW ret \in 0 .. LenBound,
               pa_mmap_alloc(size, ret)
        PROVE  Store!Next
    <2>1. size \in Nat /\ ret \in Nat
      BY MmapAssumption
    <2> QED
      BY <1>1, <2>1, AllocStep
  <1>2. ASSUME NEW atom \in 1 .. LenBound, NEW size \in ReqSizes,
               pa_mmap_free(atom, size)
        PROVE  Store!Next
    <2> DEFINE blk == Block(atom, pa_items(size, AtomBytes))
    <2>1. blk \in used /\ used' = used \ {blk} /\ UNCHANGED top
      BY <1>2 DEF pa_mmap_free
    <2> HIDE DEF blk
    <2> QED
      BY <2>1 DEF Store!Next, Store!TakeBack
  <1>3. CASE Create \/ CreateNoHandle \/ CreateHalfDone
    <2>1. used' = used
      BY <1>3 DEF Create, CreateNoHandle, CreateHalfDone
    <2>2. top = 0
      BY <1>3 DEF Create, CreateNoHandle, CreateHalfDone, IndInv, Backed
    <2>3. top' \in Nat
      BY DEF IndInv, TypeOK
    <2> QED
      BY <2>1, <2>2, <2>3 DEF Store!Next, Store!Extend
  <1>4. ASSUME NEW mode \in {"ro", "rw"}, OpenExisting(mode)
        PROVE  Store!Next
    <2>1. used' = used /\ top' = file.len
      BY <1>4 DEF OpenExisting
    <2>2. file.len \in Nat /\ top \in Nat /\ top <= file.len
      BY <1>4 DEF OpenExisting, IndInv, TypeOK, InSegment, Backed
    <2> QED
      BY <2>1, <2>2 DEF Store!Next, Store!Extend
  <1>5. CASE OpenFails
    BY <1>5 DEF OpenFails, Store!storeVars
  <1>6. CASE pa_mmap_close \/ Kill
    BY <1>6, LetGoStep DEF pa_mmap_close, Kill
  <1>7. CASE UNCHANGED mmapVars
    BY <1>7 DEF mmapVars, Store!storeVars
  <1> QED
    BY <1>1, <1>2, <1>3, <1>4, <1>5, <1>6, <1>7 DEF Next

\* Seen as a set of blocks in use and a size, the allocator of pammap.c is the
\* page store that the tables above it are written against.
THEOREM ImplementsStore == Spec => StoreSpec
  <1>1. Init => Store!Init
    BY DEF Init, Store!Init
  <1>2. IndInv /\ IndInv' /\ [Next]_mmapVars => [Store!Next]_(Store!storeVars)
    BY StoreStep
  <1> QED
    BY <1>1, <1>2, Invariance, PTL DEF Spec, StoreSpec, Store!Spec
=============================================================================
