----------------------------- MODULE PdbProofs -----------------------------
(***************************************************************************)
(* Proofs about the users of ParrotDB's pages, for every size of atoms,    *)
(* pages, tables, slots and requests: immutable strings, named headers,    *)
(* blocks of arbitrary size and patricia trees, with every set of keys and *)
(* prefixes of up to 256 bytes in every order in which they are added.     *)
(***************************************************************************)
EXTENDS Pdb, ProofFacts, FiniteSets, FiniteSetTheorems, SequenceTheorems

-----------------------------------------------------------------------------
(* Immutable strings *)

\* The proofs are about a table that is opened at most once, for strings whose
\* characters are of the lower half: a reopened table accepts strings that it
\* does not store, and a character of the upper half has an atom that is read
\* as another's.
OneOpening ==
    /\ MaxOpens \in {0, 1}
    /\ \A byte \in ShortBytes : byte < ByteValues \div 2
    /\ ByteValues <= Word

MaxAtoms == PageSlots * PerPage

TextType == [block : Nat \ {0}, off : Nat, atoms : Nat \ {0}, len : Nat]

TextApart(t, u) ==
    t.block # u.block \/ t.off + t.atoms <= u.off \/ u.off + u.atoms <= t.off

TextsSound(bl, tx) ==
    /\ tx \subseteq TextType
    /\ \A t \in tx : t.block \in DOMAIN bl /\ t.off + t.atoms <= bl[t.block]
    /\ \A t, u \in tx : t = u \/ TextApart(t, u)

\* Every block is at least a page, and in one slot of the page table at most.
PagesSound(bl, pg) ==
    /\ bl \in Seq(Nat \ {0})
    /\ \A b \in DOMAIN bl : PerPage <= bl[b]
    /\ pg \in [0 .. (PageSlots - 1) -> 0 .. Len(bl)]
    /\ pg[0] = 0
    /\ \A s, r \in 0 .. (PageSlots - 1) : pg[s] = pg[r] /\ pg[s] # 0 => s = r

\* What is left for later strings: nothing, or the end of one slot's page that
\* no string is in.
RestSound(pg, tx, free, left) ==
    \/ free = 0 /\ left = 0
    \/ \E s \in 1 .. (PageSlots - 1), r \in 0 .. (PerPage - 1) :
          /\ pg[s] # 0 /\ free = PerPage * s + r /\ left \in Nat /\ r + left <= PerPage
          /\ left < PerPage
          /\ \A t \in tx : t.block = pg[s] => t.off + t.atoms <= r \/ r + left <= t.off

\* Where an atom of string data is.
Stored(atom, t, pg) ==
    /\ atom \in 1 .. (MaxAtoms - 1)
    /\ pg[atom \div PerPage] # 0
    /\ t.block = pg[atom \div PerPage] /\ t.off = atom % PerPage

GivenType == Nat \X (({"long"} \X Nat) \cup ({"short"} \X Nat))

\* What callers were given: a short string's number, or the number of an index
\* entry that leads to the string.
GivenRight(x, ix, pg, tx) ==
    \/ \E byte \in Nat : byte + 1 < ByteValues /\ x = <<byte + 1, Istr!Short(byte)>>
    \/ \E k \in DOMAIN ix, t \in tx :
          x = <<k + ByteValues, Istr!Text(t.len)>> /\ Stored(ix[k], t, pg)

IndexSound(ix, gv, pg, tx) ==
    /\ ix \in Seq(1 .. (MaxAtoms - 1))
    /\ gv \in Seq(GivenType)
    /\ \A i \in DOMAIN gv : GivenRight(gv[i], ix, pg, tx)

StringsInv ==
    /\ istr \in {"closed", "open", "nobase"} /\ opens \in 0 .. MaxOpens
    /\ istr # "closed" => opens = 1
    /\ PagesSound(block, page)
    /\ TextsSound(block, text)
    /\ RestSound(page, text, pi_free, pi_left)
    /\ IndexSound(index, given, page, text)
    /\ opens = 0 => block = <<>> /\ text = {} /\ pi_left = 0 /\ index = <<>> /\ given = <<>>
    /\ istr = "nobase" => pi_left = 0 /\ index = <<>>

-----------------------------------------------------------------------------
LEMMA IstrConstants ==
    /\ {TextBytes, PerPage, PageSlots, ByteValues, Word} \subseteq Nat \ {0}
    /\ {MaxIndex, MaxOpens} \subseteq Nat
    /\ Lengths \subseteq Nat \ {0, 1}
    /\ ShortBytes \subseteq 0 .. (ByteValues - 1)
    /\ MaxAtoms \in Nat \ {0}
  <1>1. Istr!IstrAssumption
    BY PdbAssumption
  <1> QED
    BY <1>1 DEF Istr!IstrAssumption, MaxAtoms

LEMMA AtomNames == Istr!NullAtom = 0 /\ Istr!MaxAtoms = MaxAtoms
                   /\ Istr!PA_SHORT_STRINGS_MAX = ByteValues
  BY DEF Istr!NullAtom, Istr!MaxAtoms, MaxAtoms, Istr!PA_SHORT_STRINGS_MAX

\* An atom names a slot and an offset in its page.
LEMMA SlotAtom ==
    ASSUME NEW s \in 1 .. (PageSlots - 1), NEW r \in 0 .. (PerPage - 1)
    PROVE  /\ PerPage * s + r \in 1 .. (MaxAtoms - 1)
           /\ (PerPage * s + r) \div PerPage = s /\ (PerPage * s + r) % PerPage = r
  <1>1. PerPage \in Nat \ {0} /\ PageSlots \in Nat /\ s \in Nat /\ s >= 1 /\ s + 1 <= PageSlots
    BY IstrConstants
  <1>2. (PerPage * s + r) \div PerPage = s /\ (PerPage * s + r) % PerPage = r
    BY <1>1, DivisionUnique
  <1>3. PerPage * s + r >= PerPage
    BY <1>1
  <1>4. PerPage * (s + 1) <= PerPage * PageSlots
    BY <1>1
  <1>5. PerPage * (s + 1) = PerPage * s + PerPage /\ PerPage * PageSlots = MaxAtoms
    BY <1>1 DEF MaxAtoms
  <1>6. PerPage * s \in Nat /\ MaxAtoms \in Nat
    BY <1>1, IstrConstants
  <1> QED
    BY <1>1, <1>2, <1>3, <1>4, <1>5, <1>6

LEMMA AtomSlot ==
    ASSUME NEW a \in 1 .. (MaxAtoms - 1)
    PROVE  a \div PerPage \in 0 .. (PageSlots - 1) /\ a % PerPage \in 0 .. (PerPage - 1)
  <1> DEFINE q == a \div PerPage
             r == a % PerPage
  <1>1. PerPage \in Nat \ {0} /\ PageSlots \in Nat /\ MaxAtoms \in Nat /\ a \in Nat
        /\ MaxAtoms = PerPage * PageSlots
    BY IstrConstants DEF MaxAtoms
  <1>2. q \in Nat /\ r \in 0 .. (PerPage - 1) /\ a = PerPage * q + r
    BY <1>1, DivisionFacts
  <1> HIDE DEF q, r
  <1>3. q < PageSlots
    <2> SUFFICES ASSUME q >= PageSlots PROVE FALSE
      BY <1>1, <1>2
    <2>1. PerPage * q >= PerPage * PageSlots
      BY <1>1, <1>2
    <2>2. PerPage * q \in Nat
      BY <1>1, <1>2
    <2> QED
      BY <1>1, <1>2, <2>1, <2>2
  <1> QED
    BY <1>1, <1>2, <1>3 DEF q, r

\* A string takes an atom at least, and pages enough for its atoms.
LEMMA StringSize ==
    ASSUME NEW len \in Lengths
    PROVE  LET count == Istr!pa_items(len + 1, TextBytes)
               size == Istr!pa_roundup(count, PerPage)
           IN  /\ count \in Nat \ {0} /\ size \in Nat
               /\ count <= size /\ PerPage <= size
  <1> DEFINE count == Istr!pa_items(len + 1, TextBytes)
             q == (count + PerPage - 1) \div PerPage
             r == (count + PerPage - 1) % PerPage
  <1>1. len \in Nat /\ len >= 2 /\ TextBytes \in Nat \ {0} /\ PerPage \in Nat \ {0}
    BY IstrConstants
  <1>2. count \in Nat \ {0}
    <2> DEFINE n == len + 1 + TextBytes - 1
               c == n \div TextBytes
    <2>1. n \in Nat /\ n >= TextBytes
      BY <1>1
    <2>2. c \in Nat /\ n % TextBytes \in 0 .. (TextBytes - 1) /\ n = TextBytes * c + (n % TextBytes)
      BY <1>1, <2>1, DivisionFacts
    <2>3. count = c
      BY DEF Istr!pa_items
    <2> HIDE DEF n, c, count
    <2>4. c # 0
      BY <1>1, <2>1, <2>2
    <2> QED
      BY <2>2, <2>3, <2>4
  <1> HIDE DEF count
  <1>3. /\ q \in Nat /\ r \in 0 .. (PerPage - 1)
        /\ count + PerPage - 1 = PerPage * q + r
    <2>1. count + PerPage - 1 \in Nat
      BY <1>1, <1>2
    <2> QED
      BY <1>1, <2>1, DivisionFacts
  <1>4. Istr!pa_roundup(count, PerPage) = q * PerPage
    BY DEF Istr!pa_roundup
  <1> HIDE DEF q, r
  <1>5. q # 0
    BY <1>1, <1>2, <1>3
  <1>6. q * PerPage = PerPage * q /\ PerPage * q \in Nat /\ PerPage <= PerPage * q
    BY <1>1, <1>3, <1>5
  <1>7. count <= PerPage * q
    BY <1>1, <1>2, <1>3, <1>6
  <1> QED
    BY <1>2, <1>4, <1>6, <1>7 DEF count

-----------------------------------------------------------------------------
(* Steps *)

\* What callers were given stays right when slots and strings are added.
LEMMA GivenStays ==
    ASSUME NEW ix, NEW gv, NEW pg, NEW tx, IndexSound(ix, gv, pg, tx),
           NEW pg1, NEW tx1, tx \subseteq tx1,
           \A s \in 0 .. (PageSlots - 1) : pg[s] # 0 => pg1[s] = pg[s]
    PROVE  IndexSound(ix, gv, pg1, tx1)
  <1>1. ASSUME NEW k \in DOMAIN ix, NEW t \in tx, Stored(ix[k], t, pg)
        PROVE  Stored(ix[k], t, pg1)
    BY <1>1, AtomSlot DEF Stored
  <1>2. ASSUME NEW x, GivenRight(x, ix, pg, tx)
        PROVE  GivenRight(x, ix, pg1, tx1)
    BY <1>1, <1>2 DEF GivenRight
  <1> QED
    BY <1>2 DEF IndexSound

LEMMA IndexGrows ==
    ASSUME NEW ix, NEW gv, NEW pg, NEW tx, IndexSound(ix, gv, pg, tx),
           NEW atom, NEW t \in tx, Stored(atom, t, pg), t.len \in Nat
    PROVE  IndexSound(Append(ix, atom),
                      Append(gv, <<Len(ix) + 1 + ByteValues, Istr!Text(t.len)>>), pg, tx)
  <1> DEFINE ix1 == Append(ix, atom)
             x == <<Len(ix) + 1 + ByteValues, Istr!Text(t.len)>>
             gv1 == Append(gv, x)
  <1>1. /\ ix \in Seq(1 .. (MaxAtoms - 1)) /\ gv \in Seq(GivenType)
        /\ \A i \in DOMAIN gv : GivenRight(gv[i], ix, pg, tx)
        /\ atom \in 1 .. (MaxAtoms - 1)
    BY DEF IndexSound, Stored
  <1>2. /\ ix1 \in Seq(1 .. (MaxAtoms - 1))
        /\ DOMAIN ix1 = DOMAIN ix \cup {Len(ix) + 1}
        /\ \A k \in DOMAIN ix : ix1[k] = ix[k]
        /\ ix1[Len(ix) + 1] = atom
    BY <1>1
  <1>3. x \in GivenType
    <2>1. Len(ix) + 1 + ByteValues \in Nat
      BY <1>1, IstrConstants
    <2> QED
      BY <2>1 DEF GivenType, Istr!Text
  <1>4. GivenRight(x, ix1, pg, tx)
    <2>1. Len(ix) + 1 \in DOMAIN ix1 /\ Stored(ix1[Len(ix) + 1], t, pg)
      BY <1>2
    <2> HIDE DEF ix1
    <2> QED
      BY <2>1 DEF GivenRight
  <1> HIDE DEF ix1, x
  <1>5. ASSUME NEW y, GivenRight(y, ix, pg, tx)
        PROVE  GivenRight(y, ix1, pg, tx)
    BY <1>2, <1>5 DEF GivenRight
  <1>6. /\ gv1 \in Seq(GivenType)
        /\ DOMAIN gv1 = DOMAIN gv \cup {Len(gv) + 1}
        /\ \A k \in DOMAIN gv : gv1[k] = gv[k]
        /\ gv1[Len(gv) + 1] = x
    BY <1>1, <1>3
  <1>7. \A i \in DOMAIN gv1 : GivenRight(gv1[i], ix1, pg, tx)
    BY <1>1, <1>4, <1>5, <1>6
  <1> QED
    BY <1>2, <1>6, <1>7 DEF IndexSound, ix1, x

\* The index entry for a string that was stored.
LEMMA ToIndexSound ==
    ASSUME IndexSound(index, given, page', text'), NEW atom, NEW t \in text',
           Stored(atom, t, page'), t.len \in Nat, Istr!ToIndex(atom, t.len)
    PROVE  IndexSound(index', given', page', text')
  <1>1. CASE UNCHANGED <<index, given>>
    BY <1>1
  <1>2. CASE /\ index' = Append(index, atom)
             /\ given' = Append(given, <<Len(index) + 1 + ByteValues, Istr!Text(t.len)>>)
    BY <1>2, IndexGrows
  <1> QED
    BY <1>1, <1>2, AtomNames DEF Istr!ToIndex

\* A string where no other is.
LEMMA TextAdded ==
    ASSUME NEW bl, NEW tx, TextsSound(bl, tx), NEW t \in TextType,
           t.block \in DOMAIN bl, t.off + t.atoms <= bl[t.block],
           \A u \in tx : TextApart(t, u)
    PROVE  TextsSound(bl, tx \cup {t})
  <1>1. \A u \in tx : TextApart(u, t)
    BY DEF TextApart
  <1> QED
    BY <1>1 DEF TextsSound

LEMMA InPageSound ==
    ASSUME StringsInv, NEW len \in Lengths, Istr!StoreInPage(len),
           UNCHANGED <<istr, opens>>, istr # "closed"
    PROVE  StringsInv'
  <1> DEFINE count == Istr!pa_items(len + 1, TextBytes)
             atom == pi_free + pi_left - count
  <1>1. /\ count <= pi_left /\ pi_left' = pi_left - count
        /\ text' = Istr!Written(atom, len)
        /\ Istr!ToIndex(atom, len)
        /\ UNCHANGED <<block, page, pi_free>>
    BY DEF Istr!StoreInPage
  <1>2. count \in Nat \ {0} /\ len \in Nat /\ PerPage \in Nat \ {0}
    BY StringSize, IstrConstants
  <1>3. PagesSound(block, page) /\ TextsSound(block, text) /\ pi_left # 0
    BY <1>1, <1>2 DEF StringsInv, RestSound
  <1>4. PICK s \in 1 .. (PageSlots - 1), r \in 0 .. (PerPage - 1) :
          /\ page[s] # 0 /\ pi_free = PerPage * s + r /\ pi_left \in Nat
          /\ r + pi_left <= PerPage /\ pi_left < PerPage
          /\ \A t \in text : t.block = page[s] => t.off + t.atoms <= r \/ r + pi_left <= t.off
    BY <1>3 DEF StringsInv, RestSound
  <1> HIDE DEF count
  <1> DEFINE off == r + pi_left - count
             t == [block |-> page[s], off |-> off, atoms |-> count, len |-> len]
  <1>5. off \in 0 .. (PerPage - 1) /\ atom = PerPage * s + off
    <2>1. s \in Nat /\ r \in Nat /\ PerPage * s \in Nat
      BY <1>2
    <2> QED
      BY <1>1, <1>2, <1>4, <2>1
  <1>6. /\ atom \in 1 .. (MaxAtoms - 1) /\ atom \div PerPage = s /\ atom % PerPage = off
    BY <1>5, SlotAtom
  <1> HIDE DEF atom
  <1>7. istr = "open"
    BY <1>3 DEF StringsInv
  <1>8. text' = text \cup {t}
    <2>1. Istr!DataHasAddr(atom)
      BY <1>4, <1>6, <1>7, AtomNames, IstrConstants DEF Istr!DataHasAddr
    <2> QED
      BY <1>1, <1>6, <2>1 DEF Istr!Written, Istr!DataAt, count
  <1>9. /\ page[s] \in DOMAIN block /\ PerPage <= block[page[s]]
        /\ block[page[s]] \in Nat
    <2>1. s \in 0 .. (PageSlots - 1)
      BY IstrConstants
    <2> QED
      BY <1>3, <1>4, <2>1 DEF PagesSound
  <1>10. t \in TextType
    BY <1>2, <1>5, <1>9, <1>3 DEF TextType, PagesSound
  <1>11. TextsSound(block, text')
    <2>1. t.off + t.atoms <= block[t.block]
      BY <1>1, <1>2, <1>4, <1>9
    <2>2. ASSUME NEW u \in text PROVE TextApart(t, u)
      <3>1. u \in TextType
        BY <1>3 DEF TextsSound
      <3>2. u.off \in Nat /\ u.atoms \in Nat
        BY <3>1 DEF TextType
      <3>3. u.block = page[s] => u.off + u.atoms <= r \/ r + pi_left <= u.off
        BY <1>4
      <3> QED
        BY <1>1, <1>2, <1>4, <3>2, <3>3 DEF TextApart
    <2> HIDE DEF t
    <2> QED
      BY <1>3, <1>8, <1>9, <1>10, <2>1, <2>2, TextAdded DEF t
  <1>12. RestSound(page', text', pi_free', pi_left')
    <2> DEFINE left == pi_left - count
    <2>1. left \in Nat /\ r + left <= PerPage /\ left < PerPage /\ left <= pi_left
          /\ off = r + left
      BY <1>1, <1>2, <1>4
    <2>2. ASSUME NEW u \in text', u.block = page[s]
          PROVE  u.off + u.atoms <= r \/ r + left <= u.off
      <3>1. CASE u = t
        BY <2>1, <3>1
      <3>2. CASE u \in text
        <4>1. u \in TextType
          BY <1>3, <3>2 DEF TextsSound
        <4>2. u.off \in Nat /\ u.atoms \in Nat
          BY <4>1 DEF TextType
        <4> QED
          BY <1>4, <2>1, <2>2, <3>2, <4>2
      <3> QED
        BY <1>8, <3>1, <3>2
    <2> QED
      BY <1>1, <1>4, <2>1, <2>2 DEF RestSound
  <1>13. IndexSound(index', given', page', text')
    <2>1. IndexSound(index, given, page', text')
      <3>1. IndexSound(index, given, page, text) /\ text \subseteq text'
        BY <1>8 DEF StringsInv
      <3> HIDE DEF t
      <3> QED
        BY <1>1, <3>1, GivenStays
    <2>2. Stored(atom, t, page') /\ t \in text' /\ t.len = len
      BY <1>1, <1>4, <1>6, <1>8 DEF Stored
    <2> HIDE DEF t
    <2> QED
      BY <1>1, <1>2, <2>1, <2>2, ToIndexSound
  <1>14. opens # 0 /\ istr # "nobase"
    BY <1>7 DEF StringsInv
  <1> QED
    BY <1>1, <1>3, <1>11, <1>12, <1>13, <1>14 DEF StringsInv

LEMMA InNewSound ==
    ASSUME StringsInv, NEW len \in Lengths, Istr!StoreInNew(len), istr = "open",
           UNCHANGED <<istr, opens>>
    PROVE  StringsInv'
  <1> DEFINE count == Istr!pa_items(len + 1, TextBytes)
             size == Istr!pa_roundup(count, PerPage)
             new == Len(block) + 1
             t == [block |-> new, off |-> 0, atoms |-> count, len |-> len]
  <1>1. PICK s \in Istr!FreeSlots :
          /\ block' = Append(block, size)
          /\ page' = [page EXCEPT ![s] = new]
          /\ \/ /\ size <= PerPage /\ count < size
                /\ pi_left' = PerPage - count /\ pi_free' = s * PerPage + count
             \/ UNCHANGED <<pi_left, pi_free>>
          /\ text' = text \cup {t}
          /\ Istr!ToIndex(s * PerPage, len)
    BY DEF Istr!StoreInNew
  <1>2. /\ count \in Nat \ {0} /\ size \in Nat /\ count <= size /\ PerPage <= size
        /\ len \in Nat /\ PerPage \in Nat \ {0} /\ PageSlots \in Nat \ {0}
    BY StringSize, IstrConstants
  <1> HIDE DEF count, size
  <1>3. s \in 1 .. (PageSlots - 1) /\ s \in 0 .. (PageSlots - 1) /\ page[s] = 0
    BY <1>2 DEF Istr!FreeSlots
  <1>4. /\ PagesSound(block, page) /\ TextsSound(block, text)
        /\ RestSound(page, text, pi_free, pi_left) /\ IndexSound(index, given, page, text)
    BY DEF StringsInv
  <1>5. /\ block \in Seq(Nat \ {0}) /\ Len(block) \in Nat /\ DOMAIN block = 1 .. Len(block)
        /\ page \in [0 .. (PageSlots - 1) -> 0 .. Len(block)]
    BY <1>4 DEF PagesSound
  <1>6. /\ block' \in Seq(Nat \ {0}) /\ Len(block') = new /\ new \in DOMAIN block'
        /\ DOMAIN block' = DOMAIN block \cup {new}
        /\ block'[new] = size /\ \A b \in DOMAIN block : block'[b] = block[b]
    <2>1. size \in Nat \ {0}
      BY <1>2
    <2> QED
      BY <1>1, <1>5, <2>1
  <1>7. /\ page' \in [0 .. (PageSlots - 1) -> 0 .. new] /\ page'[s] = new
        /\ \A r \in 0 .. (PageSlots - 1) : r # s => page'[r] = page[r] /\ page[r] # new
    <2>1. \A r \in 0 .. (PageSlots - 1) : page[r] \in 0 .. Len(block) /\ page[r] # new
      BY <1>5
    <2>2. 0 .. Len(block) \subseteq 0 .. new /\ new \in 0 .. new
      BY <1>5
    <2> HIDE DEF new
    <2> QED
      BY <1>1, <1>3, <1>5, <2>1, <2>2
  <1>8. \A u \in text : u.block # new /\ u.block \in DOMAIN block
    BY <1>4, <1>5 DEF TextsSound
  <1>9. new \in Nat \ {0}
    BY <1>5
  <1> HIDE DEF new
  <1>10. PagesSound(block', page')
    <2>1. \A b \in DOMAIN block' : PerPage <= block'[b]
      BY <1>2, <1>4, <1>6 DEF PagesSound
    <2>2. page'[0] = 0
      BY <1>2, <1>3, <1>4, <1>7 DEF PagesSound
    <2>3. \A q, r \in 0 .. (PageSlots - 1) : page'[q] = page'[r] /\ page'[q] # 0 => q = r
      BY <1>3, <1>4, <1>7 DEF PagesSound
    <2> QED
      BY <1>6, <1>7, <2>1, <2>2, <2>3 DEF PagesSound
  <1>11. t \in TextType /\ t.block = new /\ t.off = 0 /\ t.atoms = count /\ t.len = len
    BY <1>2, <1>9 DEF TextType
  <1> HIDE DEF t
  <1>12. TextsSound(block', text')
    <2>1. TextsSound(block', text)
      BY <1>4, <1>6 DEF TextsSound
    <2>2. t.off + t.atoms <= block'[t.block]
      BY <1>2, <1>6, <1>11
    <2>3. \A u \in text : TextApart(t, u)
      BY <1>8, <1>11 DEF TextApart
    <2> QED
      BY <1>1, <1>6, <1>11, <2>1, <2>2, <2>3, TextAdded
  <1>13. RestSound(page', text', pi_free', pi_left')
    <2>1. CASE /\ size <= PerPage /\ count < size
               /\ pi_left' = PerPage - count /\ pi_free' = s * PerPage + count
      <3>1. count \in 0 .. (PerPage - 1)
        BY <1>2, <2>1
      <3>2. /\ pi_left' \in Nat /\ count + pi_left' <= PerPage /\ pi_left' < PerPage
            /\ pi_free' = PerPage * s + count
        BY <1>2, <1>3, <2>1
      <3>3. \A u \in text' : u.block = new => u.off + u.atoms <= count
        BY <1>1, <1>2, <1>8, <1>11
      <3>4. page'[s] # 0 /\ page'[s] = new
        BY <1>7, <1>9
      <3> QED
        BY <1>3, <3>1, <3>2, <3>3, <3>4 DEF RestSound
    <2>2. CASE UNCHANGED <<pi_left, pi_free>>
      <3>1. CASE pi_free = 0 /\ pi_left = 0
        BY <2>2, <3>1 DEF RestSound
      <3>2. ASSUME NEW q \in 1 .. (PageSlots - 1), NEW r \in 0 .. (PerPage - 1),
                   page[q] # 0, pi_free = PerPage * q + r, pi_left \in Nat,
                   r + pi_left <= PerPage, pi_left < PerPage,
                   \A u \in text : u.block = page[q]
                                     => u.off + u.atoms <= r \/ r + pi_left <= u.off
            PROVE  RestSound(page', text', pi_free', pi_left')
        <4>1. q # s /\ q \in 0 .. (PageSlots - 1)
          BY <1>3, <3>2
        <4>2. page'[q] = page[q] /\ page[q] # new
          BY <1>7, <4>1
        <4>3. \A u \in text' : u.block = page'[q]
                                 => u.off + u.atoms <= r \/ r + pi_left <= u.off
          BY <1>1, <1>11, <3>2, <4>2
        <4> QED
          BY <2>2, <3>2, <4>2, <4>3 DEF RestSound
      <3> QED
        BY <1>4, <3>1, <3>2 DEF RestSound
    <2> QED
      BY <1>1, <2>1, <2>2
  <1>14. IndexSound(index', given', page', text')
    <2>1. IndexSound(index, given, page', text')
      <3>1. text \subseteq text'
        BY <1>1
      <3>2. \A q \in 0 .. (PageSlots - 1) : page[q] # 0 => page'[q] = page[q]
        BY <1>3, <1>7
      <3> QED
        BY <1>4, <3>1, <3>2, GivenStays
    <2> DEFINE atom == s * PerPage
    <2>2. /\ atom \in 1 .. (MaxAtoms - 1)
          /\ atom \div PerPage = s /\ atom % PerPage = 0
      <3>1. 0 \in 0 .. (PerPage - 1) /\ PerPage * s + 0 = s * PerPage
        BY <1>2, <1>3
      <3>2. /\ PerPage * s + 0 \in 1 .. (MaxAtoms - 1)
            /\ (PerPage * s + 0) \div PerPage = s /\ (PerPage * s + 0) % PerPage = 0
        BY <1>3, <3>1, SlotAtom
      <3> QED
        BY <3>1, <3>2
    <2> HIDE DEF atom
    <2>3. Stored(atom, t, page') /\ t \in text' /\ t.len = len
      BY <1>1, <1>7, <1>9, <1>11, <2>2 DEF Stored
    <2>4. Istr!ToIndex(atom, t.len)
      BY <1>1, <2>3 DEF atom
    <2> QED
      BY <1>2, <2>1, <2>3, <2>4, ToIndexSound
  <1>15. opens # 0 /\ istr # "nobase"
    BY DEF StringsInv
  <1> QED
    BY <1>10, <1>12, <1>13, <1>14, <1>15 DEF StringsInv

LEMMA ShortSound ==
    ASSUME OneOpening, StringsInv, NEW byte \in ShortBytes, Istr!pa_istr_nshort(byte)
    PROVE  StringsInv'
  <1> DEFINE x == <<byte + 1, Istr!Short(byte)>>
  <1>1. /\ byte \in Nat /\ byte < ByteValues \div 2 /\ ByteValues \in Nat \ {0}
        /\ Word \in Nat /\ ByteValues <= Word
    BY IstrConstants DEF OneOpening
  <1>2. byte + 1 < ByteValues
    <2>1. ByteValues \div 2 \in Nat /\ 2 * (ByteValues \div 2) <= ByteValues
      BY <1>1, DivisionFacts
    <2> QED
      BY <1>1, <2>1
  <1>3. Istr!pa_short_string_atom(byte) = byte + 1
    <2>1. Istr!pa_short_string_atom(byte) = (1 + byte) % Word
      BY <1>1 DEF Istr!pa_short_string_atom
    <2>2. Word * 0 + (1 + byte) = 1 + byte /\ 1 + byte \in 0 .. (Word - 1) /\ Word \in Nat \ {0}
      BY <1>1, <1>2
    <2>3. (1 + byte) % Word = 1 + byte
      BY <2>2, DivisionUnique
    <2> QED
      BY <1>1, <2>1, <2>3
  <1>4. /\ istr # "closed"
        /\ given' = Append(given, x)
        /\ UNCHANGED <<istr, opens, block, page, pi_free, pi_left, text, index>>
    BY <1>1, <1>3, AtomNames DEF Istr!pa_istr_nshort, Istr!StoreShort
  <1>5. IndexSound(index, given, page, text)
    BY DEF StringsInv
  <1>6. x \in GivenType /\ GivenRight(x, index, page, text)
    BY <1>1, <1>2 DEF GivenType, GivenRight, Istr!Short
  <1> HIDE DEF x
  <1>7. IndexSound(index', given', page', text')
    <2>1. /\ given' \in Seq(GivenType) /\ given \in Seq(GivenType)
          /\ DOMAIN given' = DOMAIN given \cup {Len(given) + 1}
          /\ \A k \in DOMAIN given : given'[k] = given[k]
          /\ given'[Len(given) + 1] = x
      BY <1>4, <1>5, <1>6 DEF IndexSound
    <2> QED
      BY <1>4, <1>5, <1>6, <2>1 DEF IndexSound
  <1>8. opens # 0
    BY <1>4 DEF StringsInv
  <1> QED
    BY <1>4, <1>7, <1>8 DEF StringsInv

LEMMA StringSound ==
    ASSUME OneOpening, StringsInv, NEW len \in Lengths, Istr!pa_istr_nstring(len)
    PROVE  StringsInv'
  <1>1. istr # "closed" /\ UNCHANGED opens
    BY DEF Istr!pa_istr_nstring
  <1>2. CASE Istr!StoreInPage(len) /\ UNCHANGED istr
    BY <1>1, <1>2, InPageSound
  <1>3. CASE istr = "open" /\ Istr!StoreInNew(len) /\ UNCHANGED istr
    BY <1>1, <1>3, InNewSound
  <1>4. CASE Istr!StoreNothing(len) /\ UNCHANGED istr
    BY <1>1, <1>4 DEF Istr!StoreNothing, StringsInv
  <1>5. ~(opens > 1)
    BY DEF OneOpening, StringsInv
  <1> QED
    BY <1>2, <1>3, <1>4, <1>5 DEF Istr!pa_istr_nstring

LEMMA NoStrings ==
    ASSUME NEW free, free = 0
    PROVE  LET pg == [s \in 0 .. (PageSlots - 1) |-> 0]
           IN  /\ PagesSound(<<>>, pg) /\ TextsSound(<<>>, {})
               /\ RestSound(pg, {}, free, 0) /\ IndexSound(<<>>, <<>>, pg, {})
  <1> DEFINE pg == [s \in 0 .. (PageSlots - 1) |-> 0]
  <1>1. PageSlots \in Nat \ {0}
    BY IstrConstants
  <1>2. /\ <<>> \in Seq(Nat \ {0}) /\ DOMAIN <<>> = {} /\ Len(<<>>) = 0
        /\ <<>> \in Seq(1 .. (MaxAtoms - 1)) /\ <<>> \in Seq(GivenType)
    OBVIOUS
  <1>3. /\ pg \in [0 .. (PageSlots - 1) -> 0 .. 0] /\ pg[0] = 0
        /\ \A s \in 0 .. (PageSlots - 1) : pg[s] = 0
    BY <1>1
  <1> HIDE DEF pg
  <1>4. PagesSound(<<>>, pg)
    BY <1>2, <1>3 DEF PagesSound
  <1>5. TextsSound(<<>>, {}) /\ RestSound(pg, {}, free, 0)
    BY DEF TextsSound, RestSound
  <1>6. IndexSound(<<>>, <<>>, pg, {})
    BY <1>2 DEF IndexSound
  <1> QED
    BY <1>4, <1>5, <1>6 DEF pg

LEMMA OpenSound ==
    ASSUME OneOpening, StringsInv, Istr!pa_istr_open
    PROVE  StringsInv'
  <1>1. /\ istr = "closed" /\ opens < MaxOpens /\ opens' = opens + 1
        /\ \/ /\ istr' = "open" /\ page' = [s \in 0 .. (PageSlots - 1) |-> 0]
              /\ pi_free' = 0
           \/ istr' = "nobase" /\ UNCHANGED <<page, pi_free>>
        /\ index' = <<>> /\ given' = <<>> /\ UNCHANGED <<block, pi_left, text>>
    BY AtomNames DEF Istr!pa_istr_open
  <1>2. opens = 0 /\ MaxOpens = 1 /\ opens' = 1 /\ opens' \in 0 .. MaxOpens
    BY <1>1 DEF OneOpening, StringsInv
  <1>3. /\ block = <<>> /\ text = {} /\ pi_left = 0 /\ index = <<>> /\ given = <<>>
        /\ PagesSound(block, page) /\ RestSound(page, text, pi_free, pi_left)
        /\ IndexSound(index, given, page, text)
    BY <1>2 DEF StringsInv
  <1>4. CASE istr' = "nobase" /\ UNCHANGED <<page, pi_free>>
    BY <1>1, <1>2, <1>3, <1>4 DEF StringsInv
  <1>5. CASE /\ istr' = "open" /\ page' = [s \in 0 .. (PageSlots - 1) |-> 0]
             /\ pi_free' = 0
    <2> DEFINE pg == [s \in 0 .. (PageSlots - 1) |-> 0]
    <2>1. /\ PagesSound(<<>>, pg) /\ TextsSound(<<>>, {})
          /\ RestSound(pg, {}, 0, 0) /\ IndexSound(<<>>, <<>>, pg, {})
      BY NoStrings
    <2>2. /\ PagesSound(block', page') /\ TextsSound(block', text')
          /\ RestSound(page', text', pi_free', pi_left') /\ IndexSound(index', given', page', text')
      BY <1>1, <1>3, <1>5, <2>1
    <2> QED
      BY <1>1, <1>2, <1>3, <1>5, <2>2 DEF StringsInv
  <1> QED
    BY <1>1, <1>4, <1>5

LEMMA StringsNext ==
    ASSUME OneOpening, StringsInv, [Istr!Next]_iv
    PROVE  StringsInv'
  <1>1. CASE Istr!pa_istr_close
    BY <1>1 DEF Istr!pa_istr_close, StringsInv
  <1>2. CASE UNCHANGED iv
    BY <1>2 DEF iv, StringsInv
  <1> QED
    BY <1>1, <1>2, StringSound, ShortSound, OpenSound DEF Istr!Next

LEMMA StringsInit == OneOpening /\ Istr!Init => StringsInv
  <1> SUFFICES ASSUME OneOpening, Istr!Init PROVE StringsInv
    OBVIOUS
  <1>1. /\ istr = "closed" /\ opens = 0 /\ block = <<>> /\ page = [s \in 0 .. (PageSlots - 1) |-> 0]
        /\ pi_free = 0 /\ pi_left = 0 /\ text = {} /\ index = <<>> /\ given = <<>>
    BY AtomNames DEF Istr!Init
  <1>2. opens \in 0 .. MaxOpens
    BY <1>1 DEF OneOpening
  <1> QED
    BY <1>1, <1>2, NoStrings DEF StringsInv

LEMMA StringsSorted ==
    ASSUME StringsInv
    PROVE  Istr!TypeOK
  <1>1. /\ PagesSound(block, page) /\ RestSound(page, text, pi_free, pi_left)
        /\ IndexSound(index, given, page, text)
    BY DEF StringsInv
  <1>2. PerPage \in Nat \ {0} /\ MaxAtoms \in Nat \ {0}
    BY IstrConstants
  <1>3. pi_free \in 0 .. (MaxAtoms - 1) /\ pi_left \in 0 .. (PerPage - 1)
    <2>1. \A s \in 1 .. (PageSlots - 1), r \in 0 .. (PerPage - 1) :
             PerPage * s + r \in 0 .. (MaxAtoms - 1)
      BY <1>2, SlotAtom
    <2>2. CASE pi_free = 0 /\ pi_left = 0
      BY <1>2, <2>2
    <2>3. CASE ~(pi_free = 0 /\ pi_left = 0)
      <3>1. PICK s \in 1 .. (PageSlots - 1), r \in 0 .. (PerPage - 1) :
               pi_free = PerPage * s + r /\ pi_left \in Nat /\ pi_left < PerPage
        BY <1>1, <2>3 DEF RestSound
      <3>2. pi_free \in 0 .. (MaxAtoms - 1)
        BY <2>1, <3>1
      <3>3. pi_left \in 0 .. (PerPage - 1)
        BY <1>2, <3>1
      <3> QED
        BY <3>2, <3>3
    <2> QED
      BY <2>2, <2>3
  <1>4. \A i \in DOMAIN index : index[i] \in 0 .. (MaxAtoms - 1)
    <2> DEFINE S == 1 .. (MaxAtoms - 1)
    <2>1. index \in Seq(S)
      BY <1>1 DEF IndexSound
    <2>2. \A i \in DOMAIN index : index[i] \in S
      <3> HIDE DEF S
      <3> QED
        BY <2>1
    <2> QED
      BY <1>2, <2>2
  <1>5. \A b \in DOMAIN block : block[b] \in Nat \ {0}
    BY <1>1 DEF PagesSound
  <1> QED
    BY <1>1, <1>3, <1>4, <1>5, AtomNames DEF Istr!TypeOK, StringsInv, PagesSound

LEMMA StringsSeparate ==
    ASSUME StringsInv
    PROVE  Istr!StringsApart
  <1>1. TextsSound(block, text) /\ RestSound(page, text, pi_free, pi_left)
        /\ PagesSound(block, page)
    BY DEF StringsInv
  <1>2. ASSUME istr = "open", Istr!DataHasAddr(pi_free)
        PROVE  LET f == Istr!DataAt(pi_free) IN
               /\ f.off + pi_left <= block[f.block]
               /\ \A t \in text : t.block = f.block =>
                     t.off + t.atoms <= f.off \/ f.off + pi_left <= t.off
    <2>1. pi_free # 0
      BY <1>2, AtomNames DEF Istr!DataHasAddr
    <2>2. PICK s \in 1 .. (PageSlots - 1), r \in 0 .. (PerPage - 1) :
             /\ page[s] # 0 /\ pi_free = PerPage * s + r /\ pi_left \in Nat
             /\ r + pi_left <= PerPage
             /\ \A t \in text : t.block = page[s]
                               => t.off + t.atoms <= r \/ r + pi_left <= t.off
      BY <1>1, <2>1 DEF RestSound
    <2>3. pi_free \div PerPage = s /\ pi_free % PerPage = r
      BY <2>2, SlotAtom
    <2>4. PerPage <= block[page[s]] /\ block[page[s]] \in Nat /\ PerPage \in Nat
      <3>1. s \in 0 .. (PageSlots - 1)
        BY IstrConstants
      <3>2. page[s] \in DOMAIN block
        BY <1>1, <2>2, <3>1 DEF PagesSound
      <3> QED
        BY <1>1, <3>2, IstrConstants DEF PagesSound
    <2>5. r + pi_left <= block[page[s]]
      BY <2>2, <2>4
    <2> QED
      BY <2>2, <2>3, <2>5 DEF Istr!DataAt
  <1> QED
    BY <1>1, <1>2 DEF Istr!StringsApart, TextsSound, TextApart

\* A stored string is the only one at its place, so it reads back.
LEMMA StoredReads ==
    ASSUME StringsInv, NEW t \in text, NEW atom, Stored(atom, t, page), istr = "open"
    PROVE  Istr!ReadData(atom) = Istr!Text(t.len)
  <1>1. TextsSound(block, text)
    BY DEF StringsInv
  <1>2. Istr!DataHasAddr(atom)
    BY AtomNames, IstrConstants DEF Istr!DataHasAddr, Stored
  <1>3. Istr!DataAt(atom).block = t.block /\ Istr!DataAt(atom).off = t.off
    BY DEF Istr!DataAt, Stored
  <1> DEFINE here == {u \in text : /\ u.block = Istr!DataAt(atom).block
                                  /\ u.off = Istr!DataAt(atom).off}
  <1>4. ASSUME NEW u \in here PROVE u = t
    <2>1. u \in text /\ u.block = t.block /\ u.off = t.off
      BY <1>3
    <2>2. u \in TextType /\ t \in TextType
      BY <1>1, <2>1 DEF TextsSound
    <2>3. u.off \in Nat /\ u.atoms \in Nat \ {0} /\ t.off \in Nat /\ t.atoms \in Nat \ {0}
      BY <2>2 DEF TextType
    <2>4. ~TextApart(u, t)
      BY <2>1, <2>3 DEF TextApart
    <2> QED
      BY <1>1, <2>1, <2>4 DEF TextsSound
  <1>5. t \in here
    BY <1>3
  <1>6. Istr!ReadData(atom) = IF here = {} THEN Istr!Unread
                              ELSE Istr!Text((CHOOSE u \in here : TRUE).len)
    BY <1>2 DEF Istr!ReadData
  <1> HIDE DEF here
  <1>7. (CHOOSE u \in here : TRUE) = t
    BY <1>4, <1>5
  <1> QED
    BY <1>5, <1>6, <1>7

LEMMA StringsRead ==
    ASSUME StringsInv
    PROVE  Istr!ReadsBack
  <1> SUFFICES ASSUME istr # "closed", NEW i \in DOMAIN given
               PROVE  Istr!pa_istr_atom_string(given[i][1]) = given[i][2]
    BY DEF Istr!ReadsBack
  <1>1. /\ index \in Seq(1 .. (MaxAtoms - 1)) /\ GivenRight(given[i], index, page, text)
        /\ ByteValues \in Nat \ {0}
    BY IstrConstants DEF StringsInv, IndexSound
  <1>2. ASSUME NEW byte \in Nat, byte + 1 < ByteValues,
               given[i] = <<byte + 1, Istr!Short(byte)>>
        PROVE  Istr!pa_istr_atom_string(given[i][1]) = given[i][2]
    <2>1. given[i][1] = byte + 1 /\ given[i][2] = Istr!Short(byte)
      BY <1>2
    <2>2. (byte + 1) - 1 = byte /\ byte + 1 # 0
      BY <1>2
    <2> QED
      BY <1>2, <2>1, <2>2, AtomNames DEF Istr!pa_istr_atom_string
  <1>3. ASSUME NEW k \in DOMAIN index, NEW t \in text,
               given[i] = <<k + ByteValues, Istr!Text(t.len)>>, Stored(index[k], t, page)
        PROVE  Istr!pa_istr_atom_string(given[i][1]) = given[i][2]
    <2>1. given[i][1] = k + ByteValues /\ given[i][2] = Istr!Text(t.len)
      BY <1>3
    <2>2. k \in 1 .. Len(index) /\ k \in Nat
      BY <1>1
    <2>3. /\ (k + ByteValues) - ByteValues = k /\ k + ByteValues # 0
          /\ ~(k + ByteValues < ByteValues)
      BY <1>1, <2>2
    <2>4. istr = "open"
      BY <2>2 DEF StringsInv
    <2>5. Istr!pa_istr_atom_string(k + ByteValues) = Istr!ReadData(index[k])
      BY <2>2, <2>3, AtomNames DEF Istr!pa_istr_atom_string
    <2> QED
      BY <1>3, <2>1, <2>4, <2>5, StoredReads
  <1> QED
    BY <1>1, <1>2, <1>3 DEF GivenRight

LEMMA StringsDiffer ==
    ASSUME StringsInv
    PROVE  Istr!AtomsTellApart
  <1> SUFFICES ASSUME NEW i \in DOMAIN given, NEW j \in DOMAIN given,
                      given[i][1] = given[j][1]
               PROVE  given[i][2] = given[j][2]
    BY DEF Istr!AtomsTellApart
  <1>1. /\ index \in Seq(1 .. (MaxAtoms - 1)) /\ ByteValues \in Nat \ {0}
        /\ GivenRight(given[i], index, page, text) /\ GivenRight(given[j], index, page, text)
        /\ TextsSound(block, text)
    BY IstrConstants DEF StringsInv, IndexSound
  <1>2. DOMAIN index \subseteq Nat \ {0}
    BY <1>1
  <1>3. ASSUME NEW byte \in Nat, byte + 1 < ByteValues,
               given[i] = <<byte + 1, Istr!Short(byte)>>
        PROVE  given[i][2] = given[j][2]
    <2>1. \A k \in DOMAIN index : k + ByteValues # byte + 1
      BY <1>1, <1>2, <1>3
    <2>2. \A b \in Nat : b + 1 = byte + 1 => b = byte
      OBVIOUS
    <2> QED
      BY <1>1, <1>3, <2>1, <2>2 DEF GivenRight
  <1>4. ASSUME NEW k \in DOMAIN index, NEW t \in text,
               given[i] = <<k + ByteValues, Istr!Text(t.len)>>, Stored(index[k], t, page)
        PROVE  given[i][2] = given[j][2]
    <2>1. \A b \in Nat : b + 1 < ByteValues => b + 1 # k + ByteValues
      BY <1>1, <1>2
    <2>2. PICK m \in DOMAIN index, u \in text :
             given[j] = <<m + ByteValues, Istr!Text(u.len)>> /\ Stored(index[m], u, page)
      BY <1>1, <1>4, <2>1 DEF GivenRight
    <2>3. m = k
      BY <1>1, <1>2, <1>4, <2>2
    <2>4. u = t
      <3>1. u.block = t.block /\ u.off = t.off
        BY <1>4, <2>2, <2>3 DEF Stored
      <3>2. u \in TextType /\ t \in TextType
        BY <1>1 DEF TextsSound
      <3>3. u.off \in Nat /\ u.atoms \in Nat \ {0} /\ t.off \in Nat /\ t.atoms \in Nat \ {0}
        BY <3>2 DEF TextType
      <3>4. ~TextApart(u, t)
        BY <3>1, <3>3 DEF TextApart
      <3> QED
        BY <1>1, <3>4 DEF TextsSound
    <2> QED
      BY <1>4, <2>2, <2>4
  <1> QED
    BY <1>1, <1>3, <1>4 DEF GivenRight

\* Strings stay what and where they were stored, at every size of atoms, pages
\* and tables, and whichever of pages and index fails: in a table that was
\* opened once and for characters of the lower half (pa_istr_string).  A table
\* that is opened again accepts strings that it does not store, and the atom of
\* a character of the upper half is not one of those of short strings.
THEOREM StringsAlwaysKept ==
    ASSUME OneOpening
    PROVE  Spec => []StringsKept
  <1>1. Init => StringsInv
    BY StringsInit DEF Init
  <1>2. StringsInv /\ [Next]_<<what, hv, av, iv, pv>> => StringsInv'
    <2> SUFFICES ASSUME StringsInv, [Next]_<<what, hv, av, iv, pv>> PROVE StringsInv'
      OBVIOUS
    <2>1. [Istr!Next]_iv
      BY DEF Next
    <2> QED
      BY <2>1, StringsNext
  <1>3. StringsInv => StringsKept
    BY StringsSorted, StringsSeparate, StringsRead, StringsDiffer
    DEF StringsKept, Istr!StringsKept
  <1> QED
    BY <1>1, <1>2, <1>3, PTL DEF Spec

-----------------------------------------------------------------------------
(* Named headers *)

HeaderType == [prefix : Stems, size : {n \in Nat \ {0} : n % Align = 0}]

\* The offsets behind the first headers of a page, one after the other.
OffsetsOf(hs, n, f) ==
    f = [i \in 0 .. n |-> IF i = 0 THEN 0 ELSE f[i - 1] + PmhBytes + hs[i].size]

\* Where header i is.
StartOf(hs, i) == Header!OffsetAfter(SubSeq(hs, 1, i - 1))

HeadersInv ==
    /\ headers \in Seq(HeaderType)
    /\ Header!OffsetAfter(headers) <= Room
    /\ \A k \in known : \E i \in DOMAIN headers :
          /\ k[1] \in Header!Names /\ k[1].prefix = headers[i].prefix
          /\ k[2] = StartOf(headers, i)
    /\ LongNames \subseteq {FALSE} =>
          \A i, j \in DOMAIN headers : headers[i].prefix = headers[j].prefix => i = j

LEMMA HeaderConstants ==
    /\ Room \in Nat /\ PmhBytes \in Nat /\ Align \in Nat \ {0} /\ PmhBytes % Align = 0
    /\ LongNames \subseteq BOOLEAN
    /\ SizeOf \in [Stems -> Nat \ {0}]
  BY PdbAssumption DEF Header!HeaderAssumption

LEMMA MultiplesAdd ==
    ASSUME NEW m \in Nat \ {0}, NEW a \in Nat, NEW b \in Nat, a % m = 0, b % m = 0
    PROVE  (a + b) % m = 0
  <1> DEFINE p == a \div m
             q == b \div m
  <1>1. p \in Nat /\ q \in Nat /\ a = m * p + 0 /\ b = m * q + 0
    BY DivisionFacts
  <1> HIDE DEF p, q
  <1>2. a + b = m * (p + q) + 0 /\ p + q \in Nat /\ 0 \in 0 .. (m - 1)
    BY <1>1
  <1> QED
    BY <1>2, DivisionUnique

LEMMA RoundedUp ==
    ASSUME NEW v \in Nat
    PROVE  Header!pa_roundup(v, Align) \in Nat /\ Header!pa_roundup(v, Align) % Align = 0
  <1> DEFINE q == (v + Align - 1) \div Align
  <1>1. v + Align - 1 \in Nat /\ Align \in Nat \ {0}
    BY HeaderConstants
  <1>2. q \in Nat
    BY <1>1, DivisionFacts
  <1> HIDE DEF q
  <1>3. q * Align \in Nat /\ q * Align = Align * q + 0 /\ 0 \in 0 .. (Align - 1)
    BY <1>1, <1>2
  <1>4. (q * Align) % Align = 0
    BY <1>1, <1>2, <1>3, DivisionUnique
  <1> QED
    BY <1>3, <1>4 DEF q, Header!pa_roundup

LEMMA OffsetsExist ==
    ASSUME NEW hs
    PROVE  \A n \in Nat : \E f : OffsetsOf(hs, n, f)
  <1> DEFINE T == {n \in Nat : \E f : OffsetsOf(hs, n, f)}
             Step(i, before) == before + PmhBytes + hs[i].size
  <1>1. 0 \in T
    <2> DEFINE f == [i \in 0 .. 0 |-> 0]
    <2>1. f = [i \in 0 .. 0 |-> IF i = 0 THEN 0 ELSE f[i - 1] + PmhBytes + hs[i].size]
      OBVIOUS
    <2> QED
      BY <2>1 DEF OffsetsOf
  <1>2. ASSUME NEW n \in Nat, n \in T
        PROVE  n + 1 \in T
    <2>1. PICK f : OffsetsOf(hs, n, f)
      BY <1>2
    <2> DEFINE g == [i \in 0 .. (n + 1) |-> IF i = n + 1 THEN Step(n + 1, f[n]) ELSE f[i]]
    <2>2. /\ \A i \in 0 .. n : g[i] = f[i]
          /\ g[n + 1] = Step(n + 1, f[n])
          /\ g = [i \in 0 .. (n + 1) |-> g[i]]
      OBVIOUS
    <2>3. \A i \in 0 .. n : f[i] = IF i = 0 THEN 0 ELSE Step(i, f[i - 1])
      BY <2>1 DEF OffsetsOf
    <2> HIDE DEF g, Step
    <2>4. ASSUME NEW i \in 0 .. (n + 1)
          PROVE  g[i] = IF i = 0 THEN 0 ELSE Step(i, g[i - 1])
      <3>1. CASE i = n + 1
        <4>1. i # 0 /\ i - 1 = n /\ n \in 0 .. n
          BY <3>1
        <4> QED
          BY <2>2, <3>1, <4>1
      <3>2. CASE i \in 1 .. n
        <4>1. i \in 0 .. n /\ i - 1 \in 0 .. n /\ i # 0
          BY <3>2
        <4> QED
          BY <2>2, <2>3, <4>1
      <3>3. CASE i = 0
        <4>1. 0 \in 0 .. n
          OBVIOUS
        <4> QED
          BY <2>2, <2>3, <3>3, <4>1
      <3> QED
        BY <3>1, <3>2, <3>3
    <2>5. OffsetsOf(hs, n + 1, g)
      BY <2>2, <2>4 DEF OffsetsOf, Step
    <2> QED
      BY <2>5
  <1> HIDE DEF T
  <1>3. Nat \subseteq T
    BY <1>1, <1>2, SetInduction
  <1> QED
    BY <1>3 DEF T

\* What the offsets of one page and those of a page that starts like it agree in.
LEMMA OffsetsAgree ==
    ASSUME NEW hs, NEW gs, NEW m \in Nat, NEW n \in Nat, n <= m,
           NEW f, NEW g, OffsetsOf(hs, m, f), OffsetsOf(gs, n, g),
           \A i \in 1 .. n : hs[i] = gs[i]
    PROVE  \A i \in 0 .. n : f[i] = g[i]
  <1> DEFINE T == {i \in Nat : i <= n => f[i] = g[i]}
  <1>1. 0 \in T
    <2>1. 0 \in 0 .. n /\ 0 \in 0 .. m
      OBVIOUS
    <2> QED
      BY <2>1 DEF OffsetsOf
  <1>2. ASSUME NEW i \in Nat, i \in T PROVE i + 1 \in T
    <2> SUFFICES ASSUME i + 1 <= n PROVE f[i + 1] = g[i + 1]
      OBVIOUS
    <2>1. /\ i + 1 \in 0 .. m /\ i + 1 \in 0 .. n /\ i + 1 # 0 /\ (i + 1) - 1 = i
          /\ i + 1 \in 1 .. n /\ i <= n
      OBVIOUS
    <2>2. f[i + 1] = f[i] + PmhBytes + hs[i + 1].size
      BY <2>1 DEF OffsetsOf
    <2>3. g[i + 1] = g[i] + PmhBytes + gs[i + 1].size
      BY <2>1 DEF OffsetsOf
    <2> QED
      BY <1>2, <2>1, <2>2, <2>3
  <1> HIDE DEF T
  <1>3. Nat \subseteq T
    BY <1>1, <1>2, SetInduction
  <1> QED
    BY <1>3 DEF T

LEMMA OffsetAfterIs ==
    ASSUME NEW hs \in Seq(HeaderType), NEW f, OffsetsOf(hs, Len(hs), f)
    PROVE  \A i \in 0 .. Len(hs) : Header!OffsetAfter(SubSeq(hs, 1, i)) = f[i]
  <1> SUFFICES ASSUME NEW i \in 0 .. Len(hs)
               PROVE  Header!OffsetAfter(SubSeq(hs, 1, i)) = f[i]
    OBVIOUS
  <1> DEFINE gs == SubSeq(hs, 1, i)
             g == CHOOSE h : OffsetsOf(gs, Len(gs), h)
  <1>1. Len(hs) \in Nat /\ i \in Nat /\ i <= Len(hs)
    OBVIOUS
  <1>2. Len(gs) = i /\ \A k \in 1 .. i : gs[k] = hs[k]
    BY <1>1, SubSeqProperties
  <1> HIDE DEF gs
  <1>3. OffsetsOf(gs, Len(gs), g)
    BY <1>1, <1>2, OffsetsExist
  <1>4. Header!OffsetAfter(gs) = g[Len(gs)]
    BY DEF Header!OffsetAfter, OffsetsOf
  <1> HIDE DEF g
  <1>5. f[i] = g[i]
    BY <1>1, <1>2, <1>3, OffsetsAgree
  <1> QED
    BY <1>2, <1>4, <1>5 DEF gs

LEMMA OffsetsGrow ==
    ASSUME NEW hs \in Seq(HeaderType), NEW f, OffsetsOf(hs, Len(hs), f)
    PROVE  /\ \A i \in 0 .. Len(hs) : f[i] \in Nat /\ f[i] % Align = 0
           /\ \A i, j \in 0 .. Len(hs) : i < j => f[i] < f[j]
  <1> DEFINE N == Len(hs)
  <1>0. N \in Nat /\ PmhBytes \in Nat /\ Align \in Nat \ {0} /\ PmhBytes % Align = 0
    BY HeaderConstants
  <1>1. \A i \in 1 .. N : /\ hs[i].size \in Nat \ {0} /\ hs[i].size % Align = 0
                          /\ f[i] = f[i - 1] + PmhBytes + hs[i].size
    <2> SUFFICES ASSUME NEW i \in 1 .. N
                 PROVE  /\ hs[i].size \in Nat \ {0} /\ hs[i].size % Align = 0
                        /\ f[i] = f[i - 1] + PmhBytes + hs[i].size
      OBVIOUS
    <2>1. hs[i] \in HeaderType
      BY <1>0
    <2>2. i \in 0 .. N /\ i # 0
      BY <1>0
    <2> QED
      BY <2>1, <2>2 DEF HeaderType, OffsetsOf
  <1>2. f[0] = 0
    <2>1. 0 \in 0 .. N
      BY <1>0
    <2> QED
      BY <2>1 DEF OffsetsOf
  <1> HIDE DEF N
  <1> DEFINE T == {i \in Nat : i <= N => f[i] \in Nat /\ f[i] % Align = 0}
  <1>3. 0 \in T
    <2>1. 0 = Align * 0 + 0 /\ 0 \in 0 .. (Align - 1)
      BY <1>0
    <2>2. 0 % Align = 0
      BY <1>0, <2>1, DivisionUnique
    <2> QED
      BY <1>2, <2>2
  <1>4. ASSUME NEW i \in Nat, i \in T PROVE i + 1 \in T
    <2> SUFFICES ASSUME i + 1 <= N PROVE f[i + 1] \in Nat /\ f[i + 1] % Align = 0
      OBVIOUS
    <2> DEFINE size == hs[i + 1].size
    <2>1. i + 1 \in 1 .. N /\ (i + 1) - 1 = i /\ i <= N
      BY <1>0
    <2>2. size \in Nat \ {0} /\ size % Align = 0 /\ f[i + 1] = f[i] + PmhBytes + size
      BY <1>1, <2>1
    <2>3. f[i] \in Nat /\ f[i] % Align = 0
      BY <1>4, <2>1
    <2> HIDE DEF size
    <2>4. f[i] + PmhBytes \in Nat /\ (f[i] + PmhBytes) % Align = 0
      BY <1>0, <2>3, MultiplesAdd
    <2> DEFINE a == f[i] + PmhBytes
    <2>5. a \in Nat /\ a % Align = 0 /\ f[i + 1] = a + size
      BY <2>2, <2>4
    <2>6. size \in Nat
      BY <2>2
    <2> HIDE DEF a
    <2>7. a + size \in Nat
      BY <2>5, <2>6
    <2>8. (a + size) % Align = 0
      BY <1>0, <2>2, <2>5, <2>6, MultiplesAdd, Zenon
    <2> QED
      BY <2>5, <2>7, <2>8
  <1>5. \A i \in 0 .. N : f[i] \in Nat /\ f[i] % Align = 0
    <2> HIDE DEF T
    <2>1. Nat \subseteq T
      BY <1>3, <1>4, SetInduction
    <2> QED
      BY <1>0, <2>1 DEF T
  <1> DEFINE U == {j \in Nat : j <= N => \A i \in 0 .. N : i < j => f[i] < f[j]}
  <1>6. 0 \in U
    BY <1>0
  <1>7. ASSUME NEW j \in Nat, j \in U PROVE j + 1 \in U
    <2> SUFFICES ASSUME j + 1 <= N, NEW i \in 0 .. N, i < j + 1 PROVE f[i] < f[j + 1]
      OBVIOUS
    <2>1. j + 1 \in 1 .. N /\ (j + 1) - 1 = j /\ j \in 0 .. N /\ j <= N
      BY <1>0
    <2>2. hs[j + 1].size \in Nat \ {0} /\ f[j + 1] = f[j] + PmhBytes + hs[j + 1].size
      BY <1>1, <2>1
    <2> HIDE DEF T, U
    <2>3. f[j] \in Nat /\ f[i] \in Nat /\ f[j] < f[j + 1]
      <3>1. f[j] \in Nat /\ f[i] \in Nat
        BY <1>5, <2>1
      <3> DEFINE a == f[j]
                 b == hs[j + 1].size
      <3>2. a \in Nat /\ b \in Nat \ {0} /\ f[j + 1] = a + PmhBytes + b
        BY <2>2, <3>1
      <3> HIDE DEF a, b
      <3>3. a < a + PmhBytes + b
        BY <1>0, <3>2
      <3> QED
        BY <3>1, <3>2, <3>3 DEF a
    <2>4. i = j \/ f[i] < f[j]
      <3>1. i = j \/ i < j
        BY <1>0, <2>1
      <3> QED
        BY <1>7, <2>1, <3>1 DEF U
    <2>5. f[j + 1] \in Nat
      BY <1>5, <2>1, <1>0
    <2> QED
      BY <2>3, <2>4, <2>5
  <1>8. \A i, j \in 0 .. N : i < j => f[i] < f[j]
    <2> HIDE DEF U
    <2>1. Nat \subseteq U
      BY <1>6, <1>7, SetInduction
    <2> QED
      BY <1>0, <2>1 DEF U
  <1> QED
    BY <1>5, <1>8 DEF N

\* What all this says of the headers of a page.
LEMMA HeaderOffsets ==
    ASSUME NEW hs \in Seq(HeaderType)
    PROVE  /\ \A i \in DOMAIN hs : StartOf(hs, i) \in Nat /\ StartOf(hs, i) % Align = 0
           /\ \A i, j \in DOMAIN hs : StartOf(hs, i) = StartOf(hs, j) => i = j
           /\ Header!OffsetAfter(hs) \in Nat
  <1>1. PICK f : OffsetsOf(hs, Len(hs), f)
    <2>1. Len(hs) \in Nat
      OBVIOUS
    <2> QED
      BY <2>1, OffsetsExist
  <1>2. \A i \in 0 .. Len(hs) : Header!OffsetAfter(SubSeq(hs, 1, i)) = f[i]
    BY <1>1, OffsetAfterIs
  <1>3. /\ \A i \in 0 .. Len(hs) : f[i] \in Nat /\ f[i] % Align = 0
        /\ \A i, j \in 0 .. Len(hs) : i < j => f[i] < f[j]
    BY <1>1, OffsetsGrow
  <1>4. \A i \in DOMAIN hs : i \in 1 .. Len(hs) /\ i - 1 \in 0 .. Len(hs)
    OBVIOUS
  <1>5. \A i \in DOMAIN hs : StartOf(hs, i) = f[i - 1]
    BY <1>2, <1>4 DEF StartOf
  <1>6. ASSUME NEW i \in DOMAIN hs, NEW j \in DOMAIN hs, StartOf(hs, i) = StartOf(hs, j)
        PROVE  i = j
    <2>1. f[i - 1] = f[j - 1] /\ f[i - 1] \in Nat
      BY <1>3, <1>4, <1>5, <1>6
    <2>2. ~(i - 1 < j - 1) /\ ~(j - 1 < i - 1)
      BY <1>3, <1>4, <2>1
    <2> QED
      BY <1>4, <2>2
  <1>7. Header!OffsetAfter(hs) \in Nat
    <2>1. SubSeq(hs, 1, Len(hs)) = hs /\ Len(hs) \in 0 .. Len(hs)
      OBVIOUS
    <2> QED
      BY <1>2, <1>3, <2>1
  <1> QED
    BY <1>3, <1>4, <1>5, <1>6, <1>7

LEMMA HeaderAppended ==
    ASSUME NEW hs \in Seq(HeaderType), NEW h \in HeaderType
    PROVE  LET gs == Append(hs, h) IN
           /\ gs \in Seq(HeaderType)
           /\ Header!OffsetAfter(gs) = Header!OffsetAfter(hs) + PmhBytes + h.size
           /\ \A i \in DOMAIN hs : StartOf(gs, i) = StartOf(hs, i)
           /\ StartOf(gs, Len(hs) + 1) = Header!OffsetAfter(hs)
  <1> DEFINE gs == Append(hs, h)
             n == Len(hs)
  <1>1. /\ n \in Nat /\ gs \in Seq(HeaderType) /\ Len(gs) = n + 1 /\ gs[n + 1] = h
        /\ \A i \in 1 .. n : gs[i] = hs[i]
    OBVIOUS
  <1>2. /\ SubSeq(hs, 1, n) = hs /\ SubSeq(gs, 1, n + 1) = gs
    OBVIOUS
  <1> HIDE DEF gs
  <1>3. PICK f : OffsetsOf(hs, n, f)
    BY <1>1, OffsetsExist
  <1>4. PICK g : OffsetsOf(gs, n + 1, g)
    BY <1>1, OffsetsExist
  <1>5. \A i \in 0 .. n : g[i] = f[i]
    <2> HIDE DEF n
    <2>1. n \in Nat /\ n + 1 \in Nat /\ n <= n + 1
      BY <1>1
    <2> QED
      BY <1>1, <1>3, <1>4, <2>1, OffsetsAgree
  <1>6. \A i \in 0 .. n : Header!OffsetAfter(SubSeq(hs, 1, i)) = f[i]
    BY <1>3, OffsetAfterIs
  <1>7. \A i \in 0 .. (n + 1) : Header!OffsetAfter(SubSeq(gs, 1, i)) = g[i]
    BY <1>1, <1>4, OffsetAfterIs
  <1>8. g[n + 1] = g[n] + PmhBytes + h.size
    <2>1. n + 1 \in 0 .. (n + 1) /\ n + 1 # 0 /\ (n + 1) - 1 = n
      BY <1>1
    <2> QED
      BY <1>1, <1>4, <2>1 DEF OffsetsOf
  <1> HIDE DEF n
  <1>9. n \in 0 .. n /\ n \in 0 .. (n + 1) /\ n + 1 \in 0 .. (n + 1) /\ (n + 1) - 1 = n
    BY <1>1
  <1>10. Header!OffsetAfter(gs) = g[n + 1] /\ Header!OffsetAfter(hs) = f[n] /\ f[n] = g[n]
    BY <1>2, <1>5, <1>6, <1>7, <1>9
  <1>11. StartOf(gs, n + 1) = g[n]
    BY <1>7, <1>9 DEF StartOf
  <1>12. ASSUME NEW i \in DOMAIN hs PROVE StartOf(gs, i) = StartOf(hs, i)
    <2>1. i - 1 \in 0 .. n /\ i - 1 \in 0 .. (n + 1)
      BY DEF n
    <2> QED
      BY <1>5, <1>6, <1>7, <2>1 DEF StartOf
  <1> QED
    BY <1>1, <1>8, <1>10, <1>11, <1>12 DEF gs, n

LEMMA HeadersNext ==
    ASSUME HeadersInv, [Header!Next]_hv
    PROVE  HeadersInv'
  <1>0. headers \in Seq(HeaderType) /\ Header!OffsetAfter(headers) \in Nat
    BY HeaderOffsets DEF HeadersInv
  <1>1. CASE UNCHANGED hv
    <2>1. headers' = headers /\ known' = known
      BY <1>1 DEF hv
    <2> QED
      BY <2>1 DEF HeadersInv, StartOf
  <1>2. ASSUME NEW name \in Header!Names, Header!Found(name)
        PROVE  HeadersInv'
    <2>1. PICK i \in Header!Hits(name) :
             /\ known' = known \cup {<<name, StartOf(headers, i)>>}
             /\ headers' = headers
      BY <1>2 DEF Header!Found, Header!Note, StartOf
    <2>2. i \in DOMAIN headers /\ name.prefix = headers[i].prefix
      BY <2>1 DEF Header!Hits, Header!Matches
    <2>3. ASSUME NEW k \in known'
          PROVE  \E j \in DOMAIN headers :
                    /\ k[1] \in Header!Names /\ k[1].prefix = headers[j].prefix
                    /\ k[2] = StartOf(headers, j)
      <3>1. CASE k \in known
        BY <3>1 DEF HeadersInv
      <3>2. CASE k = <<name, StartOf(headers, i)>>
        BY <1>2, <2>2, <3>2
      <3> QED
        BY <2>1, <3>1, <3>2
    <2> QED
      BY <2>1, <2>3 DEF HeadersInv, StartOf
  <1>3. ASSUME NEW name \in Header!Names, NEW size \in Nat, Header!Appended(name, size)
        PROVE  HeadersInv'
    <2> DEFINE full == Header!pa_roundup(size, Align)
               h == [prefix |-> name.prefix, size |-> full]
               n == Len(headers)
    <2>1. /\ Header!Hits(name) = {} /\ full > 0
          /\ Header!OffsetAfter(headers) + PmhBytes + full <= Room
          /\ headers' = Append(headers, h)
          /\ known' = known \cup {<<name, Header!OffsetAfter(headers)>>}
      BY <1>3 DEF Header!Appended, Header!Note
    <2>2. full \in Nat \ {0} /\ full % Align = 0
      BY <2>1, RoundedUp
    <2> HIDE DEF full
    <2>3. h \in HeaderType /\ h.prefix = name.prefix /\ h.size = full
      BY <1>3, <2>2 DEF HeaderType, Header!Names
    <2> HIDE DEF h
    <2>4. /\ headers' \in Seq(HeaderType)
          /\ Header!OffsetAfter(headers)' = Header!OffsetAfter(headers) + PmhBytes + full
          /\ \A i \in DOMAIN headers : StartOf(headers', i) = StartOf(headers, i)
          /\ StartOf(headers', n + 1) = Header!OffsetAfter(headers)
      <3>1. Header!OffsetAfter(headers)' = Header!OffsetAfter(headers')
        BY DEF Header!OffsetAfter
      <3> QED
        BY <1>0, <2>1, <2>3, <3>1, HeaderAppended
    <2>5. /\ DOMAIN headers' = DOMAIN headers \cup {n + 1} /\ n + 1 \notin DOMAIN headers
          /\ \A i \in DOMAIN headers : headers'[i] = headers[i]
          /\ headers'[n + 1] = h
      BY <1>0, <2>1
    <2>6. ASSUME NEW k \in known'
          PROVE  \E i \in DOMAIN headers' :
                    /\ k[1] \in Header!Names /\ k[1].prefix = headers'[i].prefix
                    /\ k[2] = StartOf(headers', i)
      <3>1. CASE k \in known
        BY <2>4, <2>5, <3>1 DEF HeadersInv
      <3>2. CASE k = <<name, Header!OffsetAfter(headers)>>
        BY <1>3, <2>3, <2>4, <2>5, <3>2
      <3> QED
        BY <2>1, <3>1, <3>2
    <2>7. LongNames \subseteq {FALSE} =>
             \A i, j \in DOMAIN headers' : headers'[i].prefix = headers'[j].prefix => i = j
      <3> SUFFICES ASSUME LongNames \subseteq {FALSE}
                   PROVE  \A i, j \in DOMAIN headers' :
                             headers'[i].prefix = headers'[j].prefix => i = j
        OBVIOUS
      <3>1. ~name.long
        BY <1>3 DEF Header!Names
      <3>2. \A i \in DOMAIN headers : headers[i].prefix # name.prefix
        BY <2>1, <3>1 DEF Header!Hits, Header!Matches
      <3> QED
        BY <2>3, <2>5, <3>2 DEF HeadersInv
    <2> QED
      BY <2>1, <2>2, <2>4, <2>6, <2>7 DEF HeadersInv, StartOf
  <1>4. ASSUME NEW name \in Header!Names, NEW size \in Nat, Header!pa_mmap_header(name, size)
        PROVE  HeadersInv'
    <2>1. CASE Header!NotMade(name, size)
      BY <1>1, <2>1 DEF Header!NotMade, Header!headerVars, hv
    <2> QED
      BY <1>2, <1>3, <1>4, <2>1 DEF Header!pa_mmap_header
  <1>5. \A name \in Header!Names : SizeOf[name.prefix] \in Nat
    BY HeaderConstants DEF Header!Names
  <1> QED
    BY <1>1, <1>4, <1>5 DEF Header!Next

LEMMA HeadersInit ==
    ASSUME Header!Init
    PROVE  HeadersInv
  <1>1. headers = <<>> /\ known = {}
    BY DEF Header!Init
  <1>2. <<>> \in Seq(HeaderType) /\ Len(<<>>) = 0 /\ DOMAIN <<>> = {}
    OBVIOUS
  <1>3. PICK f : OffsetsOf(<<>>, 0, f)
    BY OffsetsExist
  <1>4. f[0] = 0
    BY <1>3 DEF OffsetsOf
  <1>5. SubSeq(<<>>, 1, 0) = <<>>
    OBVIOUS
  <1>6. Header!OffsetAfter(headers) = 0
    <2>1. 0 \in 0 .. Len(<<>>) /\ OffsetsOf(<<>>, Len(<<>>), f)
      BY <1>2, <1>3
    <2>2. Header!OffsetAfter(SubSeq(<<>>, 1, 0)) = f[0]
      BY <1>2, <2>1, OffsetAfterIs
    <2> QED
      BY <1>1, <1>4, <1>5, <2>2
  <1>7. 0 <= Room
    BY HeaderConstants
  <1> QED
    BY <1>1, <1>2, <1>6, <1>7 DEF HeadersInv

\* Whatever is asked for in whatever order, the headers stay inside the page and
\* aligned; and as long as no caller uses a name of 64 bytes or more, a name is
\* one header and a header one name (pa_mmap_header).
THEOREM HeadersAlwaysSound ==
    Spec => [](/\ Header!InPageAligned
               /\ LongNames \subseteq {FALSE} => HeadersSound)
  <1>1. Init => HeadersInv
    BY HeadersInit DEF Init
  <1>2. HeadersInv /\ [Next]_<<what, hv, av, iv, pv>> => HeadersInv'
    <2> SUFFICES ASSUME HeadersInv, [Next]_<<what, hv, av, iv, pv>> PROVE HeadersInv'
      OBVIOUS
    <2>1. [Header!Next]_hv
      BY DEF Next
    <2> QED
      BY <2>1, HeadersNext
  <1>3. HeadersInv => Header!InPageAligned /\ (LongNames \subseteq {FALSE} => HeadersSound)
    <2> SUFFICES ASSUME HeadersInv
                 PROVE  Header!InPageAligned /\ (LongNames \subseteq {FALSE} => HeadersSound)
      OBVIOUS
    <2>1. headers \in Seq(HeaderType)
      BY DEF HeadersInv
    <2>2. /\ \A i \in DOMAIN headers :
                StartOf(headers, i) \in Nat /\ StartOf(headers, i) % Align = 0
          /\ \A i, j \in DOMAIN headers : StartOf(headers, i) = StartOf(headers, j) => i = j
      BY <2>1, HeaderOffsets
    <2>3. Header!InPageAligned
      BY <2>2 DEF HeadersInv, Header!InPageAligned, StartOf
    <2>4. ASSUME LongNames \subseteq {FALSE}, NEW k \in known, NEW m \in known
          PROVE  k[1] = m[1] <=> k[2] = m[2]
      <3>1. PICK i \in DOMAIN headers :
               /\ k[1] \in Header!Names /\ k[1].prefix = headers[i].prefix
               /\ k[2] = StartOf(headers, i)
        BY DEF HeadersInv
      <3>2. PICK j \in DOMAIN headers :
               /\ m[1] \in Header!Names /\ m[1].prefix = headers[j].prefix
               /\ m[2] = StartOf(headers, j)
        BY DEF HeadersInv
      <3>3. k[1].long = m[1].long
        BY <2>4, <3>1, <3>2 DEF Header!Names
      <3>4. k[1] = m[1] <=> k[1].prefix = m[1].prefix
        BY <3>1, <3>2, <3>3 DEF Header!Names
      <3>5. k[1].prefix = m[1].prefix <=> i = j
        BY <2>4, <3>1, <3>2 DEF HeadersInv
      <3> QED
        BY <2>2, <3>1, <3>2, <3>4, <3>5
    <2> QED
      BY <2>3, <2>4 DEF HeadersSound, Header!HeadersSound, Header!NameIsHeader
  <1> QED
    BY <1>1, <1>2, <1>3, PTL DEF Spec

-----------------------------------------------------------------------------
(* Blocks of arbitrary size: powers of two and the number of bits *)

Doubles(f) == f = [n \in Nat |-> IF n = 0 THEN 1 ELSE 2 * f[n - 1]]

LEMMA DoublesExists == \E f \in [Nat -> Nat] : Doubles(f)
  <1> DEFINE F == [x \in Nat \X Nat |-> 2 * x[2]]
             p == [n \in Nat \ {0} |-> n - 1]
  <1>1. F \in [Nat \X Nat -> Nat] /\ \A n, v \in Nat : F[<<n, v>>] = 2 * v
    OBVIOUS
  <1>2. /\ p \in [Nat \ {0} -> Nat] /\ \A n \in Nat \ {0} : p[n] = n - 1 /\ p[n] < n
    OBVIOUS
  <1> HIDE DEF F, p
  <1>3. Recursion(Nat, p, 1, F)
    BY <1>1, <1>2 DEF Recursion
  <1>4. PICK f \in [Nat -> Nat] :
           f[0] = 1 /\ \A n \in Nat \ {0} : f[n] = F[<<n, f[p[n]]>>]
    BY <1>3, RecursionExists
  <1>5. \A n \in Nat \ {0} : f[n] = 2 * f[n - 1]
    <2> SUFFICES ASSUME NEW n \in Nat \ {0} PROVE f[n] = 2 * f[n - 1]
      OBVIOUS
    <2>1. n - 1 \in Nat /\ p[n] = n - 1
      BY <1>2
    <2>2. f[n - 1] \in Nat
      BY <2>1
    <2>3. f[n] = F[<<n, f[n - 1]>>]
      BY <1>4, <2>1
    <2> QED
      BY <1>1, <2>2, <2>3
  <1>6. f = [n \in Nat |-> f[n]]
    BY <1>4
  <1>7. \A n \in Nat : f[n] = IF n = 0 THEN 1 ELSE 2 * f[n - 1]
    BY <1>4, <1>5
  <1>8. Doubles(f)
    BY <1>6, <1>7 DEF Doubles
  <1> QED
    BY <1>8

LEMMA PowerDoubles ==
    /\ Arb!Pow2[0] = 1
    /\ \A n \in Nat : Arb!Pow2[n] \in Nat \ {0} /\ Arb!Pow2[n + 1] = 2 * Arb!Pow2[n]
  <1> DEFINE P == CHOOSE f : Doubles(f)
  <1>1. Arb!Pow2 = P
    BY DEF Arb!Pow2, Doubles
  <1>2. Doubles(P)
    BY DoublesExists
  <1> HIDE DEF P
  <1>3. P[0] = 1
    BY <1>2 DEF Doubles
  <1>4. \A n \in Nat : P[n + 1] = 2 * P[n]
    <2> SUFFICES ASSUME NEW n \in Nat PROVE P[n + 1] = 2 * P[n]
      OBVIOUS
    <2>1. n + 1 \in Nat /\ n + 1 # 0 /\ (n + 1) - 1 = n
      OBVIOUS
    <2> QED
      BY <1>2, <2>1 DEF Doubles
  <1> DEFINE T == {n \in Nat : P[n] \in Nat \ {0}}
  <1>5. Nat \subseteq T
    <2>1. 0 \in T
      BY <1>3
    <2>2. \A n \in Nat : n \in T => n + 1 \in T
      BY <1>4
    <2> HIDE DEF T
    <2> QED
      BY <2>1, <2>2, SetInduction
  <1> QED
    BY <1>1, <1>3, <1>4, <1>5

LEMMA PowerOfSum ==
    ASSUME NEW m \in Nat, NEW n \in Nat
    PROVE  Arb!Pow2[m + n] = Arb!Pow2[m] * Arb!Pow2[n]
  <1> DEFINE P == Arb!Pow2
             T == {k \in Nat : P[m + k] = P[m] * P[k]}
  <1>1. P[0] = 1 /\ \A k \in Nat : P[k] \in Nat \ {0} /\ P[k + 1] = 2 * P[k]
    BY PowerDoubles
  <1> HIDE DEF P
  <1>2. 0 \in T
    BY <1>1
  <1>3. ASSUME NEW k \in Nat, k \in T PROVE k + 1 \in T
    <2>1. m + k \in Nat /\ m + (k + 1) = (m + k) + 1
      OBVIOUS
    <2>2. P[m + (k + 1)] = 2 * P[m + k]
      BY <1>1, <2>1
    <2>3. P[k + 1] = 2 * P[k] /\ P[m + k] = P[m] * P[k]
      BY <1>1, <1>3
    <2>4. P[m] \in Nat /\ P[k] \in Nat
      BY <1>1
    <2>5. \A x, y \in Nat : 2 * (x * y) = x * (2 * y)
      OBVIOUS
    <2> QED
      BY <2>2, <2>3, <2>4, <2>5
  <1> HIDE DEF T
  <1>4. Nat \subseteq T
    BY <1>2, <1>3, SetInduction
  <1> QED
    BY <1>4 DEF T, P

LEMMA PowersGrow ==
    ASSUME NEW m \in Nat, NEW n \in Nat, m < n
    PROVE  Arb!Pow2[m] < Arb!Pow2[n]
  <1> DEFINE d == n - m - 1
             x == Arb!Pow2[m]
             y == Arb!Pow2[d]
  <1>1. d \in Nat /\ d + 1 \in Nat /\ n = m + (d + 1)
    OBVIOUS
  <1> HIDE DEF d
  <1>2. x \in Nat \ {0} /\ y \in Nat \ {0} /\ Arb!Pow2[d + 1] = 2 * y
    BY <1>1, PowerDoubles
  <1>3. Arb!Pow2[n] = x * (2 * y)
    BY <1>1, <1>2, PowerOfSum
  <1> HIDE DEF x, y
  <1>4. x * (2 * y) >= x * 2
    <2>1. 2 * y >= 2 /\ 2 * y \in Nat /\ x \in Nat
      BY <1>2
    <2>2. \A z \in Nat : z >= 2 => x * z >= x * 2
      BY <1>2
    <2> QED
      BY <2>1, <2>2
  <1>5. x * 2 > x
    BY <1>2
  <1>6. x * (2 * y) \in Nat
    BY <1>2
  <1> QED
    BY <1>2, <1>3, <1>4, <1>5, <1>6 DEF x

CountsBits(f) == f = [n \in Nat |-> IF n = 0 THEN 0 ELSE 1 + f[n \div 2]]

LEMMA CountsBitsExists == \E f \in [Nat -> Nat] : CountsBits(f)
  <1> DEFINE F == [x \in Nat \X Nat |-> 1 + x[2]]
             p == [n \in Nat \ {0} |-> n \div 2]
  <1>1. F \in [Nat \X Nat -> Nat] /\ \A n, v \in Nat : F[<<n, v>>] = 1 + v
    OBVIOUS
  <1>2. \A n \in Nat \ {0} : n \div 2 \in Nat /\ n \div 2 < n
    OBVIOUS
  <1>3. /\ p \in [Nat \ {0} -> Nat] /\ \A n \in Nat \ {0} : p[n] = n \div 2 /\ p[n] < n
    BY <1>2
  <1> HIDE DEF F, p
  <1>4. Recursion(Nat, p, 0, F)
    BY <1>1, <1>3 DEF Recursion
  <1>5. PICK f \in [Nat -> Nat] :
           f[0] = 0 /\ \A n \in Nat \ {0} : f[n] = F[<<n, f[p[n]]>>]
    BY <1>4, RecursionExists
  <1>6. \A n \in Nat \ {0} : f[n] = 1 + f[n \div 2]
    <2> SUFFICES ASSUME NEW n \in Nat \ {0} PROVE f[n] = 1 + f[n \div 2]
      OBVIOUS
    <2>1. n \div 2 \in Nat /\ p[n] = n \div 2
      BY <1>2, <1>3
    <2>2. f[n \div 2] \in Nat
      BY <2>1
    <2>3. f[n] = F[<<n, f[n \div 2]>>]
      BY <1>5, <2>1
    <2> QED
      BY <1>1, <2>2, <2>3
  <1>7. f = [n \in Nat |-> f[n]]
    BY <1>5
  <1>8. \A n \in Nat : f[n] = IF n = 0 THEN 0 ELSE 1 + f[n \div 2]
    BY <1>5, <1>6
  <1>9. CountsBits(f)
    BY <1>7, <1>8 DEF CountsBits
  <1> QED
    BY <1>9

\* The number of bits of a number is the power of two above it.
LEMMA BitsOfNumber ==
    /\ Arb!pa_log2[0] = 0
    /\ \A n \in Nat \ {0} :
          /\ Arb!pa_log2[n] \in Nat \ {0}
          /\ Arb!Pow2[Arb!pa_log2[n] - 1] <= n /\ n < Arb!Pow2[Arb!pa_log2[n]]
  <1> DEFINE L == CHOOSE f : CountsBits(f)
             P == Arb!Pow2
  <1>1. Arb!pa_log2 = L
    BY DEF Arb!pa_log2, CountsBits
  <1>2. CountsBits(L)
    BY CountsBitsExists
  <1> HIDE DEF L
  <1>3. P[0] = 1 /\ \A k \in Nat : P[k] \in Nat \ {0} /\ P[k + 1] = 2 * P[k]
    BY PowerDoubles
  <1> HIDE DEF P
  <1>4. L[0] = 0 /\ \A n \in Nat \ {0} : L[n] = 1 + L[n \div 2]
    BY <1>2 DEF CountsBits
  <1> DEFINE Right(n) == L[n] \in Nat \ {0} /\ P[L[n] - 1] <= n /\ n < P[L[n]]
             T == {k \in Nat : \A n \in 1 .. k : Right(n)}
  <1>5. 0 \in T
    OBVIOUS
  <1>6. ASSUME NEW k \in Nat, k \in T PROVE k + 1 \in T
    <2> SUFFICES ASSUME NEW n \in 1 .. (k + 1) PROVE Right(n)
      OBVIOUS
    <2> HIDE DEF Right
    <2>1. CASE n = 1
      <3>1. 1 \div 2 = 0
        OBVIOUS
      <3>2. L[1] = 1
        BY <1>4, <3>1
      <3>3. P[1] = 2
        <4>1. 0 \in Nat /\ 0 + 1 = 1
          OBVIOUS
        <4> QED
          BY <1>3, <4>1
      <3>4. 1 - 1 = 0
        OBVIOUS
      <3> QED
        BY <1>3, <2>1, <3>2, <3>3, <3>4 DEF Right
    <2>2. CASE n # 1
      <3> DEFINE h == n \div 2
      <3>1. h \in 1 .. k /\ (n = 2 * h \/ n = 2 * h + 1) /\ h \in Nat
        BY <2>2
      <3>2. L[n] = 1 + L[h]
        BY <1>4
      <3> HIDE DEF h
      <3> DEFINE l == L[h]
      <3>3. l \in Nat \ {0} /\ P[l - 1] <= h /\ h < P[l]
        BY <1>6, <3>1 DEF Right
      <3> HIDE DEF l
      <3>4. l - 1 \in Nat /\ (l - 1) + 1 = l /\ l \in Nat /\ (1 + l) - 1 = l /\ 1 + l = l + 1
        BY <3>3
      <3>5. P[l] = 2 * P[l - 1] /\ P[l + 1] = 2 * P[l] /\ P[l] \in Nat /\ P[l - 1] \in Nat
        BY <1>3, <3>4
      <3>6. P[l] <= n
        BY <3>1, <3>3, <3>5
      <3>7. n < P[l + 1]
        BY <3>1, <3>3, <3>5
      <3>8. L[n] = 1 + l
        BY <3>2 DEF l
      <3>9. 1 + l \in Nat \ {0}
        BY <3>4
      <3> QED
        BY <3>4, <3>6, <3>7, <3>8, <3>9 DEF Right
    <2> QED
      BY <2>1, <2>2
  <1>7. Nat \subseteq T
    <2> HIDE DEF T
    <2> QED
      BY <1>5, <1>6, SetInduction
  <1>8. \A n \in Nat \ {0} : Right(n)
    <2> HIDE DEF Right
    <2> QED
      BY <1>7
  <1> QED
    BY <1>1, <1>4, <1>8 DEF P

-----------------------------------------------------------------------------
(* Blocks of arbitrary size: slots, chunks and runs of pages *)

\* The proofs are about requests whose size neither loses bits on the way into
\* pa_log2 nor is rounded up to a number of pages that the header cannot hold.
RequestsFit ==
    \A size \in ReqSizes :
        /\ size + HeaderBytes <= LogWrap
        /\ size + HeaderBytes < SizeWrap * Arb!PageBytes
              => size + HeaderBytes <= (SizeWrap - 1) * Arb!PageBytes

ChunksOf(s) == Arb!pa_arb_chunks_per_page(s)
PagesOf(s) == Arb!pa_items(Arb!pa_arb_slot_to_size(s), Arb!PageBytes)

LEMMA ArbConstants ==
    /\ {AtomShift, OffsetShift, MaxPow2, MaxPages} \subseteq Nat
    /\ SizeWrap \in Nat \ {0} /\ LogWrap \in Nat \ {0}
    /\ ReqSizes \subseteq Nat
    /\ Arb!AtomBytes \in Nat \ {0} /\ Arb!PageUnits \in Nat \ {0}
    /\ Arb!PageBytes = Arb!AtomBytes * Arb!PageUnits /\ Arb!PageBytes \in Nat \ {0}
    /\ HeaderBytes \in Nat \ {0}
  <1>1. Arb!ArbAssumption
    BY PdbAssumption
  <1>2. /\ {AtomShift, OffsetShift, MaxPow2, MaxPages} \subseteq Nat
        /\ SizeWrap \in Nat \ {0} /\ LogWrap \in Nat \ {0}
        /\ ReqSizes \subseteq Nat
        /\ HeaderBytes \in 1 .. Arb!AtomBytes
    BY <1>1 DEF Arb!ArbAssumption, Arb!AtomBytes
  <1>3. Arb!AtomBytes \in Nat \ {0} /\ Arb!PageUnits \in Nat \ {0}
    BY <1>2, PowerDoubles DEF Arb!AtomBytes, Arb!PageUnits
  <1>4. Arb!PageBytes = Arb!AtomBytes * Arb!PageUnits
    BY DEF Arb!PageBytes
  <1>5. \A x, y \in Nat \ {0} : x * y \in Nat \ {0}
    OBVIOUS
  <1> QED
    BY <1>2, <1>3, <1>4, <1>5

LEMMA ItemsEnough ==
    ASSUME NEW n \in Nat \ {0}, NEW m \in Nat \ {0}
    PROVE  LET c == Arb!pa_items(n, m) IN
           /\ c \in Nat \ {0} /\ n <= c * m
           /\ \A k \in Nat : n <= k * m => c <= k
  <1> DEFINE x == n + m - 1
             c == x \div m
             r == x % m
  <1>1. x \in Nat /\ x >= m /\ x >= n
    OBVIOUS
  <1>2. c \in Nat /\ r \in 0 .. (m - 1) /\ x = m * c + r
    BY <1>1, DivisionFacts
  <1>3. x = n + m - 1
    OBVIOUS
  <1> HIDE DEF x, c, r
  <1>4. c # 0
    <2> SUFFICES ASSUME c = 0 PROVE FALSE
      OBVIOUS
    <2>1. m * c = 0
      OBVIOUS
    <2> QED
      BY <1>1, <1>2, <2>1
  <1>5. m * c = c * m /\ m * c \in Nat
    BY <1>2
  <1>6. n <= c * m
    BY <1>2, <1>3, <1>5
  <1>7. ASSUME NEW k \in Nat, n <= k * m PROVE c <= k
    <2> SUFFICES ASSUME k + 1 <= c PROVE FALSE
      BY <1>2
    <2>1. m * (k + 1) <= m * c
      BY <1>2
    <2>2. m * (k + 1) = k * m + m /\ k * m \in Nat
      OBVIOUS
    <2> QED
      BY <1>2, <1>3, <1>5, <1>7, <2>1, <2>2
  <1> QED
    BY <1>2, <1>4, <1>6, <1>7 DEF c, x, Arb!pa_items

\* What a number of whole pages makes in pages.
LEMMA ItemsExact ==
    ASSUME NEW k \in Nat \ {0}, NEW m \in Nat \ {0}
    PROVE  Arb!pa_items(m * k, m) = k
  <1>1. m * k + m - 1 = m * k + (m - 1) /\ m - 1 \in 0 .. (m - 1)
    OBVIOUS
  <1>2. (m * k + (m - 1)) \div m = k
    BY <1>1, DivisionUnique
  <1> QED
    BY <1>1, <1>2 DEF Arb!pa_items

\* The chunks of a slot fill the pages that are taken for them.
LEMMA ChunksFillPages ==
    ASSUME NEW s \in Arb!Slots
    PROVE  /\ s \in Nat /\ Arb!Pow2[s] \in Nat \ {0}
           /\ ChunksOf(s) \in Nat \ {0} /\ PagesOf(s) \in Nat \ {0}
           /\ Arb!Pow2[s] * ChunksOf(s) = PagesOf(s) * Arb!PageUnits
  <1> DEFINE P == Arb!Pow2
             U == Arb!PageUnits
             B == Arb!PageBytes
             A == Arb!AtomBytes
  <1>1. s \in Nat /\ OffsetShift \in Nat /\ AtomShift \in Nat
    BY ArbConstants DEF Arb!Slots
  <1>2. /\ U = P[OffsetShift] /\ A = P[AtomShift] /\ B = A * U
        /\ U \in Nat \ {0} /\ A \in Nat \ {0} /\ B \in Nat \ {0} /\ P[s] \in Nat \ {0}
    BY <1>1, ArbConstants, PowerDoubles DEF Arb!PageUnits, Arb!AtomBytes
  <1>3. P[s + AtomShift] = P[s] * A
    BY <1>1, <1>2, PowerOfSum
  <1>4. CASE s <= OffsetShift
    <2> DEFINE d == OffsetShift - s
    <2>1. d \in Nat /\ OffsetShift = s + d
      BY <1>1, <1>4
    <2>2. P[OffsetShift] = P[s] * P[d] /\ P[d] \in Nat \ {0}
      <3> HIDE DEF d
      <3>1. P[s + d] = P[s] * P[d] /\ P[d] \in Nat \ {0}
        BY <1>1, <2>1, PowerOfSum, PowerDoubles
      <3> QED
        BY <2>1, <3>1
    <2> HIDE DEF P, U, A, B, d
    <2>3. U = P[s] * P[d] + 0 /\ 0 \in 0 .. (P[s] - 1)
      BY <1>2, <2>2
    <2>4. U \div P[s] = P[d]
      BY <1>2, <2>2, <2>3, DivisionUnique
    <2>5. ChunksOf(s) = P[d]
      BY <2>2, <2>4 DEF ChunksOf, Arb!pa_arb_chunks_per_page, P, U
    <2>6. Arb!pa_arb_slot_to_size(s) = B
      <3>1. CASE s = OffsetShift
        <4>1. P[s] * A = B
          BY <1>2, <3>1
        <4> QED
          BY <1>2, <1>3, <4>1 DEF Arb!pa_arb_slot_to_size, P, B
      <3>2. CASE s < OffsetShift
        <4>1. P[s] < U
          BY <1>1, <1>2, <3>2, PowersGrow DEF P
        <4>2. P[s] * A < U * A
          BY <1>2, <4>1
        <4>3. P[s] * A < B
          BY <1>2, <4>2
        <4> QED
          BY <1>3, <4>3 DEF Arb!pa_arb_slot_to_size, P, B
      <3> QED
        BY <1>1, <1>4, <3>1, <3>2
    <2>7. PagesOf(s) = 1
      <3>1. B = B * 1 /\ 1 \in Nat \ {0}
        BY <1>2
      <3>2. Arb!pa_items(B * 1, B) = 1
        BY <1>2, <3>1, ItemsExact
      <3> QED
        BY <2>6, <3>1, <3>2 DEF PagesOf, B
    <2>8. P[s] * ChunksOf(s) = 1 * U
      BY <1>2, <2>2, <2>5
    <2> QED
      BY <1>1, <1>2, <2>2, <2>5, <2>7, <2>8 DEF P, U
  <1>5. CASE s > OffsetShift
    <2> DEFINE d == s - OffsetShift
    <2>1. d \in Nat /\ s = OffsetShift + d
      BY <1>1, <1>5
    <2>2. P[s] = U * P[d] /\ P[d] \in Nat \ {0}
      <3> HIDE DEF d
      <3>1. P[OffsetShift + d] = P[OffsetShift] * P[d] /\ P[d] \in Nat \ {0}
        BY <1>1, <2>1, PowerOfSum, PowerDoubles
      <3> QED
        BY <1>2, <2>1, <3>1
    <2>3. U < P[s]
      BY <1>1, <1>2, <1>5, PowersGrow
    <2> HIDE DEF P, U, A, B, d
    <2>4. U \div P[s] = 0
      <3>1. U = P[s] * 0 + U /\ U \in 0 .. (P[s] - 1)
        BY <1>2, <2>3
      <3> QED
        BY <1>2, <3>1, DivisionUnique
    <2>5. ChunksOf(s) = 1
      BY <2>4 DEF ChunksOf, Arb!pa_arb_chunks_per_page, P, U
    <2>6. Arb!pa_arb_slot_to_size(s) = B * P[d]
      <3>0. \A x, y, z \in Nat : (x * y) * z = (z * x) * y
        OBVIOUS
      <3>1. P[s] * A = B * P[d]
        <4> DEFINE x == P[d]
        <4>1. x \in Nat /\ U \in Nat /\ A \in Nat /\ P[s] = U * x
          BY <1>2, <2>2
        <4> HIDE DEF x
        <4>2. (U * x) * A = (A * U) * x
          BY <3>0, <4>1
        <4> QED
          BY <1>2, <4>1, <4>2 DEF x
      <3>2. ~(B * P[d] < B)
        BY <1>2, <2>2
      <3> QED
        BY <1>3, <3>1, <3>2 DEF Arb!pa_arb_slot_to_size, P, B
    <2>7. PagesOf(s) = P[d]
      BY <1>2, <2>2, <2>6, ItemsExact DEF PagesOf, B
    <2>8. P[s] * ChunksOf(s) = P[d] * U
      BY <1>2, <2>2, <2>5
    <2> QED
      BY <1>1, <1>2, <2>2, <2>5, <2>7, <2>8 DEF P, U
  <1> QED
    BY <1>1, <1>4, <1>5

\* The slot of a request has room for it, and less than twice as much.
LEMMA SlotRoom ==
    ASSUME NEW full \in Nat \ {0}, full <= LogWrap, Arb!pa_arb_slot(full) <= MaxPow2
    PROVE  LET s == Arb!pa_arb_slot(full)
               room == Arb!Pow2[s] * Arb!AtomBytes
           IN  /\ s \in Arb!Slots
               /\ full <= room /\ (room < 2 * full \/ room = Arb!AtomBytes)
  <1> DEFINE P == Arb!Pow2
             A == Arb!AtomBytes
             n == full - 1
             l == Arb!pa_log2[n]
             s == Arb!pa_arb_slot(full)
  <1>1. AtomShift \in Nat /\ MaxPow2 \in Nat /\ A \in Nat \ {0} /\ A = P[AtomShift]
    BY ArbConstants DEF Arb!AtomBytes
  <1>2. n \in Nat /\ n % LogWrap = n
    <2>1. n \in Nat /\ n \in 0 .. (LogWrap - 1) /\ n = LogWrap * 0 + n
      BY ArbConstants
    <2> QED
      BY <2>1, ArbConstants, DivisionUnique
  <1>3. s = IF full < A THEN 0 ELSE IF l < AtomShift THEN MaxPow2 + 1 ELSE l - AtomShift
    BY <1>2 DEF Arb!pa_arb_slot
  <1>4. P[0] = 1
    BY PowerDoubles
  <1>5. Arb!pa_arb_slot(full) = s
    OBVIOUS
  <1>6. full = n + 1
    OBVIOUS
  <1> HIDE DEF s, n
  <1>7. s <= MaxPow2
    BY <1>5
  <1>8. CASE full < A
    <2>1. s = 0 /\ P[0] * A = A
      BY <1>1, <1>3, <1>4, <1>8
    <2> QED
      BY <1>1, <1>4, <1>5, <1>8, <2>1 DEF Arb!Slots
  <1>9. CASE ~(full < A) /\ n = 0
    <2>1. A = 1 /\ full = 1
      BY <1>1, <1>6, <1>9
    <2>2. AtomShift = 0
      <3>1. ~(0 < AtomShift)
        <4> SUFFICES ASSUME 0 < AtomShift PROVE FALSE
          OBVIOUS
        <4>1. P[0] < P[AtomShift]
          BY <1>1, PowersGrow
        <4> QED
          BY <1>1, <1>4, <2>1, <4>1
      <3> QED
        BY <1>1, <3>1
    <2>3. l = 0
      BY <1>9, BitsOfNumber
    <2>4. s = 0
      BY <1>3, <1>9, <2>2, <2>3
    <2> QED
      BY <1>1, <1>4, <1>5, <2>1, <2>4 DEF Arb!Slots
  <1>10. CASE ~(full < A) /\ n # 0
    <2>1. l \in Nat \ {0} /\ P[l - 1] <= n /\ n < P[l]
      BY <1>2, <1>10, BitsOfNumber
    <2> HIDE DEF l
    <2>2. l - 1 \in Nat /\ (l - 1) + 1 = l /\ l \in Nat
      BY <2>1
    <2>3. P[l] = 2 * P[l - 1] /\ P[l] \in Nat /\ P[l - 1] \in Nat
      BY <2>2, PowerDoubles
    <2>4. ~(l < AtomShift)
      <3> SUFFICES ASSUME l < AtomShift PROVE FALSE
        OBVIOUS
      <3>1. P[l] < A
        BY <1>1, <2>2, PowersGrow
      <3> QED
        BY <1>1, <1>2, <1>6, <1>10, <2>1, <2>3, <3>1
    <2>5. s = l - AtomShift /\ s \in Nat /\ l = AtomShift + s
      BY <1>1, <1>3, <1>10, <2>2, <2>4
    <2>6. P[l] = P[s] * A
      <3>0. P[AtomShift + s] = P[AtomShift] * P[s] /\ P[s] \in Nat
        BY <1>1, <2>5, PowerOfSum, PowerDoubles
      <3>1. P[l] = P[AtomShift] * P[s] /\ P[s] \in Nat
        BY <2>5, <3>0
      <3> QED
        BY <1>1, <3>1
    <2>7. full <= P[l] /\ P[l] < 2 * full
      BY <1>2, <1>6, <2>1, <2>3
    <2> QED
      BY <1>1, <1>5, <1>7, <2>5, <2>6, <2>7 DEF Arb!Slots
  <1> QED
    BY <1>8, <1>9, <1>10

\* The atoms of a run of pages, and those at which it is cut for a slot.
RunType == [atom : 1 .. MaxPages, size : Nat \ {0}]
First(b) == b.atom * Arb!PageUnits
RunAtoms(b) == First(b) .. (First(b) + b.size * Arb!PageUnits - 1)
CutAtoms(b, s) == {Arb!pa_arb_build_atom(b.atom, s, i) : i \in 0 .. (ChunksOf(s) - 1)}
InSegment(b) == b.atom + b.size <= MaxPages + 1

LEMMA RunFacts ==
    ASSUME NEW b \in RunType
    PROVE  /\ First(b) \in Nat \ {0} /\ b.size * Arb!PageUnits \in Nat \ {0}
           /\ First(b) \in RunAtoms(b) /\ First(b) \div Arb!PageUnits = b.atom
           /\ \A a \in RunAtoms(b) : a \in Nat /\ a \div Arb!PageUnits \in Arb!Pages(b)
           /\ \A q \in Arb!Pages(b) : /\ q * Arb!PageUnits \in RunAtoms(b)
                                      /\ (q * Arb!PageUnits) \div Arb!PageUnits = q
           /\ InSegment(b) => RunAtoms(b) \subseteq Arb!Atoms
  <1> DEFINE U == Arb!PageUnits
             f == b.atom
             z == b.size
  <1>0. U \in Nat \ {0} /\ MaxPages \in Nat
    BY ArbConstants
  <1>1. f \in Nat \ {0} /\ z \in Nat \ {0}
    BY <1>0 DEF RunType
  <1> HIDE DEF f, z
  <1>2. \A x, y \in Nat \ {0} : x * y \in Nat \ {0}
    OBVIOUS
  <1>3. f * U \in Nat \ {0} /\ z * U \in Nat \ {0} /\ (f + z) * U = f * U + z * U
    BY <1>0, <1>1, <1>2
  <1>4. \A q \in Nat : (q * U) \div U = q
    <2> SUFFICES ASSUME NEW q \in Nat PROVE (q * U) \div U = q
      OBVIOUS
    <2>1. q * U = U * q + 0 /\ 0 \in 0 .. (U - 1)
      BY <1>0
    <2> QED
      BY <1>0, <2>1, DivisionUnique
  <1>5. ASSUME NEW a \in (f * U) .. (f * U + z * U - 1)
        PROVE  a \in Nat /\ a \div U \in f .. (f + z - 1)
    <2> DEFINE q == a \div U
               r == a % U
    <2>1. a \in Nat /\ f * U <= a /\ a < (f + z) * U
      BY <1>3
    <2>2. q \in Nat /\ r \in 0 .. (U - 1) /\ a = U * q + r
      BY <1>0, <2>1, DivisionFacts
    <2> HIDE DEF q, r
    <2>3. ~(q + 1 <= f)
      <3> SUFFICES ASSUME q + 1 <= f PROVE FALSE
        OBVIOUS
      <3>1. U * (q + 1) <= U * f
        BY <1>0, <1>1, <2>2
      <3>2. U * (q + 1) = U * q + U /\ U * f = f * U /\ U * q \in Nat
        BY <1>0, <1>1, <2>2
      <3> QED
        BY <1>0, <1>3, <2>1, <2>2, <3>1, <3>2
    <2>4. ~(f + z <= q)
      <3> SUFFICES ASSUME f + z <= q PROVE FALSE
        OBVIOUS
      <3>1. U * (f + z) <= U * q
        BY <1>0, <1>1, <2>2
      <3>2. U * (f + z) = (f + z) * U /\ U * q \in Nat
        BY <1>0, <1>1, <2>2
      <3> QED
        BY <1>0, <1>3, <2>1, <2>2, <3>1, <3>2
    <2>5. q \in f .. (f + z - 1)
      BY <1>1, <2>2, <2>3, <2>4
    <2> QED
      BY <2>1, <2>5 DEF q
  <1>6. ASSUME NEW q \in f .. (f + z - 1)
        PROVE  q * U \in (f * U) .. (f * U + z * U - 1) /\ (q * U) \div U = q
    <2>1. q \in Nat /\ f <= q /\ q + 1 <= f + z
      BY <1>1
    <2>2. f * U <= q * U /\ (q + 1) * U <= (f + z) * U
      BY <1>0, <1>1, <2>1
    <2>3. (q + 1) * U = q * U + U /\ q * U \in Nat
      BY <1>0, <2>1
    <2> QED
      BY <1>0, <1>3, <1>4, <2>1, <2>2, <2>3
  <1>7. ASSUME f + z <= MaxPages + 1
        PROVE  (f * U) .. (f * U + z * U - 1) \subseteq 0 .. (U * (MaxPages + 1) - 1)
    <2>1. (f + z) * U <= (MaxPages + 1) * U
      BY <1>0, <1>1, <1>7
    <2>2. (MaxPages + 1) * U = U * (MaxPages + 1) /\ U * (MaxPages + 1) \in Nat
      BY <1>0
    <2> QED
      BY <1>3, <2>1, <2>2
  <1>8. f * U \in (f * U) .. (f * U + z * U - 1)
    BY <1>3
  <1>9. (f * U) \div U = f
    BY <1>1, <1>4
  <1> QED
    BY <1>3, <1>5, <1>6, <1>7, <1>8, <1>9
    DEF First, RunAtoms, Arb!Pages, InSegment, Arb!Atoms, f, z

\* Runs that are apart have no atom in common.
LEMMA RunsApart ==
    ASSUME NEW b \in RunType, NEW c \in RunType, Arb!Apart(b, c)
    PROVE  RunAtoms(b) \cap RunAtoms(c) = {}
  <1>1. \A a \in RunAtoms(b) : a \div Arb!PageUnits \in Arb!Pages(b)
    BY RunFacts
  <1>2. \A a \in RunAtoms(c) : a \div Arb!PageUnits \in Arb!Pages(c)
    BY RunFacts
  <1>3. Arb!Pages(b) \cap Arb!Pages(c) = {}
    BY ArbConstants DEF Arb!Apart, Arb!Pages, RunType
  <1> QED
    BY <1>1, <1>2, <1>3

\* The chunks that a run is cut into are in the run, apart, and leave nothing.
LEMMA CutFacts ==
    ASSUME NEW b \in RunType, NEW s \in Arb!Slots, b.size = PagesOf(s)
    PROVE  /\ CutAtoms(b, s) \subseteq RunAtoms(b)
           /\ First(b) \in CutAtoms(b, s)
           /\ \A a \in CutAtoms(b, s) : a .. (a + Arb!Pow2[s] - 1) \subseteq RunAtoms(b)
           /\ \A a, c \in CutAtoms(b, s) :
                 a = c \/ a + Arb!Pow2[s] <= c \/ c + Arb!Pow2[s] <= a
           /\ \A u \in RunAtoms(b) : \E a \in CutAtoms(b, s) : u \in a .. (a + Arb!Pow2[s] - 1)
           /\ \A i, j \in 0 .. (ChunksOf(s) - 1) :
                 Arb!pa_arb_build_atom(b.atom, s, i) = Arb!pa_arb_build_atom(b.atom, s, j) => i = j
  <1> DEFINE U == Arb!PageUnits
             w == Arb!Pow2[s]
             n == ChunksOf(s)
             f == First(b)
             At(i) == f + w * i
  <1>1. /\ w \in Nat \ {0} /\ n \in Nat \ {0} /\ w * n = b.size * U
        /\ f \in Nat /\ b.size * U \in Nat
    BY ChunksFillPages, RunFacts
  <1>2. RunAtoms(b) = f .. (f + w * n - 1)
    BY <1>1 DEF RunAtoms
  <1>3. \A i : Arb!pa_arb_build_atom(b.atom, s, i) = At(i)
    BY DEF Arb!pa_arb_build_atom, First
  <1>4. CutAtoms(b, s) = {At(i) : i \in 0 .. (n - 1)}
    BY <1>3 DEF CutAtoms
  <1> HIDE DEF w, n, f
  <1>5. ASSUME NEW i \in 0 .. (n - 1)
        PROVE  w * i \in Nat /\ w * i + w <= w * n
    <2>1. i \in Nat /\ i + 1 <= n
      BY <1>1
    <2>2. w * (i + 1) <= w * n /\ w * (i + 1) = w * i + w
      BY <1>1, <2>1
    <2> QED
      BY <1>1, <2>1, <2>2
  <1>6. ASSUME NEW i \in 0 .. (n - 1), NEW j \in 0 .. (n - 1), i < j
        PROVE  At(i) + w <= At(j)
    <2>1. i \in Nat /\ j \in Nat /\ i + 1 <= j
      BY <1>1, <1>6
    <2>2. w * (i + 1) <= w * j /\ w * (i + 1) = w * i + w
      BY <1>1, <2>1
    <2> QED
      BY <1>1, <1>5, <2>1, <2>2
  <1>7. ASSUME NEW u \in f .. (f + w * n - 1)
        PROVE  \E i \in 0 .. (n - 1) : u \in At(i) .. (At(i) + w - 1)
    <2> DEFINE i == (u - f) \div w
               r == (u - f) % w
    <2>0. w * n \in Nat
      BY <1>1
    <2>1. u - f \in Nat /\ u - f < w * n
      BY <1>1, <2>0
    <2>2. i \in Nat /\ r \in 0 .. (w - 1) /\ u - f = w * i + r
      BY <1>1, <2>1, DivisionFacts
    <2> HIDE DEF i, r
    <2>3. ~(n <= i)
      <3> SUFFICES ASSUME n <= i PROVE FALSE
        OBVIOUS
      <3>1. w * n <= w * i
        BY <1>1, <2>2
      <3> QED
        BY <1>1, <2>0, <2>1, <2>2, <3>1
    <2>4. i \in 0 .. (n - 1)
      BY <1>1, <2>2, <2>3
    <2>5. u \in At(i) .. (At(i) + w - 1)
      BY <1>1, <1>5, <2>2, <2>4
    <2> QED
      BY <2>4, <2>5
  <1>8. \A i \in 0 .. (n - 1) : At(i) \in Nat /\ f <= At(i) /\ At(i) + w <= f + w * n
    BY <1>1, <1>5
  <1>9. f \in {At(i) : i \in 0 .. (n - 1)}
    <2>1. 0 \in 0 .. (n - 1) /\ At(0) = f
      BY <1>1
    <2> QED
      BY <2>1
  <1>10. \A i, j \in 0 .. (n - 1) : i # j => At(i) + w <= At(j) \/ At(j) + w <= At(i)
    <2> SUFFICES ASSUME NEW i \in 0 .. (n - 1), NEW j \in 0 .. (n - 1), i # j
                 PROVE  At(i) + w <= At(j) \/ At(j) + w <= At(i)
      OBVIOUS
    <2>1. i < j \/ j < i
      BY <1>1
    <2> QED
      BY <1>6, <2>1
  <1>11. \A i, j \in 0 .. (n - 1) : At(i) = At(j) => i = j
    BY <1>1, <1>8, <1>10
  <1> HIDE DEF At
  <1>12. /\ CutAtoms(b, s) \subseteq RunAtoms(b)
         /\ \A a \in CutAtoms(b, s) : a .. (a + w - 1) \subseteq RunAtoms(b)
    <2> SUFFICES ASSUME NEW i \in 0 .. (n - 1)
                 PROVE  At(i) \in RunAtoms(b) /\ At(i) .. (At(i) + w - 1) \subseteq RunAtoms(b)
      BY <1>4
    <2>1. At(i) \in Nat /\ f <= At(i) /\ At(i) + w <= f + w * n /\ w * n \in Nat
      BY <1>1, <1>8
    <2> QED
      BY <1>1, <1>2, <2>1
  <1>13. \A a, c \in CutAtoms(b, s) : a = c \/ a + w <= c \/ c + w <= a
    BY <1>4, <1>10
  <1>14. \A u \in RunAtoms(b) : \E a \in CutAtoms(b, s) : u \in a .. (a + w - 1)
    BY <1>2, <1>4, <1>7
  <1> QED
    BY <1>3, <1>4, <1>9, <1>11, <1>12, <1>13, <1>14 DEF w, n, f

\* A run is one large block, or it is cut up for a slot.
LargeRun(b, hd) ==
    /\ hd[First(b)].magic = "large_inuse" /\ hd[First(b)].size = b.size
    /\ \A a \in RunAtoms(b) \ {First(b)} : hd[a].magic = "none"

SmallRun(b, s, hd) ==
    /\ b.size = PagesOf(s)
    /\ \A a \in CutAtoms(b, s) : hd[a].magic \in {"small_inuse", "small_free"} /\ hd[a].slot = s
    /\ \A a \in RunAtoms(b) \ CutAtoms(b, s) : hd[a].magic = "none"

RunSound(b, hd) == LargeRun(b, hd) \/ \E s \in Arb!Slots : SmallRun(b, s, hd)

HeldSound(runs) ==
    /\ runs \subseteq {b \in RunType : InSegment(b)}
    /\ \A b, c \in runs : b = c \/ Arb!Apart(b, c)

HeadersKnown(runs, hd) ==
    \A a \in Arb!Atoms : hd[a].magic # "none" => \E b \in runs : a \in RunAtoms(b)

\* The atoms behind a header, and whether they hold a request.
RoomOf(h) == IF h.magic = "large_inuse" THEN h.size * Arb!PageUnits ELSE Arb!Pow2[h.slot]

Holds(h, size) ==
    LET full == size + HeaderBytes
        room == RoomOf(h) * Arb!AtomBytes
    IN  /\ full <= room
        /\ h.magic = "small_inuse" => room < 2 * full \/ room = Arb!AtomBytes

PoolInv ==
    /\ Arb!TypeOK
    /\ HeldSound(held)
    /\ \A b \in held : RunSound(b, header)
    /\ HeadersKnown(held, header)
    /\ Arb!ChainsAgree
    /\ \A a \in Arb!InUse : Holds(header[a], need[a])

-----------------------------------------------------------------------------
\* Where a chunk is in its run.
LEMMA ChunkInRun ==
    ASSUME PoolInv, NEW a \in Arb!Chunks
    PROVE  \E b \in held :
              /\ a \in RunAtoms(b)
              /\ \/ /\ LargeRun(b, header) /\ a = First(b) /\ Arb!Extent(a) = RunAtoms(b)
                 \/ \E s \in Arb!Slots :
                       /\ SmallRun(b, s, header) /\ a \in CutAtoms(b, s)
                       /\ Arb!Extent(a) = a .. (a + Arb!Pow2[s] - 1)
  <1>1. a \in Arb!Atoms
        /\ header[a].magic \in {"small_inuse", "small_free", "large_inuse"}
    BY DEF Arb!Chunks, Arb!InUse
  <1>2. PICK b \in held : a \in RunAtoms(b)
    BY <1>1 DEF PoolInv, HeadersKnown
  <1>3. b \in RunType /\ RunSound(b, header)
    BY DEF PoolInv, HeldSound
  <1>4. CASE LargeRun(b, header)
    <2>1. a = First(b)
      BY <1>1, <1>2, <1>4 DEF LargeRun
    <2>2. Arb!Extent(a) = RunAtoms(b)
      BY <1>4, <2>1 DEF LargeRun, Arb!Extent, RunAtoms
    <2> QED
      BY <1>2, <1>4, <2>1, <2>2
  <1>5. ASSUME NEW s \in Arb!Slots, SmallRun(b, s, header)
        PROVE  a \in CutAtoms(b, s) /\ Arb!Extent(a) = a .. (a + Arb!Pow2[s] - 1)
    <2>1. a \in CutAtoms(b, s)
      BY <1>1, <1>2, <1>5 DEF SmallRun
    <2>2. header[a].magic # "large_inuse" /\ header[a].slot = s
      BY <1>5, <2>1 DEF SmallRun
    <2> QED
      BY <2>1, <2>2 DEF Arb!Extent
  <1> QED
    BY <1>2, <1>3, <1>4, <1>5 DEF RunSound

LEMMA ExtentInRun ==
    ASSUME PoolInv, NEW a \in Arb!Chunks, NEW b \in held, a \in RunAtoms(b)
    PROVE  Arb!Extent(a) \subseteq RunAtoms(b)
  <1>1. PICK c \in held :
           /\ a \in RunAtoms(c)
           /\ \/ /\ LargeRun(c, header) /\ a = First(c) /\ Arb!Extent(a) = RunAtoms(c)
              \/ \E s \in Arb!Slots :
                    /\ SmallRun(c, s, header) /\ a \in CutAtoms(c, s)
                    /\ Arb!Extent(a) = a .. (a + Arb!Pow2[s] - 1)
    BY ChunkInRun
  <1>2. b \in RunType /\ c \in RunType
    BY DEF PoolInv, HeldSound
  <1>3. b = c
    BY <1>1, <1>2, RunsApart DEF PoolInv, HeldSound
  <1>4. ASSUME NEW s \in Arb!Slots, SmallRun(c, s, header), a \in CutAtoms(c, s)
        PROVE  a .. (a + Arb!Pow2[s] - 1) \subseteq RunAtoms(c)
    BY <1>2, <1>4, CutFacts DEF SmallRun
  <1> QED
    BY <1>1, <1>3, <1>4

LEMMA PoolChunksApart ==
    ASSUME PoolInv
    PROVE  Arb!ChunksApart
  <1>1. ASSUME NEW a \in Arb!Chunks, NEW c \in Arb!Chunks, a # c
        PROVE  Arb!Extent(a) \cap Arb!Extent(c) = {}
    <2>1. PICK b \in held :
             /\ a \in RunAtoms(b)
             /\ \/ /\ LargeRun(b, header) /\ a = First(b) /\ Arb!Extent(a) = RunAtoms(b)
                \/ \E s \in Arb!Slots :
                      /\ SmallRun(b, s, header) /\ a \in CutAtoms(b, s)
                      /\ Arb!Extent(a) = a .. (a + Arb!Pow2[s] - 1)
      BY ChunkInRun
    <2>2. PICK d \in held : c \in RunAtoms(d)
      BY ChunkInRun
    <2>3. b \in RunType /\ d \in RunType
      BY DEF PoolInv, HeldSound
    <2>4. Arb!Extent(a) \subseteq RunAtoms(b) /\ Arb!Extent(c) \subseteq RunAtoms(d)
      BY <2>1, <2>2, ExtentInRun
    <2>5. CASE b # d
      <3>1. RunAtoms(b) \cap RunAtoms(d) = {}
        BY <2>3, <2>5, RunsApart DEF PoolInv, HeldSound
      <3> QED
        BY <2>4, <3>1
    <2>6. CASE b = d
      <3>1. header[c].magic # "none"
        BY DEF Arb!Chunks, Arb!InUse
      <3>2. ~(LargeRun(b, header) /\ a = First(b))
        BY <1>1, <2>2, <2>6, <3>1 DEF LargeRun
      <3>3. PICK s \in Arb!Slots : /\ SmallRun(b, s, header) /\ a \in CutAtoms(b, s)
                                   /\ Arb!Extent(a) = a .. (a + Arb!Pow2[s] - 1)
        BY <2>1, <3>2
      <3>4. c \in CutAtoms(b, s)
        BY <2>2, <2>6, <3>1, <3>3 DEF SmallRun
      <3>5. Arb!Extent(c) = c .. (c + Arb!Pow2[s] - 1)
        <4>1. header[c].magic # "large_inuse" /\ header[c].slot = s
          BY <3>3, <3>4 DEF SmallRun
        <4> QED
          BY <4>1 DEF Arb!Extent
      <3>6. a + Arb!Pow2[s] <= c \/ c + Arb!Pow2[s] <= a
        BY <1>1, <2>3, <3>3, <3>4, CutFacts DEF SmallRun
      <3>7. a \in Nat /\ c \in Nat /\ Arb!Pow2[s] \in Nat
        BY <2>1, <2>2, <2>3, RunFacts, ChunksFillPages
      <3> QED
        BY <3>3, <3>5, <3>6, <3>7
    <2> QED
      BY <2>5, <2>6
  <1>2. ASSUME NEW a \in Arb!Chunks
        PROVE  \E b \in held : \A u \in Arb!Extent(a) : u \div Arb!PageUnits \in Arb!Pages(b)
    <2>1. PICK b \in held : a \in RunAtoms(b)
      BY ChunkInRun
    <2>2. Arb!Extent(a) \subseteq RunAtoms(b) /\ b \in RunType
      BY <2>1, ExtentInRun DEF PoolInv, HeldSound
    <2> QED
      BY <2>2, RunFacts
  <1> QED
    BY <1>1, <1>2 DEF Arb!ChunksApart

\* The instance has a name of its own for the cardinality.
LEMMA SameCardinality == \A S : Arb!Cardinality(S) = Cardinality(S)
  BY DEF Arb!Cardinality, Cardinality

LEMMA ExtentSize ==
    ASSUME PoolInv, NEW a \in Arb!InUse
    PROVE  Arb!Cardinality(Arb!Extent(a)) = RoomOf(header[a])
  <1>1. a \in Arb!Atoms /\ header[a].magic \in {"small_inuse", "large_inuse"} /\ a \in Nat
    BY ArbConstants DEF Arb!InUse, Arb!Atoms
  <1>2. RoomOf(header[a]) \in Nat
    <2>1. header[a].size \in Nat /\ header[a].slot \in Nat
      BY <1>1, ArbConstants DEF PoolInv, Arb!TypeOK, Arb!Slots
    <2>2. Arb!Pow2[header[a].slot] \in Nat
      BY <2>1, PowerDoubles
    <2>3. header[a].size * Arb!PageUnits \in Nat
      BY <2>1, ArbConstants
    <2> QED
      BY <2>2, <2>3 DEF RoomOf
  <1>3. Arb!Extent(a) = a .. (a + RoomOf(header[a]) - 1)
    BY <1>1 DEF Arb!Extent, RoomOf
  <1> DEFINE r == RoomOf(header[a])
  <1> HIDE DEF r
  <1>4. r \in Nat /\ Cardinality(a .. (a + r - 1)) = r
    <2>1. r \in Nat /\ a \in Int /\ a + r - 1 \in Int
      BY <1>1, <1>2 DEF r
    <2>2. Cardinality(a .. (a + r - 1)) = IF a > a + r - 1 THEN 0 ELSE a + r - 1 - a + 1
      BY <2>1, FS_Interval
    <2> QED
      BY <1>1, <2>1, <2>2
  <1> QED
    BY <1>3, <1>4, SameCardinality DEF r

LEMMA PoolRoomEnough ==
    ASSUME PoolInv
    PROVE  Arb!RoomEnough
  <1> SUFFICES ASSUME NEW a \in Arb!InUse
               PROVE  LET room == Arb!Cardinality(Arb!Extent(a)) * Arb!AtomBytes
                          full == need[a] + HeaderBytes
                      IN  /\ full <= room
                          /\ header[a].magic = "small_inuse" =>
                                room < 2 * full \/ room = Arb!AtomBytes
    BY DEF Arb!RoomEnough
  <1>1. Holds(header[a], need[a])
    BY DEF PoolInv
  <1>2. Arb!Cardinality(Arb!Extent(a)) = RoomOf(header[a])
    BY ExtentSize
  <1> QED
    BY <1>1, <1>2 DEF Holds

LEMMA PoolLargeRecorded ==
    ASSUME PoolInv
    PROVE  Arb!LargeRecorded
  <1>1. ASSUME NEW a \in Arb!Atoms, header[a].magic = "large_inuse"
        PROVE  Arb!Block(a \div Arb!PageUnits, header[a].size) \in held
    <2>1. a \in Arb!Chunks
      BY <1>1 DEF Arb!Chunks, Arb!InUse
    <2>2. PICK b \in held :
             \/ LargeRun(b, header) /\ a = First(b)
             \/ \E s \in Arb!Slots : SmallRun(b, s, header) /\ a \in CutAtoms(b, s)
      BY <2>1, ChunkInRun
    <2>3. LargeRun(b, header) /\ a = First(b)
      BY <1>1, <2>2 DEF SmallRun
    <2>4. b \in RunType
      BY DEF PoolInv, HeldSound
    <2>5. a \div Arb!PageUnits = b.atom /\ header[a].size = b.size
      BY <2>3, <2>4, RunFacts DEF LargeRun
    <2>6. b = [atom |-> b.atom, size |-> b.size]
      BY <2>4 DEF RunType
    <2> QED
      BY <2>5, <2>6 DEF Arb!Block
  <1>2. ASSUME NEW b \in held, NEW q \in Arb!Pages(b)
        PROVE  \E a \in Arb!Chunks : \E u \in Arb!Extent(a) : q = u \div Arb!PageUnits
    <2>1. b \in RunType /\ InSegment(b) /\ RunSound(b, header)
      BY DEF PoolInv, HeldSound
    <2> DEFINE u == q * Arb!PageUnits
    <2>2. u \in RunAtoms(b) /\ u \div Arb!PageUnits = q
      BY <2>1, RunFacts
    <2>3. RunAtoms(b) \subseteq Arb!Atoms /\ First(b) \in RunAtoms(b)
      BY <2>1, RunFacts
    <2> HIDE DEF u
    <2>4. CASE LargeRun(b, header)
      <3>1. First(b) \in Arb!Chunks /\ Arb!Extent(First(b)) = RunAtoms(b)
        BY <2>3, <2>4 DEF LargeRun, Arb!Chunks, Arb!InUse, Arb!Extent, RunAtoms
      <3> QED
        BY <2>2, <3>1
    <2>5. ASSUME NEW s \in Arb!Slots, SmallRun(b, s, header)
          PROVE  \E a \in Arb!Chunks : u \in Arb!Extent(a)
      <3>1. PICK a \in CutAtoms(b, s) : u \in a .. (a + Arb!Pow2[s] - 1)
        BY <2>1, <2>2, <2>5, CutFacts DEF SmallRun
      <3>2. a \in RunAtoms(b)
        BY <2>1, <2>5, CutFacts DEF SmallRun
      <3>3. header[a].magic \in {"small_inuse", "small_free"} /\ header[a].slot = s
        BY <2>5 DEF SmallRun
      <3>4. a \in Arb!Chunks
        BY <2>3, <3>2, <3>3 DEF Arb!Chunks, Arb!InUse
      <3>5. u \in Arb!Extent(a)
        BY <3>1, <3>3 DEF Arb!Extent
      <3> QED
        BY <3>4, <3>5
    <2> QED
      BY <2>1, <2>2, <2>4, <2>5 DEF RunSound
  <1>3. \A a \in Arb!Chunks : \A u \in Arb!Extent(a) :
           \E b \in held : u \div Arb!PageUnits \in Arb!Pages(b)
    BY PoolChunksApart DEF Arb!ChunksApart
  <1>4. UNION {Arb!Pages(b) : b \in held} =
           {u \div Arb!PageUnits : u \in UNION {Arb!Extent(a) : a \in Arb!Chunks}}
    BY <1>2, <1>3
  <1> QED
    BY <1>1, <1>4 DEF Arb!LargeRecorded

-----------------------------------------------------------------------------
\* What a step may change at the atoms of a run without touching how it is cut.
Alike(h, h1) ==
    \/ h1 = h
    \/ /\ h.magic \in {"small_inuse", "small_free"} /\ h1.magic \in {"small_inuse", "small_free"}
       /\ h1.slot = h.slot

LEMMA RunKept ==
    ASSUME NEW b \in RunType, NEW hd, NEW hd1, RunSound(b, hd),
           \A a \in RunAtoms(b) : Alike(hd[a], hd1[a])
    PROVE  RunSound(b, hd1)
  <1>1. First(b) \in RunAtoms(b)
    BY RunFacts
  <1>2. CASE LargeRun(b, hd)
    BY <1>1, <1>2 DEF LargeRun, Alike, RunSound
  <1>3. ASSUME NEW s \in Arb!Slots, SmallRun(b, s, hd) PROVE SmallRun(b, s, hd1)
    <2>1. CutAtoms(b, s) \subseteq RunAtoms(b)
      BY <1>3, CutFacts DEF SmallRun
    <2> QED
      BY <1>3, <2>1 DEF SmallRun, Alike
  <1> QED
    BY <1>2, <1>3 DEF RunSound

OnChain(chain) == {chain[i] : i \in DOMAIN chain}
FreeAt(s, hd) == {a \in Arb!Atoms : hd[a].magic = "small_free" /\ hd[a].slot = s}
HdType == [magic : {"none", "small_inuse", "small_free", "large_inuse"},
           slot : Arb!Slots, size : 0 .. (SizeWrap - 1)]

ChainRight(chain, s, hd) ==
    /\ \A i, j \in DOMAIN chain : chain[i] = chain[j] => i = j
    /\ OnChain(chain) = FreeAt(s, hd)

LEMMA ChainsByParts ==
    Arb!ChainsAgree <=> \A s \in Arb!Slots : ChainRight(pri_free[s], s, header)
  BY DEF Arb!ChainsAgree, ChainRight, OnChain, FreeAt

\* The first chunk of a chain is taken, be it the chain of the slot or the one
\* that a fresh page was cut into.
LEMMA TakeFirstKeeps ==
    ASSUME PoolInv, NEW slot \in Arb!Slots, NEW size \in Nat,
           NEW chain \in Seq(Arb!Atoms), chain # <<>>,
           \A i, j \in DOMAIN chain : chain[i] = chain[j] => i = j,
           \A a \in OnChain(chain) :
              \/ header[a].magic = "none"
              \/ header[a].magic = "small_free" /\ header[a].slot = slot,
           FreeAt(slot, header) \subseteq OnChain(chain),
           Holds([magic |-> "small_inuse", slot |-> slot, size |-> 0], size),
           Arb!TakeFirst(chain, slot, size)
    PROVE  /\ pri_free' \in [Arb!Slots -> Seq(Arb!Atoms)]
           /\ header' \in [Arb!Atoms -> HdType]
           /\ need' \in [Arb!Atoms -> Nat]
           /\ \A s \in Arb!Slots : ChainRight(pri_free'[s], s, header')
           /\ \A a \in Arb!Atoms : header'[a].magic \in {"small_inuse", "large_inuse"}
                                      => Holds(header'[a], need'[a])
           /\ \A a \in OnChain(chain) : /\ header'[a].magic \in {"small_inuse", "small_free"}
                                       /\ header'[a].slot = slot
           /\ \A a \in Arb!Atoms \ OnChain(chain) : header'[a] = header[a]
  <1> DEFINE h == Head(chain)
             t == Tail(chain)
             New(a) == [magic |-> IF a = h THEN "small_inuse" ELSE "small_free",
                        slot |-> slot, size |-> 0]
  <1>1. /\ pri_free \in [Arb!Slots -> Seq(Arb!Atoms)]
        /\ header \in [Arb!Atoms -> HdType] /\ need \in [Arb!Atoms -> Nat]
        /\ \A s \in Arb!Slots : ChainRight(pri_free[s], s, header)
        /\ \A a \in Arb!Atoms : header[a].magic \in {"small_inuse", "large_inuse"}
                                      => Holds(header[a], need[a])
    BY ChainsByParts DEF PoolInv, Arb!TypeOK, HdType, Arb!InUse
  <1>2. /\ h \in Arb!Atoms /\ t \in Seq(Arb!Atoms)
        /\ h \in OnChain(chain)
        /\ OnChain(t) = OnChain(chain) \ {h}
        /\ \A i, j \in DOMAIN t : t[i] = t[j] => i = j
    <2>1. /\ h = chain[1] /\ t \in Seq(Arb!Atoms) /\ Len(t) = Len(chain) - 1
          /\ Len(chain) \in Nat \ {0}
          /\ \A i \in 1 .. Len(t) : t[i] = chain[i + 1]
      OBVIOUS
    <2> HIDE DEF h, t
    <2>2. DOMAIN chain = 1 .. Len(chain) /\ DOMAIN t = 1 .. Len(t) /\ 1 \in DOMAIN chain
      BY <2>1
    <2>3. \A i \in DOMAIN t : i + 1 \in DOMAIN chain /\ t[i] = chain[i + 1] /\ i + 1 # 1
      BY <2>1, <2>2
    <2>4. \A k \in DOMAIN chain : k # 1 => k - 1 \in DOMAIN t /\ t[k - 1] = chain[k]
      <3> SUFFICES ASSUME NEW k \in DOMAIN chain, k # 1
                   PROVE  k - 1 \in DOMAIN t /\ t[k - 1] = chain[k]
        OBVIOUS
      <3>1. k - 1 \in DOMAIN t /\ (k - 1) + 1 = k
        BY <2>1, <2>2
      <3> QED
        BY <2>3, <3>1
    <2>5. OnChain(t) = OnChain(chain) \ {h}
      <3>1. ASSUME NEW i \in DOMAIN t PROVE t[i] \in OnChain(chain) /\ t[i] # h
        <4>1. i + 1 \in DOMAIN chain /\ t[i] = chain[i + 1] /\ i + 1 # 1
          BY <2>3
        <4>2. chain[i + 1] # chain[1]
          BY <2>2, <4>1
        <4> QED
          BY <2>1, <4>1, <4>2 DEF OnChain
      <3>2. ASSUME NEW k \in DOMAIN chain, chain[k] # h PROVE chain[k] \in OnChain(t)
        <4>1. k # 1
          BY <2>1, <3>2
        <4> QED
          BY <2>4, <4>1 DEF OnChain
      <3> QED
        BY <3>1, <3>2 DEF OnChain
    <2>7. h \in OnChain(chain)
      BY <2>1, <2>2 DEF OnChain
    <2>8. h \in Arb!Atoms
      BY <2>1, <2>2
    <2>6. \A i, j \in DOMAIN t : t[i] = t[j] => i = j
      <3> SUFFICES ASSUME NEW i \in DOMAIN t, NEW j \in DOMAIN t, t[i] = t[j] PROVE i = j
        OBVIOUS
      <3>1. i + 1 = j + 1
        BY <2>3
      <3> QED
        BY <2>1, <2>2, <3>1
    <2> QED
      BY <2>1, <2>5, <2>6, <2>7, <2>8
  <1> HIDE DEF h, t
  <1>3. /\ pri_free' = [pri_free EXCEPT ![slot] = t]
        /\ header' = [a \in Arb!Atoms |-> IF a \in OnChain(chain) THEN New(a) ELSE header[a]]
        /\ need' = [need EXCEPT ![h] = size]
    BY DEF Arb!TakeFirst, h, t, OnChain
  <1>4. OnChain(chain) \subseteq Arb!Atoms
    BY DEF OnChain
  <1>5. pri_free' \in [Arb!Slots -> Seq(Arb!Atoms)] /\ need' \in [Arb!Atoms -> Nat]
    BY <1>1, <1>2, <1>3
  <1>6. \A a \in Arb!Atoms : New(a) \in HdType
    BY ArbConstants DEF HdType
  <1>7. header' \in [Arb!Atoms -> HdType]
    <2> HIDE DEF New
    <2> QED
      BY <1>1, <1>3, <1>6
  <1>8. /\ \A a \in OnChain(chain) : header'[a] = New(a)
        /\ \A a \in Arb!Atoms \ OnChain(chain) : header'[a] = header[a]
    <2> HIDE DEF New
    <2> QED
      BY <1>3, <1>4
  <1>11. \A a \in OnChain(chain) :
            /\ header'[a].magic = (IF a = h THEN "small_inuse" ELSE "small_free")
            /\ header'[a].slot = slot
    <2> SUFFICES ASSUME NEW a \in OnChain(chain)
                 PROVE  /\ header'[a].magic = (IF a = h THEN "small_inuse" ELSE "small_free")
                        /\ header'[a].slot = slot
      OBVIOUS
    <2>1. header'[a] = New(a)
      BY <1>8
    <2> QED
      BY <2>1
  <1> HIDE DEF New
  <1>9. ASSUME NEW s \in Arb!Slots PROVE ChainRight(pri_free'[s], s, header')
    <2>1. CASE s = slot
      <3>1. pri_free'[s] = t
        BY <1>1, <1>3, <2>1
      <3>2. ASSUME NEW a \in Arb!Atoms
            PROVE  a \in FreeAt(s, header') <=> a \in OnChain(chain) /\ a # h
        <4>1. CASE a \in OnChain(chain)
          BY <1>11, <2>1, <4>1 DEF FreeAt
        <4>2. CASE a \notin OnChain(chain)
          BY <1>8, <2>1, <4>2 DEF FreeAt
        <4> QED
          BY <4>1, <4>2
      <3>3. FreeAt(s, header') = OnChain(chain) \ {h}
        BY <1>4, <3>2 DEF FreeAt
      <3> QED
        BY <1>2, <3>1, <3>3 DEF ChainRight
    <2>2. CASE s # slot
      <3>1. pri_free'[s] = pri_free[s]
        BY <1>1, <1>3, <2>2
      <3>2. ASSUME NEW a \in Arb!Atoms
            PROVE  a \in FreeAt(s, header') <=> a \in FreeAt(s, header)
        <4>1. CASE a \in OnChain(chain)
          BY <1>11, <2>2, <4>1 DEF FreeAt
        <4>2. CASE a \notin OnChain(chain)
          BY <1>8, <4>2 DEF FreeAt
        <4> QED
          BY <4>1, <4>2
      <3>3. FreeAt(s, header') = FreeAt(s, header)
        BY <3>2 DEF FreeAt
      <3> QED
        BY <1>1, <3>1, <3>3 DEF ChainRight
    <2> QED
      BY <2>1, <2>2
  <1>10. ASSUME NEW a \in Arb!Atoms, header'[a].magic \in {"small_inuse", "large_inuse"}
         PROVE  Holds(header'[a], need'[a])
    <2>1. CASE a = h
      <3>1. header'[a] = [magic |-> "small_inuse", slot |-> slot, size |-> 0]
        BY <1>2, <1>8, <2>1 DEF New
      <3>2. need'[a] = size
        BY <1>1, <1>3, <2>1
      <3> QED
        BY <3>1, <3>2
    <2>2. CASE a # h
      <3>1. a \notin OnChain(chain)
        BY <1>10, <1>11, <2>2
      <3>2. header'[a] = header[a] /\ need'[a] = need[a]
        BY <1>1, <1>3, <1>8, <2>2, <3>1
      <3> QED
        BY <1>1, <1>10, <3>2
    <2> QED
      BY <2>1, <2>2
  <1> QED
    BY <1>5, <1>7, <1>8, <1>9, <1>10, <1>11

LEMMA SlotHolds ==
    ASSUME NEW size \in Nat, size + HeaderBytes <= LogWrap,
           Arb!pa_arb_slot(size + HeaderBytes) <= MaxPow2
    PROVE  /\ Arb!pa_arb_slot(size + HeaderBytes) \in Arb!Slots
           /\ Holds([magic |-> "small_inuse", slot |-> Arb!pa_arb_slot(size + HeaderBytes),
                     size |-> 0], size)
  <1>1. size + HeaderBytes \in Nat \ {0}
    BY ArbConstants
  <1> QED
    BY <1>1, SlotRoom DEF Holds, RoomOf

\* The invariant after a step, from its parts.
LEMMA PoolInvAfter ==
    ASSUME pool' \in {"open", "closed"},
           pri_free' \in [Arb!Slots -> Seq(Arb!Atoms)],
           header' \in [Arb!Atoms -> HdType],
           need' \in [Arb!Atoms -> Nat],
           HeldSound(held'),
           \A b \in held' : RunSound(b, header'),
           HeadersKnown(held', header'),
           \A s \in Arb!Slots : ChainRight(pri_free'[s], s, header'),
           \A a \in Arb!Atoms : header'[a].magic \in {"small_inuse", "large_inuse"}
                                   => Holds(header'[a], need'[a])
    PROVE  PoolInv'
  <1>1. \A b \in held' : b.atom \in Nat /\ b.size \in Nat
    BY ArbConstants DEF HeldSound, RunType
  <1>2. Arb!TypeOK'
    BY <1>1 DEF Arb!TypeOK, HdType
  <1>3. Arb!ChainsAgree'
    BY DEF Arb!ChainsAgree, ChainRight, OnChain, FreeAt
  <1>4. \A a \in Arb!InUse' : Holds(header[a], need[a])'
    BY DEF Arb!InUse, Holds, RoomOf
  <1>5. /\ (\A b \in held : RunSound(b, header))'
        /\ HeldSound(held)' /\ HeadersKnown(held, header)'
    BY DEF RunSound, LargeRun, SmallRun, HeldSound, HeadersKnown
  <1> QED
    BY <1>2, <1>3, <1>4, <1>5 DEF PoolInv

\* The other way around.
LEMMA PoolInvParts ==
    ASSUME PoolInv
    PROVE  /\ pool \in {"open", "closed"}
           /\ pri_free \in [Arb!Slots -> Seq(Arb!Atoms)]
           /\ header \in [Arb!Atoms -> HdType] /\ need \in [Arb!Atoms -> Nat]
           /\ held \subseteq RunType
           /\ \A b \in held : RunSound(b, header) /\ RunAtoms(b) \subseteq Arb!Atoms
           /\ \A b, c \in held : b = c \/ RunAtoms(b) \cap RunAtoms(c) = {}
           /\ \A s \in Arb!Slots : ChainRight(pri_free[s], s, header)
           /\ \A a \in Arb!Atoms : header[a].magic \in {"small_inuse", "large_inuse"}
                                      => Holds(header[a], need[a])
  <1>1. held \subseteq RunType /\ \A b \in held : InSegment(b) /\ RunSound(b, header)
    BY DEF PoolInv, HeldSound
  <1>2. \A b, c \in held : b = c \/ RunAtoms(b) \cap RunAtoms(c) = {}
    BY <1>1, RunsApart DEF PoolInv, HeldSound
  <1>3. \A b \in held : RunAtoms(b) \subseteq Arb!Atoms
    BY <1>1, RunFacts
  <1>4. \A a \in Arb!Atoms : header[a].magic \in {"small_inuse", "large_inuse"}
                                      => Holds(header[a], need[a])
    BY DEF PoolInv, Arb!InUse
  <1> QED
    BY <1>1, <1>2, <1>3, <1>4, ChainsByParts DEF PoolInv, Arb!TypeOK, HdType

\* What the page allocator hands out is nobody's.
LEMMA FreshRun ==
    ASSUME PoolInv, NEW matom \in 1 .. MaxPages, NEW count \in Nat \ {0},
           Arb!PageRun(matom, count)
    PROVE  LET b == Arb!Block(matom, count) IN
           /\ b \in RunType /\ b.atom = matom /\ b.size = count
           /\ HeldSound(held \cup {b})
           /\ RunAtoms(b) \subseteq Arb!Atoms
           /\ \A a \in RunAtoms(b) : header[a].magic = "none"
           /\ \A c \in held : RunAtoms(c) \cap RunAtoms(b) = {}
  <1> DEFINE b == Arb!Block(matom, count)
  <1>1. b \in RunType /\ b.atom = matom /\ b.size = count /\ InSegment(b)
    BY DEF Arb!Block, RunType, Arb!PageRun, InSegment
  <1>2. \A c \in held : Arb!Apart(b, c)
    BY DEF Arb!PageRun
  <1> HIDE DEF b
  <1>3. \A c \in held : Arb!Apart(c, b)
    BY <1>2 DEF Arb!Apart
  <1>4. held \subseteq RunType
    BY DEF PoolInv, HeldSound
  <1>5. \A c \in held : RunAtoms(c) \cap RunAtoms(b) = {}
    BY <1>1, <1>3, <1>4, RunsApart
  <1>6. RunAtoms(b) \subseteq Arb!Atoms
    BY <1>1, RunFacts
  <1>7. \A a \in RunAtoms(b) : header[a].magic = "none"
    BY <1>5, <1>6 DEF PoolInv, HeadersKnown
  <1>8. HeldSound(held \cup {b})
    BY <1>1, <1>2, <1>3 DEF PoolInv, HeldSound
  <1> QED
    BY <1>1, <1>5, <1>6, <1>7, <1>8 DEF b

LEMMA AllocSmallKeeps ==
    ASSUME PoolInv, RequestsFit, NEW size \in ReqSizes, Arb!AllocSmall(size), UNCHANGED pool
    PROVE  PoolInv'
  <1> DEFINE slot == Arb!pa_arb_slot(size + HeaderBytes)
             count == PagesOf(slot)
  <1>1. size \in Nat /\ size + HeaderBytes <= LogWrap
    BY ArbConstants DEF RequestsFit
  <1>2. slot <= MaxPow2
    BY DEF Arb!AllocSmall
  <1>3. /\ slot \in Arb!Slots
        /\ Holds([magic |-> "small_inuse", slot |-> slot, size |-> 0], size)
    BY <1>1, <1>2, SlotHolds
  <1>4. \/ /\ pri_free[slot] # <<>>
           /\ Arb!TakeFirst(pri_free[slot], slot, size)
           /\ held' = held
        \/ /\ pri_free[slot] = <<>>
           /\ \E matom \in 1 .. MaxPages :
                 /\ Arb!PageRun(matom, count)
                 /\ Arb!TakeFirst(Arb!CutPage(matom, slot), slot, size)
                 /\ held' = held \cup {Arb!Block(matom, count)}
    BY DEF Arb!AllocSmall, PagesOf
  <1> HIDE DEF slot, count
  <1>5. CASE /\ pri_free[slot] # <<>>
             /\ Arb!TakeFirst(pri_free[slot], slot, size)
             /\ held' = held
    <2> DEFINE chain == pri_free[slot]
    <2>1. /\ chain \in Seq(Arb!Atoms) /\ chain # <<>>
          /\ \A i, j \in DOMAIN chain : chain[i] = chain[j] => i = j
          /\ OnChain(chain) = FreeAt(slot, header)
      BY <1>3, <1>5, PoolInvParts DEF ChainRight
    <2>2. Arb!TakeFirst(chain, slot, size)
      BY <1>5
    <2> HIDE DEF chain
    <2>3. \A a \in OnChain(chain) :
             header[a].magic = "small_free" /\ header[a].slot = slot
      BY <2>1 DEF FreeAt
    <2>4. /\ pri_free' \in [Arb!Slots -> Seq(Arb!Atoms)]
          /\ header' \in [Arb!Atoms -> HdType]
          /\ need' \in [Arb!Atoms -> Nat]
          /\ \A s \in Arb!Slots : ChainRight(pri_free'[s], s, header')
          /\ \A a \in Arb!Atoms : header'[a].magic \in {"small_inuse", "large_inuse"}
                                     => Holds(header'[a], need'[a])
          /\ \A a \in OnChain(chain) : /\ header'[a].magic \in {"small_inuse", "small_free"}
                                      /\ header'[a].slot = slot
          /\ \A a \in Arb!Atoms \ OnChain(chain) : header'[a] = header[a]
      BY <1>1, <1>3, <2>1, <2>2, <2>3, TakeFirstKeeps
    <2>5. \A a \in Arb!Atoms : Alike(header[a], header'[a])
      BY <2>3, <2>4 DEF Alike
    <2>6. \A b \in held : RunSound(b, header')
      BY <2>5, PoolInvParts, RunKept
    <2>7. HeadersKnown(held, header')
      BY <2>5 DEF PoolInv, HeadersKnown, Alike
    <2> QED
      BY <1>5, <2>4, <2>6, <2>7, PoolInvAfter, PoolInvParts DEF PoolInv
  <1>6. ASSUME pri_free[slot] = <<>>, NEW matom \in 1 .. MaxPages,
               Arb!PageRun(matom, count),
               Arb!TakeFirst(Arb!CutPage(matom, slot), slot, size),
               held' = held \cup {Arb!Block(matom, count)}
        PROVE  PoolInv'
    <2> DEFINE b == Arb!Block(matom, count)
               chain == Arb!CutPage(matom, slot)
    <2>1. count \in Nat \ {0} /\ ChunksOf(slot) \in Nat \ {0}
      BY <1>3, ChunksFillPages DEF count
    <2>2. /\ b \in RunType /\ b.atom = matom /\ b.size = count
          /\ HeldSound(held \cup {b})
          /\ RunAtoms(b) \subseteq Arb!Atoms
          /\ \A a \in RunAtoms(b) : header[a].magic = "none"
          /\ \A c \in held : RunAtoms(c) \cap RunAtoms(b) = {}
      BY <1>6, <2>1, FreshRun
    <2>3. held' = held \cup {b}
      BY <1>6
    <2> HIDE DEF b
    <2>4. /\ CutAtoms(b, slot) \subseteq RunAtoms(b)
          /\ \A i, j \in 0 .. (ChunksOf(slot) - 1) :
                Arb!pa_arb_build_atom(matom, slot, i) = Arb!pa_arb_build_atom(matom, slot, j)
                   => i = j
      BY <1>3, <2>2, CutFacts DEF count
    <2>5. /\ chain = [i \in 1 .. ChunksOf(slot) |-> Arb!pa_arb_build_atom(matom, slot, i - 1)]
          /\ Arb!TakeFirst(chain, slot, size)
      BY <1>6 DEF Arb!CutPage, ChunksOf
    <2> HIDE DEF chain
    <2>6. /\ DOMAIN chain = 1 .. ChunksOf(slot)
          /\ \A i \in DOMAIN chain : /\ i - 1 \in 0 .. (ChunksOf(slot) - 1)
                                     /\ chain[i] = Arb!pa_arb_build_atom(matom, slot, i - 1)
      BY <2>1, <2>5
    <2>7. OnChain(chain) = CutAtoms(b, slot)
      <3>1. ASSUME NEW k \in 0 .. (ChunksOf(slot) - 1)
            PROVE  Arb!pa_arb_build_atom(matom, slot, k) \in OnChain(chain)
        <4>1. k + 1 \in DOMAIN chain /\ (k + 1) - 1 = k
          BY <2>1, <2>6
        <4>2. chain[k + 1] = Arb!pa_arb_build_atom(matom, slot, k)
          BY <2>6, <4>1
        <4> QED
          BY <4>1, <4>2 DEF OnChain
      <3> QED
        BY <2>2, <2>6, <3>1 DEF OnChain, CutAtoms
    <2>8. chain \in Seq(Arb!Atoms) /\ chain # <<>>
      <3>1. \A i \in DOMAIN chain : chain[i] \in Arb!Atoms
        BY <2>2, <2>4, <2>7 DEF OnChain
      <3>2. chain \in [1 .. ChunksOf(slot) -> Arb!Atoms]
        BY <2>5, <2>6, <3>1
      <3>3. 1 \in DOMAIN chain
        BY <2>1, <2>6
      <3>4. chain \in Seq(Arb!Atoms)
        BY <2>1, <3>2, SeqDef
      <3>5. DOMAIN <<>> = {}
        OBVIOUS
      <3> QED
        BY <3>3, <3>4, <3>5
    <2>9. \A i, j \in DOMAIN chain : chain[i] = chain[j] => i = j
      <3> SUFFICES ASSUME NEW i \in DOMAIN chain, NEW j \in DOMAIN chain, chain[i] = chain[j]
                   PROVE  i = j
        OBVIOUS
      <3>1. i - 1 = j - 1
        BY <2>4, <2>6
      <3> QED
        BY <2>1, <2>6, <3>1
    <2>10. FreeAt(slot, header) \subseteq OnChain(chain)
      <3>1. OnChain(<<>>) = {}
        BY DEF OnChain
      <3> QED
        BY <1>3, <1>6, <3>1, PoolInvParts DEF ChainRight
    <2>11. \A a \in OnChain(chain) : header[a].magic = "none"
      BY <2>2, <2>4, <2>7
    <2>16. \A a \in OnChain(chain) :
              \/ header[a].magic = "none"
              \/ header[a].magic = "small_free" /\ header[a].slot = slot
      BY <2>11
    <2>17. Arb!TakeFirst(chain, slot, size)
      BY <2>5
    <2>12. /\ pri_free' \in [Arb!Slots -> Seq(Arb!Atoms)]
           /\ header' \in [Arb!Atoms -> HdType]
           /\ need' \in [Arb!Atoms -> Nat]
           /\ \A s \in Arb!Slots : ChainRight(pri_free'[s], s, header')
           /\ \A a \in Arb!Atoms : header'[a].magic \in {"small_inuse", "large_inuse"}
                                      => Holds(header'[a], need'[a])
           /\ \A a \in OnChain(chain) : /\ header'[a].magic \in {"small_inuse", "small_free"}
                                       /\ header'[a].slot = slot
           /\ \A a \in Arb!Atoms \ OnChain(chain) : header'[a] = header[a]
      BY <1>1, <1>3, <2>17, <2>8, <2>9, <2>10, <2>16, TakeFirstKeeps
    <2>13. ASSUME NEW c \in held PROVE RunSound(c, header')
      <3>1. \A a \in RunAtoms(c) : header'[a] = header[a]
        BY <2>2, <2>4, <2>7, <2>12, PoolInvParts
      <3> QED
        BY <3>1, PoolInvParts, RunKept DEF Alike
    <2>14. RunSound(b, header')
      <3>1. SmallRun(b, slot, header')
        BY <2>2, <2>4, <2>7, <2>12 DEF SmallRun, count
      <3> QED
        BY <1>3, <3>1 DEF RunSound
    <2>15. HeadersKnown(held', header')
      BY <2>3, <2>4, <2>7, <2>12 DEF PoolInv, HeadersKnown
    <2> QED
      BY <2>2, <2>3, <2>12, <2>13, <2>14, <2>15, PoolInvAfter, PoolInvParts
  <1> QED
    BY <1>4, <1>5, <1>6

\* The pages of a large request have the room and their number fits the header.
LEMMA LargeHolds ==
    ASSUME NEW size \in Nat,
           size + HeaderBytes <= (SizeWrap - 1) * Arb!PageBytes
    PROVE  LET count == Arb!pa_items(size + HeaderBytes, Arb!PageBytes) IN
           /\ count \in Nat \ {0} /\ count \in 0 .. (SizeWrap - 1) /\ count % SizeWrap = count
           /\ Holds([magic |-> "large_inuse", slot |-> 0, size |-> count], size)
  <1> DEFINE full == size + HeaderBytes
             B == Arb!PageBytes
             U == Arb!PageUnits
             A == Arb!AtomBytes
             count == Arb!pa_items(full, B)
  <1>1. /\ full \in Nat \ {0} /\ B \in Nat \ {0} /\ U \in Nat \ {0} /\ A \in Nat \ {0}
        /\ B = A * U /\ SizeWrap - 1 \in Nat /\ SizeWrap \in Nat \ {0}
    BY ArbConstants
  <1>2. count \in Nat \ {0} /\ full <= count * B /\ count <= SizeWrap - 1
    BY <1>1, ItemsEnough
  <1> HIDE DEF count
  <1>3. count \in 0 .. (SizeWrap - 1) /\ count % SizeWrap = count
    <2>1. count \in 0 .. (SizeWrap - 1) /\ count = SizeWrap * 0 + count
      BY <1>1, <1>2
    <2> QED
      BY <1>1, <2>1, DivisionUnique
  <1>4. (count * U) * A = count * B
    <2> HIDE DEF U, A, B
    <2>1. \A x, y, z \in Nat : (x * y) * z = x * (z * y)
      OBVIOUS
    <2> QED
      BY <1>1, <1>2, <2>1
  <1>5. Holds([magic |-> "large_inuse", slot |-> 0, size |-> count], size)
    BY <1>2, <1>4 DEF Holds, RoomOf
  <1> QED
    BY <1>2, <1>3, <1>5 DEF count

LEMMA AllocLargeKeeps ==
    ASSUME PoolInv, RequestsFit, NEW size \in ReqSizes, Arb!AllocLarge(size), UNCHANGED pool
    PROVE  PoolInv'
  <1> DEFINE count == Arb!pa_items(size + HeaderBytes, Arb!PageBytes)
  <1>1. /\ size + HeaderBytes < SizeWrap * Arb!PageBytes
        /\ pri_free' = pri_free
        /\ \E matom \in 1 .. MaxPages :
              /\ Arb!PageRun(matom, count)
              /\ held' = held \cup {Arb!Block(matom, count)}
              /\ header' = [header EXCEPT ![matom * Arb!PageUnits] =
                              [magic |-> "large_inuse", slot |-> 0, size |-> count % SizeWrap]]
              /\ need' = [need EXCEPT ![matom * Arb!PageUnits] = size]
    BY DEF Arb!AllocLarge
  <1>2. size \in Nat /\ size + HeaderBytes <= (SizeWrap - 1) * Arb!PageBytes
    BY <1>1, ArbConstants DEF RequestsFit
  <1>3. /\ count \in Nat \ {0} /\ count \in 0 .. (SizeWrap - 1) /\ count % SizeWrap = count
        /\ Holds([magic |-> "large_inuse", slot |-> 0, size |-> count], size)
    BY <1>2, LargeHolds
  <1> HIDE DEF count
  <1>4. PICK matom \in 1 .. MaxPages :
           /\ Arb!PageRun(matom, count)
           /\ held' = held \cup {Arb!Block(matom, count)}
           /\ header' = [header EXCEPT ![matom * Arb!PageUnits] =
                           [magic |-> "large_inuse", slot |-> 0, size |-> count]]
           /\ need' = [need EXCEPT ![matom * Arb!PageUnits] = size]
    BY <1>1, <1>3
  <1> DEFINE b == Arb!Block(matom, count)
             f == First(b)
             h == [magic |-> "large_inuse", slot |-> 0, size |-> count]
  <1>5. /\ b \in RunType /\ b.atom = matom /\ b.size = count
        /\ HeldSound(held \cup {b})
        /\ RunAtoms(b) \subseteq Arb!Atoms
        /\ \A a \in RunAtoms(b) : header[a].magic = "none"
        /\ \A c \in held : RunAtoms(c) \cap RunAtoms(b) = {}
    BY <1>3, <1>4, FreshRun
  <1>6. f \in RunAtoms(b) /\ f = matom * Arb!PageUnits
    BY <1>5, RunFacts DEF First
  <1> HIDE DEF b, f
  <1>7. /\ header \in [Arb!Atoms -> HdType] /\ need \in [Arb!Atoms -> Nat]
        /\ pri_free \in [Arb!Slots -> Seq(Arb!Atoms)]
        /\ \A s \in Arb!Slots : ChainRight(pri_free[s], s, header)
        /\ \A a \in Arb!Atoms : header[a].magic \in {"small_inuse", "large_inuse"}
                                      => Holds(header[a], need[a])
    BY PoolInvParts
  <1>8. h \in HdType
    <2>1. 0 \in Arb!Slots
      BY ArbConstants DEF Arb!Slots
    <2> QED
      BY <1>3, <2>1 DEF HdType
  <1>9. /\ held' = held \cup {b}
        /\ header' = [header EXCEPT ![f] = h] /\ need' = [need EXCEPT ![f] = size]
    BY <1>4, <1>6 DEF b
  <1>17. h.magic = "large_inuse" /\ h.size = count /\ Holds(h, size)
    BY <1>3
  <1> HIDE DEF h
  <1>10. /\ header' \in [Arb!Atoms -> HdType] /\ need' \in [Arb!Atoms -> Nat]
         /\ header'[f] = h /\ need'[f] = size
         /\ \A a \in Arb!Atoms : a # f => header'[a] = header[a] /\ need'[a] = need[a]
    BY <1>2, <1>5, <1>6, <1>7, <1>8, <1>9
  <1>11. ASSUME NEW s \in Arb!Slots PROVE ChainRight(pri_free'[s], s, header')
    <2>1. FreeAt(s, header') = FreeAt(s, header)
      <3>1. f \notin FreeAt(s, header) /\ f \notin FreeAt(s, header')
        BY <1>5, <1>6, <1>10, <1>17 DEF FreeAt
      <3> QED
        BY <1>10, <3>1 DEF FreeAt
    <2> QED
      BY <1>1, <1>7, <2>1 DEF ChainRight
  <1>12. ASSUME NEW c \in held PROVE RunSound(c, header')
    <2>1. \A a \in RunAtoms(c) : header'[a] = header[a]
      BY <1>5, <1>6, <1>10, PoolInvParts
    <2> QED
      BY <2>1, PoolInvParts, RunKept DEF Alike
  <1>13. RunSound(b, header')
    BY <1>5, <1>6, <1>10, <1>17 DEF RunSound, LargeRun, f
  <1>14. HeadersKnown(held', header')
    BY <1>6, <1>9, <1>10 DEF PoolInv, HeadersKnown
  <1>15. ASSUME NEW a \in Arb!Atoms, header'[a].magic \in {"small_inuse", "large_inuse"}
         PROVE  Holds(header'[a], need'[a])
    BY <1>7, <1>10, <1>15, <1>17
  <1>16. pri_free' \in [Arb!Slots -> Seq(Arb!Atoms)]
    BY <1>1, <1>7
  <1> QED
    BY <1>5, <1>9, <1>10, <1>11, <1>12, <1>13, <1>14, <1>15, <1>16, PoolInvAfter, PoolInvParts

LEMMA FreeSmallKeeps ==
    ASSUME PoolInv, NEW atom \in Arb!Atoms, Arb!FreeSmall(atom), UNCHANGED pool
    PROVE  PoolInv'
  <1> DEFINE slot == header[atom].slot
             h == [header[atom] EXCEPT !.magic = "small_free"]
             old == pri_free[slot]
  <1>1. /\ header \in [Arb!Atoms -> HdType] /\ need \in [Arb!Atoms -> Nat]
        /\ pri_free \in [Arb!Slots -> Seq(Arb!Atoms)]
        /\ \A s \in Arb!Slots : ChainRight(pri_free[s], s, header)
        /\ \A a \in Arb!Atoms : header[a].magic \in {"small_inuse", "large_inuse"}
                                      => Holds(header[a], need[a])
    BY PoolInvParts
  <1>2. /\ header[atom].magic = "small_inuse"
        /\ pri_free' = [pri_free EXCEPT ![slot] = <<atom>> \o old]
        /\ header' = [header EXCEPT ![atom] = h]
        /\ need' = [need EXCEPT ![atom] = 0]
        /\ held' = held
    BY <1>1 DEF Arb!FreeSmall
  <1>3. /\ slot \in Arb!Slots /\ h \in HdType /\ h.magic = "small_free" /\ h.slot = slot
        /\ header[atom] \in HdType
    BY <1>1 DEF HdType
  <1>4. old \in Seq(Arb!Atoms) /\ ChainRight(old, slot, header)
    BY <1>1, <1>3
  <1> HIDE DEF h, slot, old
  <1>5. /\ header' \in [Arb!Atoms -> HdType] /\ need' \in [Arb!Atoms -> Nat]
        /\ header'[atom] = h
        /\ \A a \in Arb!Atoms : a # atom => header'[a] = header[a] /\ need'[a] = need[a]
    BY <1>1, <1>2, <1>3
  <1> DEFINE new == <<atom>> \o old
  <1>6. /\ new \in Seq(Arb!Atoms) /\ Len(new) = Len(old) + 1 /\ Len(old) \in Nat
        /\ new[1] = atom /\ \A i \in 1 .. Len(old) : new[i + 1] = old[i]
    BY <1>4
  <1> HIDE DEF new
  <1>7. pri_free' \in [Arb!Slots -> Seq(Arb!Atoms)] /\ pri_free'[slot] = new
        /\ \A s \in Arb!Slots : s # slot => pri_free'[s] = pri_free[s]
    BY <1>1, <1>2, <1>3, <1>6 DEF new
  <1>8. /\ DOMAIN new = 1 .. Len(new) /\ DOMAIN old = 1 .. Len(old)
    BY <1>4, <1>6
  <1>9. \A i \in DOMAIN new : i = 1 \/ (i - 1 \in DOMAIN old /\ new[i] = old[i - 1])
    <2> SUFFICES ASSUME NEW i \in DOMAIN new, i # 1
                 PROVE  i - 1 \in DOMAIN old /\ new[i] = old[i - 1]
      OBVIOUS
    <2>1. i - 1 \in 1 .. Len(old) /\ (i - 1) + 1 = i
      BY <1>6, <1>8
    <2> QED
      BY <1>6, <1>8, <2>1
  <1>10. OnChain(new) = OnChain(old) \cup {atom}
    <2>1. ASSUME NEW i \in DOMAIN old PROVE old[i] \in OnChain(new)
      <3>1. i + 1 \in DOMAIN new /\ new[i + 1] = old[i]
        BY <1>6, <1>8
      <3> QED
        BY <3>1 DEF OnChain
    <2>2. 1 \in DOMAIN new
      BY <1>6, <1>8
    <2>3. ASSUME NEW i \in DOMAIN new PROVE new[i] \in OnChain(old) \cup {atom}
      BY <1>6, <1>9 DEF OnChain
    <2> QED
      BY <1>6, <2>1, <2>2, <2>3 DEF OnChain
  <1>11. atom \notin OnChain(old)
    BY <1>2, <1>4 DEF ChainRight, FreeAt
  <1>12. ChainRight(new, slot, header')
    <2>1. ASSUME NEW i \in DOMAIN new, NEW j \in DOMAIN new, new[i] = new[j] PROVE i = j
      <3>1. CASE i = 1 /\ j = 1
        BY <3>1
      <3>2. CASE i # 1 /\ j # 1
        <4>1. i - 1 = j - 1
          BY <1>4, <1>9, <2>1, <3>2 DEF ChainRight
        <4> QED
          BY <1>6, <1>8, <4>1
      <3>3. CASE i = 1 /\ j # 1
        BY <1>6, <1>9, <1>11, <2>1, <3>3 DEF OnChain
      <3>4. CASE i # 1 /\ j = 1
        BY <1>6, <1>9, <1>11, <2>1, <3>4 DEF OnChain
      <3> QED
        BY <3>1, <3>2, <3>3, <3>4
    <2>2. FreeAt(slot, header') = FreeAt(slot, header) \cup {atom}
      BY <1>3, <1>5 DEF FreeAt
    <2> QED
      BY <1>4, <1>10, <2>1, <2>2 DEF ChainRight
  <1>13. ASSUME NEW s \in Arb!Slots, s # slot PROVE ChainRight(pri_free'[s], s, header')
    <2>1. FreeAt(s, header') = FreeAt(s, header)
      <3>1. atom \notin FreeAt(s, header) /\ atom \notin FreeAt(s, header')
        BY <1>2, <1>3, <1>5, <1>13 DEF FreeAt
      <3> QED
        BY <1>5, <3>1 DEF FreeAt
    <2> QED
      BY <1>1, <1>7, <1>13, <2>1 DEF ChainRight
  <1>14. \A a \in Arb!Atoms : Alike(header[a], header'[a])
    BY <1>2, <1>3, <1>5 DEF Alike, slot
  <1>15. \A b \in held : RunSound(b, header')
    BY <1>14, PoolInvParts, RunKept
  <1>16. HeadersKnown(held, header')
    BY <1>14 DEF PoolInv, HeadersKnown, Alike
  <1>17. ASSUME NEW a \in Arb!Atoms, header'[a].magic \in {"small_inuse", "large_inuse"}
         PROVE  Holds(header'[a], need'[a])
    BY <1>1, <1>3, <1>5, <1>17
  <1> QED
    BY <1>2, <1>5, <1>7, <1>12, <1>13, <1>15, <1>16, <1>17, PoolInvAfter, PoolInvParts
    DEF PoolInv

LEMMA FreeLargeKeeps ==
    ASSUME PoolInv, NEW atom \in Arb!Atoms, Arb!FreeLarge(atom), UNCHANGED pool
    PROVE  PoolInv'
  <1> DEFINE b == Arb!Block(atom \div Arb!PageUnits, header[atom].size)
             h == [header[atom] EXCEPT !.magic = "none"]
  <1>1. /\ header \in [Arb!Atoms -> HdType] /\ need \in [Arb!Atoms -> Nat]
        /\ pri_free \in [Arb!Slots -> Seq(Arb!Atoms)]
        /\ \A s \in Arb!Slots : ChainRight(pri_free[s], s, header)
        /\ \A a \in Arb!Atoms : header[a].magic \in {"small_inuse", "large_inuse"}
                                      => Holds(header[a], need[a])
        /\ \A c, d \in held : c = d \/ RunAtoms(c) \cap RunAtoms(d) = {}
        /\ \A c \in held : RunSound(c, header) /\ RunAtoms(c) \subseteq Arb!Atoms
    BY PoolInvParts
  <1>2. header[atom].magic = "large_inuse"
    BY DEF Arb!FreeLarge
  <1>3. b \in held
    BY <1>2, PoolLargeRecorded DEF Arb!LargeRecorded
  <1>4. b \in RunType /\ RunSound(b, header)
    BY <1>3, PoolInvParts
  <1>5. b.size # 0
    BY <1>4 DEF RunType
  <1>6. /\ held' = held \ {b} /\ pri_free' = pri_free
        /\ header' = [header EXCEPT ![atom] = h]
        /\ need' = [need EXCEPT ![atom] = 0]
    BY <1>1, <1>5 DEF Arb!FreeLarge
  <1>7. h \in HdType /\ h.magic = "none"
    BY <1>1 DEF HdType
  <1> HIDE DEF h
  <1>8. /\ header' \in [Arb!Atoms -> HdType] /\ need' \in [Arb!Atoms -> Nat]
        /\ header'[atom] = h
        /\ \A a \in Arb!Atoms : a # atom => header'[a] = header[a] /\ need'[a] = need[a]
    BY <1>1, <1>6, <1>7
  <1>9. atom \in RunAtoms(b) /\ \A a \in RunAtoms(b) : header'[a].magic = "none"
    <2>1. atom \in Arb!Chunks
      BY <1>2 DEF Arb!Chunks, Arb!InUse
    <2>2. PICK c \in held :
             /\ atom \in RunAtoms(c)
             /\ \/ LargeRun(c, header) /\ atom = First(c)
                \/ \E s \in Arb!Slots : SmallRun(c, s, header) /\ atom \in CutAtoms(c, s)
      BY <2>1, ChunkInRun
    <2>3. LargeRun(c, header) /\ atom = First(c)
      BY <1>2, <2>2 DEF SmallRun
    <2>4. c \in RunType
      BY PoolInvParts
    <2>5. c = b
      <3>1. atom \div Arb!PageUnits = c.atom /\ header[atom].size = c.size
        BY <2>3, <2>4, RunFacts DEF LargeRun
      <3>2. c = [atom |-> c.atom, size |-> c.size]
        BY <2>4 DEF RunType
      <3> QED
        BY <3>1, <3>2 DEF Arb!Block
    <2> HIDE DEF b
    <2>6. \A a \in RunAtoms(c) : a # atom => header'[a].magic = "none"
      BY <1>1, <1>8, <2>3 DEF LargeRun
    <2> QED
      BY <1>7, <1>8, <2>2, <2>5, <2>6
  <1> HIDE DEF b
  <1>10. ASSUME NEW s \in Arb!Slots PROVE ChainRight(pri_free'[s], s, header')
    <2>1. FreeAt(s, header') = FreeAt(s, header)
      <3>1. atom \notin FreeAt(s, header) /\ atom \notin FreeAt(s, header')
        BY <1>2, <1>7, <1>8 DEF FreeAt
      <3> QED
        BY <1>8, <3>1 DEF FreeAt
    <2> QED
      BY <1>1, <1>6, <2>1 DEF ChainRight
  <1>11. ASSUME NEW c \in held' PROVE RunSound(c, header')
    <2>1. c \in held /\ c # b
      BY <1>6
    <2>2. \A a \in RunAtoms(c) : header'[a] = header[a]
      BY <1>1, <1>3, <1>8, <1>9, <2>1
    <2> QED
      BY <2>1, <2>2, PoolInvParts, RunKept DEF Alike
  <1>12. HeadersKnown(held', header')
    <2> SUFFICES ASSUME NEW a \in Arb!Atoms, header'[a].magic # "none"
                 PROVE  \E c \in held' : a \in RunAtoms(c)
      BY DEF HeadersKnown
    <2>1. a \notin RunAtoms(b) /\ a # atom
      BY <1>9
    <2>2. PICK c \in held : a \in RunAtoms(c)
      BY <1>8, <2>1 DEF PoolInv, HeadersKnown
    <2> QED
      BY <1>6, <2>1, <2>2
  <1>13. HeldSound(held')
    BY <1>6 DEF PoolInv, HeldSound
  <1>14. ASSUME NEW a \in Arb!Atoms, header'[a].magic \in {"small_inuse", "large_inuse"}
         PROVE  Holds(header'[a], need'[a])
    BY <1>1, <1>7, <1>8, <1>14
  <1> QED
    BY <1>1, <1>6, <1>8, <1>10, <1>11, <1>12, <1>13, <1>14, PoolInvAfter, PoolInvParts

LEMMA PoolNext ==
    ASSUME PoolInv, RequestsFit, [Arb!Next]_av
    PROVE  PoolInv'
  <1>1. CASE pool' \in {"open", "closed"} /\ UNCHANGED <<pri_free, header, held, need>>
    <2>1. /\ pri_free' = pri_free /\ header' = header /\ held' = held /\ need' = need
      BY <1>1
    <2> QED
      BY <1>1, <2>1, PoolInvParts, PoolInvAfter DEF PoolInv
  <1>2. ASSUME NEW size \in ReqSizes, Arb!pa_arb_alloc(size) PROVE PoolInv'
    <2>1. UNCHANGED pool /\ pool \in {"open", "closed"}
      BY <1>2, PoolInvParts DEF Arb!pa_arb_alloc
    <2> QED
      BY <1>1, <1>2, <2>1, AllocSmallKeeps, AllocLargeKeeps
      DEF Arb!pa_arb_alloc, Arb!AllocNothing
  <1>3. ASSUME NEW atom \in Arb!Atoms, Arb!pa_arb_free_atom(atom) PROVE PoolInv'
    <2>1. UNCHANGED pool /\ pool \in {"open", "closed"}
      BY <1>3, PoolInvParts DEF Arb!pa_arb_free_atom
    <2> QED
      BY <1>1, <1>3, <2>1, FreeSmallKeeps, FreeLargeKeeps DEF Arb!pa_arb_free_atom
  <1>4. CASE Arb!pa_arb_open \/ Arb!pa_arb_close
    BY <1>1, <1>4 DEF Arb!pa_arb_open, Arb!pa_arb_close
  <1>5. CASE UNCHANGED av
    BY <1>1, <1>5, PoolInvParts DEF av
  <1> QED
    BY <1>2, <1>3, <1>4, <1>5 DEF Arb!Next

LEMMA PoolInit ==
    ASSUME Arb!Init
    PROVE  PoolInv
  <1>1. /\ pool = "closed" /\ pri_free = [s \in Arb!Slots |-> <<>>]
        /\ header = [a \in Arb!Atoms |-> Arb!NoHeader] /\ held = {}
        /\ need = [a \in Arb!Atoms |-> 0]
    BY DEF Arb!Init
  <1>2. Arb!NoHeader \in HdType /\ Arb!NoHeader.magic = "none"
    BY ArbConstants DEF Arb!NoHeader, HdType, Arb!Slots
  <1>3. /\ header \in [Arb!Atoms -> HdType] /\ \A a \in Arb!Atoms : header[a].magic = "none"
        /\ need \in [Arb!Atoms -> Nat]
    BY <1>1, <1>2
  <1>4. pri_free \in [Arb!Slots -> Seq(Arb!Atoms)] /\ \A s \in Arb!Slots : pri_free[s] = <<>>
    BY <1>1
  <1>5. Arb!TypeOK
    BY <1>1, <1>3, <1>4 DEF Arb!TypeOK, HdType
  <1>6. Arb!ChainsAgree
    BY <1>3, <1>4 DEF Arb!ChainsAgree
  <1> QED
    BY <1>1, <1>3, <1>5, <1>6 DEF PoolInv, HeldSound, HeadersKnown, Arb!InUse

\* A pool stays sound through any mix of sizes, of allocations that fail half
\* way and of repeated releases, for every size of atoms, pages and slots: as
\* long as no request is so large that pa_log2 loses bits of it, or of the last
\* page that the header's 16 bits could count (pa_arb_alloc, pa_arb_free_atom).
THEOREM PoolAlwaysSound ==
    ASSUME RequestsFit
    PROVE  Spec => []PoolSound
  <1>1. Init => PoolInv
    BY PoolInit DEF Init
  <1>2. PoolInv /\ [Next]_<<what, hv, av, iv, pv>> => PoolInv'
    <2> SUFFICES ASSUME PoolInv, [Next]_<<what, hv, av, iv, pv>> PROVE PoolInv'
      OBVIOUS
    <2>1. [Arb!Next]_av
      BY DEF Next
    <2> QED
      BY <2>1, PoolNext
  <1>3. PoolInv => PoolSound
    BY PoolChunksApart, PoolRoomEnough, PoolLargeRecorded
    DEF PoolInv, PoolSound, Arb!PoolSound
  <1> QED
    BY <1>1, <1>2, <1>3, PTL DEF Spec

-----------------------------------------------------------------------------
(* Patricia trees.  The invariant describes the tree by what each test and *)
(* each link means: a node that tests a bit does so for the keys that      *)
(* agree with its own below the bit, each link leads to a key that agrees  *)
(* too and has the bit as the side says, and from there to the next bit    *)
(* that is tested for such keys; where two keys differ first is tested.  A *)
(* walk answers every test on its way, whatever path it took, and so finds *)
(* the best match.                                                         *)

(* Bits of bytes *)

\* The highest bit in which two bytes differ.
HighBit(x, y, m) == x \div m # y \div m /\ x \div (2 * m) = y \div (2 * m)

\* The masks, one by one.
LEMMA MaskValues == \A m \in Pat!Masks : m = 128 \/ m = 64 \/ m = 32 \/ m = 16 \/ m = 8
                                         \/ m = 4 \/ m = 2 \/ m = 1
  BY DEF Pat!Masks

\* A byte's bits from one on are twice those from the next on, and the bit.
LEMMA BitOfByte ==
    ASSUME NEW x \in 0 .. 255, NEW m \in Pat!Masks
    PROVE  /\ x \div m \in Nat /\ x \div (2 * m) \in Nat /\ (x \div m) % 2 \in 0 .. 1
           /\ x \div m = 2 * (x \div (2 * m)) + ((x \div m) % 2)
  <1>1. CASE m = 128
    BY <1>1
  <1>2. CASE m = 64
    BY <1>2
  <1>3. CASE m = 32
    BY <1>3
  <1>4. CASE m = 16
    BY <1>4
  <1>5. CASE m = 8
    BY <1>5
  <1>6. CASE m = 4
    BY <1>6
  <1>7. CASE m = 2
    BY <1>7
  <1>8. CASE m = 1
    BY <1>8
  <1> QED
    BY <1>1, <1>2, <1>3, <1>4, <1>5, <1>6, <1>7, <1>8, MaskValues

\* Bytes that are not the same have a highest bit in which they differ.
LEMMA BytesDiffer ==
    ASSUME NEW x \in 0 .. 255, NEW y \in 0 .. 255, x # y
    PROVE  \E m \in Pat!Masks : HighBit(x, y, m)
  <1>1. x \div 256 = 0 /\ y \div 256 = 0 /\ x \div 1 = x /\ y \div 1 = y
    OBVIOUS
  <1>2. {128, 64, 32, 16, 8, 4, 2, 1} \subseteq Pat!Masks
    BY DEF Pat!Masks
  <1>3. CASE x \div 128 # y \div 128
    BY <1>1, <1>2, <1>3 DEF HighBit
  <1>4. CASE x \div 128 = y \div 128 /\ x \div 64 # y \div 64
    BY <1>2, <1>4 DEF HighBit
  <1>5. CASE x \div 64 = y \div 64 /\ x \div 32 # y \div 32
    BY <1>2, <1>5 DEF HighBit
  <1>6. CASE x \div 32 = y \div 32 /\ x \div 16 # y \div 16
    BY <1>2, <1>6 DEF HighBit
  <1>7. CASE x \div 16 = y \div 16 /\ x \div 8 # y \div 8
    <2>1. 8 \in Pat!Masks /\ x \div (2 * 8) = y \div (2 * 8)
      BY <1>2, <1>7
    <2> QED
      BY <1>7, <2>1 DEF HighBit
  <1>8. CASE x \div 8 = y \div 8 /\ x \div 4 # y \div 4
    BY <1>2, <1>8 DEF HighBit
  <1>9. CASE x \div 4 = y \div 4 /\ x \div 2 # y \div 2
    BY <1>2, <1>9 DEF HighBit
  <1>10. CASE x \div 2 = y \div 2
    BY <1>1, <1>2, <1>10 DEF HighBit
  <1> QED
    BY <1>3, <1>4, <1>5, <1>6, <1>7, <1>8, <1>9, <1>10

\* A bit of a byte depends on what is left when lower ones are cut off.
LEMMA HigherBits ==
    ASSUME NEW x \in 0 .. 255, NEW y \in 0 .. 255, NEW m \in Pat!Masks, NEW n \in Pat!Masks,
           m < n, x \div (2 * m) = y \div (2 * m)
    PROVE  x \div n = y \div n
  <1>1. CASE m = 64
    <2>1. n = 128
      BY <1>1, MaskValues
    <2> QED
      BY <1>1, <2>1
  <1>2. CASE m = 32
    <2>1. x \div 128 = (x \div 64) \div 2 /\ y \div 128 = (y \div 64) \div 2
      OBVIOUS
    <2> QED
      BY <1>2, <2>1, MaskValues
  <1>3. CASE m = 16
    <2>1. /\ x \div 128 = (x \div 32) \div 4 /\ y \div 128 = (y \div 32) \div 4
          /\ x \div 64 = (x \div 32) \div 2 /\ y \div 64 = (y \div 32) \div 2
      OBVIOUS
    <2> QED
      BY <1>3, <2>1, MaskValues
  <1>4. CASE m = 8
    <2>1. /\ x \div 128 = (x \div 16) \div 8 /\ y \div 128 = (y \div 16) \div 8
          /\ x \div 64 = (x \div 16) \div 4 /\ y \div 64 = (y \div 16) \div 4
          /\ x \div 32 = (x \div 16) \div 2 /\ y \div 32 = (y \div 16) \div 2
      OBVIOUS
    <2> QED
      BY <1>4, <2>1, MaskValues
  <1>5. CASE m = 4
    <2>1. /\ x \div 128 = (x \div 8) \div 16 /\ y \div 128 = (y \div 8) \div 16
          /\ x \div 64 = (x \div 8) \div 8 /\ y \div 64 = (y \div 8) \div 8
          /\ x \div 32 = (x \div 8) \div 4 /\ y \div 32 = (y \div 8) \div 4
          /\ x \div 16 = (x \div 8) \div 2 /\ y \div 16 = (y \div 8) \div 2
      OBVIOUS
    <2> QED
      BY <1>5, <2>1, MaskValues
  <1>6. CASE m = 2
    <2>1. /\ x \div 128 = (x \div 4) \div 32 /\ y \div 128 = (y \div 4) \div 32
          /\ x \div 64 = (x \div 4) \div 16 /\ y \div 64 = (y \div 4) \div 16
          /\ x \div 32 = (x \div 4) \div 8 /\ y \div 32 = (y \div 4) \div 8
          /\ x \div 16 = (x \div 4) \div 4 /\ y \div 16 = (y \div 4) \div 4
          /\ x \div 8 = (x \div 4) \div 2 /\ y \div 8 = (y \div 4) \div 2
      OBVIOUS
    <2> QED
      BY <1>6, <2>1, MaskValues
  <1>7. CASE m = 1
    <2>1. /\ x \div 128 = (x \div 2) \div 64 /\ y \div 128 = (y \div 2) \div 64
          /\ x \div 64 = (x \div 2) \div 32 /\ y \div 64 = (y \div 2) \div 32
          /\ x \div 32 = (x \div 2) \div 16 /\ y \div 32 = (y \div 2) \div 16
          /\ x \div 16 = (x \div 2) \div 8 /\ y \div 16 = (y \div 2) \div 8
          /\ x \div 8 = (x \div 2) \div 4 /\ y \div 8 = (y \div 2) \div 4
          /\ x \div 4 = (x \div 2) \div 2 /\ y \div 4 = (y \div 2) \div 2
      OBVIOUS
    <2> QED
      BY <1>7, <2>1, MaskValues
  <1> QED
    BY <1>1, <1>2, <1>3, <1>4, <1>5, <1>6, <1>7, MaskValues

\* The highest bit in which bytes differ says which is smaller.
LEMMA HighBitOrders ==
    ASSUME NEW x \in 0 .. 255, NEW y \in 0 .. 255, NEW m \in Pat!Masks, HighBit(x, y, m)
    PROVE  /\ (x \div m) % 2 # (y \div m) % 2
           /\ (x < y <=> (y \div m) % 2 = 1)
  <1>1. /\ x \div m \in Nat /\ y \div m \in Nat /\ x \div (2 * m) \in Nat
        /\ (x \div m) % 2 \in 0 .. 1 /\ (y \div m) % 2 \in 0 .. 1
        /\ x \div m = 2 * (x \div (2 * m)) + ((x \div m) % 2)
        /\ y \div m = 2 * (y \div (2 * m)) + ((y \div m) % 2)
    BY BitOfByte
  <1>2. (x \div m) % 2 # (y \div m) % 2
    BY <1>1 DEF HighBit
  <1>3. x < y <=> x \div m < y \div m
    <2>1. x \div m # y \div m
      BY DEF HighBit
    <2> QED
      BY <2>1, MaskValues
  <1>4. x \div m < y \div m <=> (y \div m) % 2 = 1
    BY <1>1, <1>2 DEF HighBit
  <1> QED
    BY <1>2, <1>3, <1>4

\* Above the highest bit in which they differ, bytes have the same bits.
LEMMA HigherBitsAgree ==
    ASSUME NEW x \in 0 .. 255, NEW y \in 0 .. 255, NEW m \in Pat!Masks, HighBit(x, y, m)
    PROVE  \A n \in Pat!Masks : m < n => (x \div n) % 2 = (y \div n) % 2
  <1>1. \A n \in Pat!Masks : m < n => x \div n = y \div n
    BY HigherBits DEF HighBit
  <1> QED
    BY <1>1

\* Bytes with the same bits are the same.
LEMMA BitsMakeByte ==
    ASSUME NEW x \in 0 .. 255, NEW y \in 0 .. 255,
           \A m \in Pat!Masks : (x \div m) % 2 = (y \div m) % 2
    PROVE  x = y
  <1> SUFFICES ASSUME x # y PROVE FALSE
    OBVIOUS
  <1>1. PICK m \in Pat!Masks : HighBit(x, y, m)
    BY BytesDiffer
  <1>2. (x \div m) % 2 # (y \div m) % 2
    BY <1>1, HighBitOrders
  <1> QED
    BY <1>2

-----------------------------------------------------------------------------
(* Bits of keys *)

\* Keys whose length a node can hold.
Fit == {k \in Seq(0 .. 255) : Len(k) # 0 /\ Len(k) <= 256}

\* The indices of their bytes, the number of a bit of a byte, and the numbers
\* that name bits.
Index == {i \in Nat : i # 0 /\ i <= 256}
PlaceOf(i, m) == 256 * (i - 1) + 255 - m
Places == {PlaceOf(i, m) : i \in Index, m \in Pat!Masks}

KeyEnd(k) == Pat!pa_pat_length_to_bit(Len(k))
IsSet(k, b) == Pat!pat_key_test(k, b)

\* Keys that are the same below a bit, and reach it.
Agree(k, m, e) ==
    \A b \in Places : b < e => b < KeyEnd(k) /\ b < KeyEnd(m) /\ (IsSet(k, b) <=> IsSet(m, b))

\* The first bit in which keys differ.
Differ(k, m, d) ==
    /\ d \in Places /\ d < KeyEnd(k) /\ d < KeyEnd(m)
    /\ Agree(k, m, d)
    /\ ~(IsSet(k, d) <=> IsSet(m, d))

\* The width of a bit's number, by its bounds.
LEMMA BitRange ==
    /\ Pat!BitWrap \in Nat /\ Pat!BitWrap >= 65536 /\ Pat!BitWrap <= 65536
    /\ \A b : b \in Pat!Bits <=> b \in Nat /\ b < Pat!BitWrap
  <1>1. Pat!BitWrap \in Nat /\ Pat!BitWrap >= 65536 /\ Pat!BitWrap <= 65536
    BY DEF Pat!BitWrap
  <1> QED
    BY <1>1 DEF Pat!Bits

\* A key of up to 256 bytes has a length that does not wrap.
LEMMA LastValue ==
    ASSUME NEW k \in Fit
    PROVE  /\ KeyEnd(k) = 256 * Len(k) - 1 /\ KeyEnd(k) \in Pat!Bits /\ KeyEnd(k) \in Nat
           /\ Len(k) \in Index /\ Len(k) \in Nat
  <1>1. Len(k) \in Nat /\ Len(k) # 0 /\ Len(k) <= 256
    BY DEF Fit
  <1>2. \A w \in Nat, n \in Nat : n # 0 /\ n <= 256 /\ w >= 65536 =>
            ((n - 1) * 256 + 255) % w = 256 * n - 1
    <2> SUFFICES ASSUME NEW w \in Nat, NEW n \in Nat, n # 0, n <= 256, w >= 65536
                 PROVE  ((n - 1) * 256 + 255) % w = 256 * n - 1
      OBVIOUS
    <2>1. (n - 1) * 256 + 255 = 256 * n - 1 /\ 256 * n - 1 \in Nat /\ 256 * n - 1 < w
      OBVIOUS
    <2> QED
      BY <2>1
  <1>3. KeyEnd(k) = 256 * Len(k) - 1
    BY <1>1, <1>2, BitRange DEF KeyEnd, Pat!pa_pat_length_to_bit
  <1>4. 256 * Len(k) - 1 \in Nat /\ 256 * Len(k) - 1 < Pat!BitWrap
    BY <1>1, BitRange
  <1>5. KeyEnd(k) \in Pat!Bits /\ KeyEnd(k) \in Nat
    BY <1>3, <1>4, BitRange
  <1> QED
    BY <1>1, <1>3, <1>5 DEF Index

LEMMA MaskRange == \A m \in Pat!Masks : m \in Nat /\ m # 0 /\ m <= 128
  BY MaskValues

\* The number of a bit tells its byte and its mask.
LEMMA PlaceFacts ==
    ASSUME NEW i \in Index, NEW m \in Pat!Masks
    PROVE  /\ PlaceOf(i, m) \in Places /\ PlaceOf(i, m) \in Nat /\ PlaceOf(i, m) \in Pat!Bits
           /\ PlaceOf(i, m) # 0
           /\ PlaceOf(i, m) \div 256 = i - 1
           /\ PlaceOf(i, m) % 256 = 255 - m
  <1>1. m \in Nat /\ m # 0 /\ m <= 128 /\ i \in Nat /\ i # 0 /\ i <= 256
    BY MaskRange DEF Index
  <1>2. \A r \in Nat, j \in Nat : r < 256 =>
             (256 * j + r) \div 256 = j /\ (256 * j + r) % 256 = r
    OBVIOUS
  <1>3. 255 - m \in Nat /\ 255 - m < 256 /\ i - 1 \in Nat
    BY <1>1
  <1>4. PlaceOf(i, m) = 256 * (i - 1) + (255 - m)
    BY <1>1 DEF PlaceOf
  <1>5. PlaceOf(i, m) \div 256 = i - 1 /\ PlaceOf(i, m) % 256 = 255 - m
    BY <1>2, <1>3, <1>4
  <1>6. PlaceOf(i, m) \in Nat /\ PlaceOf(i, m) # 0 /\ PlaceOf(i, m) < Pat!BitWrap
    BY <1>1, <1>4, BitRange
  <1>7. PlaceOf(i, m) \in Places
    BY DEF Places
  <1> QED
    BY <1>5, <1>6, <1>7, BitRange

\* Numbers that name bits are numbers of bits, and none of them is no bit.
LEMMA PlaceTypes ==
    ASSUME NEW b \in Places
    PROVE  b \in Pat!Bits /\ b \in Nat /\ b # 0
  BY PlaceFacts DEF Places

LEMMA PlaceIs ==
    ASSUME NEW b \in Places
    PROVE  \E i \in Index, m \in Pat!Masks : b = PlaceOf(i, m)
  BY DEF Places

\* Bits are numbered from left to right.
LEMMA PlaceOrder ==
    ASSUME NEW i \in Index, NEW m \in Pat!Masks, NEW j \in Index, NEW n \in Pat!Masks
    PROVE  /\ PlaceOf(i, m) < PlaceOf(j, n) <=> (i < j \/ (i = j /\ n < m))
           /\ PlaceOf(i, m) < 256 * j - 1 <=> i <= j
  <1>1. /\ m \in Nat /\ m # 0 /\ m <= 128 /\ i \in Nat /\ i # 0 /\ i <= 256
        /\ n \in Nat /\ n # 0 /\ n <= 128 /\ j \in Nat /\ j # 0 /\ j <= 256
    BY MaskRange DEF Index
  <1>2. PlaceOf(i, m) < PlaceOf(j, n) <=> (i < j \/ (i = j /\ n < m))
    BY <1>1 DEF PlaceOf
  <1>3. PlaceOf(i, m) < 256 * j - 1 <=> i <= j
    BY <1>1 DEF PlaceOf
  <1> QED
    BY <1>2, <1>3

LEMMA Entry ==
    ASSUME NEW S, NEW s \in Seq(S), NEW i \in 1 .. Len(s)
    PROVE  s[i] \in S
  OBVIOUS

LEMMA ByteOf ==
    ASSUME NEW k \in Fit, NEW i \in 1 .. Len(k)
    PROVE  k[i] \in 0 .. 255
  <1>1. k \in Seq(0 .. 255)
    BY DEF Fit
  <1> QED
    BY <1>1, Entry

\* pat_key_test tests the bit of the byte that the number names.
LEMMA SetAtPlace ==
    ASSUME NEW k \in Fit, NEW i \in 1 .. Len(k), NEW m \in Pat!Masks
    PROVE  /\ IsSet(k, PlaceOf(i, m)) <=> (k[i] \div m) % 2 = 1
           /\ k[i] \in 0 .. 255 /\ i \in Index
           /\ (k[i] \div m) % 2 \in 0 .. 1
  <1>1. i \in Index /\ k[i] \in 0 .. 255
    <2>1. k \in Seq(0 .. 255) /\ Len(k) \in Nat /\ Len(k) <= 256
      BY DEF Fit
    <2>2. k[i] \in 0 .. 255
      BY ByteOf
    <2> QED
      BY <2>1, <2>2 DEF Index
  <1>2. PlaceOf(i, m) \div 256 = i - 1 /\ PlaceOf(i, m) % 256 = 255 - m
    BY <1>1, PlaceFacts
  <1>3. 255 - (255 - m) = m /\ m # 0 /\ (i - 1) + 1 = i
    BY <1>1, MaskRange DEF Index
  <1>4. (k[i] \div m) % 2 \in 0 .. 1
    BY <1>1, BitOfByte
  <1> QED
    BY <1>1, <1>2, <1>3, <1>4 DEF IsSet, Pat!pat_key_test

\* Where bytes begin to differ, the highest bit in which they do is the first of
\* the keys.
LEMMA FirstByteDiffers ==
    ASSUME NEW k \in Fit, NEW l \in Fit, NEW i \in 1 .. Len(k), i <= Len(l),
           \A j \in 1 .. (i - 1) : k[j] = l[j],
           NEW m \in Pat!Masks, HighBit(k[i], l[i], m)
    PROVE  Differ(k, l, PlaceOf(i, m))
  <1>0. i \in 1 .. Len(l) /\ k[i] \in 0 .. 255 /\ l[i] \in 0 .. 255 /\ i \in Index
    <2>1. i \in 1 .. Len(l)
      BY LastValue
    <2> QED
      BY <2>1, SetAtPlace
  <1> DEFINE d == PlaceOf(i, m)
  <1>1. d \in Places /\ d < KeyEnd(k) /\ d < KeyEnd(l)
    BY <1>0, PlaceFacts, PlaceOrder, LastValue
  <1>2. ~(IsSet(k, d) <=> IsSet(l, d))
    <2>1. (k[i] \div m) % 2 # (l[i] \div m) % 2
      BY <1>0, HighBitOrders
    <2> QED
      BY <1>0, <2>1, SetAtPlace
  <1>3. Agree(k, l, d)
    <2> SUFFICES ASSUME NEW b \in Places, b < d
                 PROVE  b < KeyEnd(k) /\ b < KeyEnd(l) /\ (IsSet(k, b) <=> IsSet(l, b))
      BY DEF Agree
    <2>1. PICK j \in Index, n \in Pat!Masks : b = PlaceOf(j, n)
      BY PlaceIs
    <2>2. j < i \/ (j = i /\ m < n)
      BY <1>0, <2>1, PlaceOrder
    <2>3. j \in 1 .. Len(k) /\ j \in 1 .. Len(l)
      BY <1>0, <2>2, LastValue DEF Index
    <2>4. b < KeyEnd(k) /\ b < KeyEnd(l)
      BY <2>1, <2>3, PlaceOrder, LastValue
    <2>5. (k[j] \div n) % 2 = (l[j] \div n) % 2
      <3>1. CASE j < i
        <4>1. j \in 1 .. (i - 1)
          BY <1>0, <3>1 DEF Index
        <4> QED
          BY <4>1
      <3>2. CASE j = i /\ m < n
        BY <1>0, <3>2, HigherBitsAgree
      <3> QED
        BY <2>2, <3>1, <3>2
    <2> QED
      BY <2>1, <2>3, <2>4, <2>5, SetAtPlace
  <1> QED
    BY <1>1, <1>2, <1>3 DEF Differ

\* Keys that agree to the end of a byte have the same bytes, and the other way
\* round.
LEMMA AgreeBytes ==
    ASSUME NEW k \in Fit, NEW l \in Fit, NEW n \in Nat, NEW e \in Nat, 256 * n - 1 <= e,
           n <= 256, Agree(k, l, e)
    PROVE  n <= Len(k) /\ n <= Len(l) /\ \A j \in 1 .. n : k[j] = l[j]
  <1>1. ASSUME NEW j \in 1 .. n PROVE j \in 1 .. Len(k) /\ j \in 1 .. Len(l) /\ k[j] = l[j]
    <2>1. j \in Index
      BY DEF Index
    <2>2. ASSUME NEW m \in Pat!Masks
          PROVE  /\ PlaceOf(j, m) < KeyEnd(k) /\ PlaceOf(j, m) < KeyEnd(l)
                 /\ IsSet(k, PlaceOf(j, m)) <=> IsSet(l, PlaceOf(j, m))
      <3>1. PlaceOf(j, m) \in Places /\ PlaceOf(j, m) \in Nat
        BY <2>1, PlaceFacts
      <3>2. PlaceOf(j, m) < 256 * j - 1
        BY <2>1, PlaceOrder
      <3>3. PlaceOf(j, m) < e
        BY <2>1, <3>1, <3>2
      <3> QED
        BY <3>1, <3>3 DEF Agree
    <2>3. 128 \in Pat!Masks
      BY DEF Pat!Masks
    <2>4. j <= Len(k) /\ j <= Len(l)
      <3>1. PlaceOf(j, 128) < 256 * Len(k) - 1 /\ PlaceOf(j, 128) < 256 * Len(l) - 1
        BY <2>2, <2>3, LastValue
      <3> QED
        BY <2>1, <2>3, <3>1, PlaceOrder, LastValue
    <2>5. j \in 1 .. Len(k) /\ j \in 1 .. Len(l)
      BY <2>1, <2>4, LastValue
    <2>6. ASSUME NEW m \in Pat!Masks PROVE (k[j] \div m) % 2 = (l[j] \div m) % 2
      <3>1. /\ IsSet(k, PlaceOf(j, m)) <=> (k[j] \div m) % 2 = 1
            /\ (k[j] \div m) % 2 \in 0 .. 1
        BY <2>5, SetAtPlace
      <3>2. /\ IsSet(l, PlaceOf(j, m)) <=> (l[j] \div m) % 2 = 1
            /\ (l[j] \div m) % 2 \in 0 .. 1
        BY <2>5, SetAtPlace
      <3> QED
        BY <2>2, <3>1, <3>2
    <2>7. k[j] \in 0 .. 255 /\ l[j] \in 0 .. 255
      BY <2>5, ByteOf
    <2>8. k[j] = l[j]
      BY <2>6, <2>7, BitsMakeByte
    <2> QED
      BY <2>5, <2>8
  <1>2. CASE n = 0
    BY <1>2, LastValue
  <1>3. CASE n # 0
    <2>1. n \in 1 .. n
      BY <1>3
    <2>2. n \in 1 .. Len(k) /\ n \in 1 .. Len(l)
      BY <1>1, <2>1
    <2> QED
      BY <1>1, <2>2, LastValue
  <1> QED
    BY <1>2, <1>3

\* Keys with the same first bytes agree below the bits of the next.
LEMMA BytesAgree ==
    ASSUME NEW k \in Fit, NEW l \in Fit, NEW n \in Nat, n <= Len(k), n <= Len(l),
           \A j \in 1 .. n : k[j] = l[j]
    PROVE  Agree(k, l, 256 * n - 1)
  <1> SUFFICES ASSUME NEW b \in Places, b < 256 * n - 1
               PROVE  b < KeyEnd(k) /\ b < KeyEnd(l) /\ (IsSet(k, b) <=> IsSet(l, b))
    BY DEF Agree
  <1>1. PICK j \in Index, m \in Pat!Masks : b = PlaceOf(j, m)
    BY PlaceIs
  <1>2. n # 0 /\ n \in Index
    <2>1. n = 0 => b < -1
      OBVIOUS
    <2>2. b \in Nat
      BY PlaceTypes
    <2> QED
      BY <2>1, <2>2, LastValue DEF Index
  <1>3. j <= n
    BY <1>1, <1>2, PlaceOrder
  <1>4. j \in 1 .. n /\ j \in 1 .. Len(k) /\ j \in 1 .. Len(l)
    BY <1>1, <1>3, LastValue DEF Index
  <1>5. b < KeyEnd(k) /\ b < KeyEnd(l)
    BY <1>1, <1>4, PlaceOrder, LastValue
  <1> QED
    BY <1>1, <1>4, <1>5, SetAtPlace

\* A sequence begins another if it is no longer and has its first entries.
LEMMA PrefixBytes ==
    ASSUME NEW S, NEW s \in Seq(S), NEW t \in Seq(S)
    PROVE  Pat!IsPrefix(s, t) <=> Len(s) <= Len(t) /\ \A i \in 1 .. Len(s) : s[i] = t[i]
  <1>1. CASE ~(Len(s) <= Len(t))
    BY <1>1 DEF Pat!IsPrefix
  <1>2. CASE Len(s) <= Len(t)
    <2> DEFINE u == SubSeq(s, 1, Len(s))
               v == SubSeq(t, 1, Len(s))
    <2>1. Len(u) = Len(s) /\ Len(v) = Len(s) /\ u \in Seq(S) /\ v \in Seq(S)
      BY <1>2
    <2>2. \A i \in 1 .. Len(s) : u[i] = s[i] /\ v[i] = t[i]
      BY <1>2
    <2>3. u = v <=> \A i \in 1 .. Len(s) : u[i] = v[i]
      <3> HIDE DEF u, v
      <3> QED
        BY <2>1, SeqEqual
    <2> QED
      BY <1>2, <2>2, <2>3 DEF Pat!IsPrefix
  <1> QED
    BY <1>1, <1>2

\* Where keys begin to differ: at a byte, or not at all within the shorter.
LEMMA FirstDifference ==
    ASSUME NEW k \in Fit, NEW l \in Fit, NEW n \in Nat, n <= Len(k), n <= Len(l),
           ~ \A j \in 1 .. n : k[j] = l[j]
    PROVE  \E i \in 1 .. n : k[i] # l[i] /\ \A j \in 1 .. (i - 1) : k[j] = l[j]
  <1> DEFINE T == {i \in 1 .. n : k[i] # l[i]}
  <1>1. T # {} /\ T \in SUBSET Nat
    OBVIOUS
  <1>2. PICK i \in T : \A j \in T : i <= j
    BY <1>1, LeastNatural
  <1>3. \A j \in 1 .. (i - 1) : k[j] = l[j]
    BY <1>2
  <1> QED
    BY <1>2, <1>3

\* Bytes that differ first make the first bit in which keys differ, and order
\* them.
LEMMA ByteParts ==
    ASSUME NEW k \in Fit, NEW l \in Fit, NEW i \in 1 .. Len(k), i <= Len(l), k[i] # l[i],
           \A j \in 1 .. (i - 1) : k[j] = l[j]
    PROVE  /\ \E m \in Pat!Masks : HighBit(k[i], l[i], m)
           /\ \A m \in Pat!Masks : HighBit(k[i], l[i], m) => Differ(k, l, PlaceOf(i, m))
           /\ i \in Index
  <1>1. k[i] \in 0 .. 255 /\ l[i] \in 0 .. 255 /\ i \in Index
    <2>0. Len(k) \in Nat /\ Len(l) \in Nat
      BY LastValue
    <2>1. i \in 1 .. Len(l)
      BY <2>0
    <2>2. k[i] \in 0 .. 255 /\ l[i] \in 0 .. 255
      BY <2>1, ByteOf
    <2>3. i \in Index
      BY <2>0, LastValue DEF Index
    <2> QED
      BY <2>2, <2>3
  <1>2. \E m \in Pat!Masks : HighBit(k[i], l[i], m)
    BY <1>1, BytesDiffer
  <1>3. \A m \in Pat!Masks : HighBit(k[i], l[i], m) => Differ(k, l, PlaceOf(i, m))
    BY FirstByteDiffers
  <1> QED
    BY <1>1, <1>2, <1>3

\* Keys differ first in one place.
LEMMA DifferUnique ==
    ASSUME NEW k, NEW l, NEW d, NEW e, Differ(k, l, d), Differ(k, l, e)
    PROVE  d = e
  <1>1. d \in Places /\ e \in Places /\ d \in Nat /\ e \in Nat
    BY PlaceTypes DEF Differ
  <1>2. ~(d < e) /\ ~(e < d)
    BY <1>1 DEF Differ, Agree
  <1> QED
    BY <1>1, <1>2

\* Keys of which none begins the other differ in a bit of both.
LEMMA KeysPart ==
    ASSUME NEW k \in Fit, NEW l \in Fit, ~Pat!Overlap(k, l)
    PROVE  \E d \in Places : Differ(k, l, d)
  <1> DEFINE n == IF Len(k) <= Len(l) THEN Len(k) ELSE Len(l)
  <1>0. k \in Seq(0 .. 255) /\ l \in Seq(0 .. 255)
    BY DEF Fit
  <1>1. n \in Nat /\ n <= Len(k) /\ n <= Len(l)
    BY LastValue
  <1>2. ~ \A j \in 1 .. n : k[j] = l[j]
    <2> SUFFICES ASSUME \A j \in 1 .. n : k[j] = l[j] PROVE FALSE
      OBVIOUS
    <2>1. Pat!IsPrefix(k, l) \/ Pat!IsPrefix(l, k)
      <3>1. CASE Len(k) <= Len(l)
        BY <1>0, <3>1, PrefixBytes
      <3>2. CASE ~(Len(k) <= Len(l))
        <4>1. Len(l) <= Len(k) /\ \A j \in 1 .. Len(l) : l[j] = k[j]
          BY <3>2, LastValue
        <4> QED
          BY <1>0, <4>1, PrefixBytes
      <3> QED
        BY <3>1, <3>2
    <2> QED
      BY <2>1 DEF Pat!Overlap
  <1>3. PICK i \in 1 .. n : k[i] # l[i] /\ \A j \in 1 .. (i - 1) : k[j] = l[j]
    <2> HIDE DEF n
    <2> QED
      BY <1>1, <1>2, FirstDifference
  <1>4. i \in 1 .. Len(k) /\ i <= Len(l)
    BY <1>1
  <1>5. \E m \in Pat!Masks : Differ(k, l, PlaceOf(i, m))
    BY <1>3, <1>4, ByteParts
  <1> QED
    BY <1>5 DEF Differ

\* Keys that differ in a bit differ in a byte, which orders them.
LEMMA DifferByte ==
    ASSUME NEW k \in Fit, NEW l \in Fit, NEW d, Differ(k, l, d)
    PROVE  \E i \in 1 .. Len(k), m \in Pat!Masks :
               /\ i \in 1 .. Len(l) /\ k[i] # l[i] /\ \A j \in 1 .. (i - 1) : k[j] = l[j]
               /\ d = PlaceOf(i, m) /\ HighBit(k[i], l[i], m)
  <1>1. PICK q \in Index, o \in Pat!Masks : d = PlaceOf(q, o)
    BY PlaceIs DEF Differ
  <1>2. q \in 1 .. Len(k) /\ q \in 1 .. Len(l)
    <2>1. PlaceOf(q, o) < 256 * Len(k) - 1 /\ PlaceOf(q, o) < 256 * Len(l) - 1
      BY <1>1, LastValue DEF Differ
    <2>2. q <= Len(k) /\ q <= Len(l)
      BY <2>1, PlaceOrder, LastValue
    <2> QED
      BY <2>2, LastValue DEF Index
  <1>3. ~ \A j \in 1 .. q : k[j] = l[j]
    <2>1. k[q] # l[q]
      BY <1>1, <1>2, SetAtPlace DEF Differ
    <2> QED
      BY <1>2, <2>1
  <1>4. PICK i \in 1 .. q : k[i] # l[i] /\ \A j \in 1 .. (i - 1) : k[j] = l[j]
    <2>1. q \in Nat /\ q <= Len(k) /\ q <= Len(l)
      BY <1>2, LastValue DEF Index
    <2> QED
      BY <1>3, <2>1, FirstDifference
  <1>5. i \in 1 .. Len(k) /\ i \in 1 .. Len(l) /\ i <= Len(l)
    BY <1>2, LastValue DEF Index
  <1>6. PICK m \in Pat!Masks : HighBit(k[i], l[i], m) /\ Differ(k, l, PlaceOf(i, m))
    BY <1>4, <1>5, ByteParts
  <1>7. d = PlaceOf(i, m)
    BY <1>6, DifferUnique
  <1> QED
    BY <1>4, <1>5, <1>6, <1>7

\* An order of bytes that the provers take as a fact.
LEMMA Smaller == \A x, y \in 0 .. 255 : x < y => x # y
  OBVIOUS

\* The order of keys is that of the first bit in which they differ.
LEMMA DifferOrders ==
    ASSUME NEW k \in Fit, NEW l \in Fit, NEW d, Differ(k, l, d)
    PROVE  /\ Pat!Before(k, l) <=> IsSet(l, d)
           /\ ~Pat!Overlap(k, l)
           /\ k # l
  <1>1. PICK i \in 1 .. Len(k), m \in Pat!Masks :
               /\ i \in 1 .. Len(l) /\ k[i] # l[i] /\ \A j \in 1 .. (i - 1) : k[j] = l[j]
               /\ d = PlaceOf(i, m) /\ HighBit(k[i], l[i], m)
    BY DifferByte
  <1>0. k \in Seq(0 .. 255) /\ l \in Seq(0 .. 255)
    BY DEF Fit
  <1>2. k[i] \in 0 .. 255 /\ l[i] \in 0 .. 255 /\ (IsSet(l, d) <=> (l[i] \div m) % 2 = 1)
    BY <1>1, SetAtPlace
  <1>3. k[i] < l[i] <=> IsSet(l, d)
    BY <1>1, <1>2, HighBitOrders
  <1>4. Pat!Before(k, l) <=> k[i] < l[i]
    <2>1. ASSUME k[i] < l[i] PROVE Pat!Before(k, l)
      BY <1>1, <2>1, LastValue DEF Pat!Before
    <2>2. ASSUME Pat!Before(k, l) PROVE k[i] < l[i]
      <3>1. PICK a \in 1 .. (IF Len(k) < Len(l) THEN Len(k) ELSE Len(l)) :
                     k[a] < l[a] /\ \A j \in 1 .. (a - 1) : k[j] = l[j]
        BY <2>2 DEF Pat!Before
      <3>2. a \in 1 .. Len(k) /\ a \in 1 .. Len(l)
        BY LastValue
      <3>3. k[a] # l[a]
        <4>1. k[a] \in 0 .. 255 /\ l[a] \in 0 .. 255
          BY <3>2, ByteOf
        <4>3. k[a] < l[a]
          BY <3>1
        <4> QED
          BY <4>1, <4>3, Smaller
      <3>4. a = i
        BY <1>1, <3>1, <3>2, <3>3
      <3> QED
        BY <3>1, <3>4
    <2> QED
      BY <2>1, <2>2
  <1>5. ~Pat!Overlap(k, l)
    <2>1. ~Pat!IsPrefix(k, l)
      BY <1>0, <1>1, PrefixBytes
    <2>2. ~Pat!IsPrefix(l, k)
      BY <1>0, <1>1, PrefixBytes
    <2> QED
      BY <2>1, <2>2 DEF Pat!Overlap
  <1>6. k # l
    BY <1>1
  <1> QED
    BY <1>3, <1>4, <1>5, <1>6

\* pa_pat_mismatch finds the first bit in which keys differ.
LEMMA Mismatch ==
    ASSUME NEW k \in Fit, NEW l \in Fit, NEW bit \in Nat, NEW n \in Nat, n = bit \div 256 + 1,
           n <= Len(k), n <= Len(l)
    PROVE  \/ Pat!pa_pat_mismatch(k, l, bit) = bit /\ Agree(k, l, 256 * n - 1)
           \/ Differ(k, l, Pat!pa_pat_mismatch(k, l, bit))
  <1> DEFINE differ == {i \in 1 .. n : k[i] # l[i]}
  <1>1. CASE differ = {}
    <2>1. \A j \in 1 .. n : k[j] = l[j]
      BY <1>1
    <2>2. Pat!pa_pat_mismatch(k, l, bit) = bit
      BY <1>1 DEF Pat!pa_pat_mismatch
    <2> QED
      BY <2>1, <2>2, BytesAgree
  <1>2. CASE differ # {}
    <2>1. PICK i \in 1 .. n : k[i] # l[i] /\ \A j \in 1 .. (i - 1) : k[j] = l[j]
      BY <1>2, FirstDifference
    <2>2. i = CHOOSE j \in differ : \A o \in differ : j <= o
      <3>1. i \in differ /\ \A o \in differ : i <= o
        BY <2>1
      <3>2. \A j \in differ : (\A o \in differ : j <= o) => j = i
        BY <3>1
      <3> QED
        BY <3>1, <3>2
    <2>3. Pat!pa_pat_mismatch(k, l, bit) = Pat!pa_pat_makebit(i - 1, k[i], l[i])
      BY <1>2, <2>2 DEF Pat!pa_pat_mismatch
    <2> DEFINE mask == CHOOSE m \in Pat!Masks : HighBit(k[i], l[i], m)
    <2>4. i \in 1 .. Len(k) /\ i <= Len(l)
      BY LastValue
    <2>5. mask \in Pat!Masks /\ HighBit(k[i], l[i], mask) /\ Differ(k, l, PlaceOf(i, mask))
      BY <2>1, <2>4, ByteParts
    <2>6. Pat!pa_pat_makebit(i - 1, k[i], l[i]) = PlaceOf(i, mask)
      <3>1. Pat!pa_pat_makebit(i - 1, k[i], l[i]) = (i - 1) * 256 + 255 - mask
        BY DEF Pat!pa_pat_makebit, HighBit
      <3> HIDE DEF mask
      <3>2. (i - 1) * 256 = 256 * (i - 1)
        OBVIOUS
      <3> QED
        BY <3>1, <3>2 DEF PlaceOf
    <2> QED
      BY <2>3, <2>5, <2>6
  <1> QED
    BY <1>1, <1>2

\* Keys that agree below a bit agree below every earlier one.
LEMMA AgreeLess ==
    ASSUME NEW k, NEW l, NEW e \in Int, NEW f \in Int, f <= e, Agree(k, l, e)
    PROVE  Agree(k, l, f)
  BY PlaceTypes DEF Agree

\* A key agrees with itself as far as it goes.
LEMMA AgreeSame ==
    ASSUME NEW k \in Fit, NEW e \in Int, e <= KeyEnd(k)
    PROVE  Agree(k, k, e)
  BY PlaceTypes, LastValue DEF Agree

\* Agreement goes both ways, and from key to key.
LEMMA AgreeBoth ==
    ASSUME NEW k, NEW l, NEW m, NEW e, Agree(k, l, e)
    PROVE  Agree(l, k, e) /\ (Agree(l, m, e) => Agree(k, m, e))
  BY DEF Agree

\* pa_pat_mismatch tells whether keys agree, and where they part.
LEMMA MismatchTells ==
    ASSUME NEW k \in Fit, NEW l \in Fit, NEW bit \in Nat, bit <= KeyEnd(k), bit <= KeyEnd(l)
    PROVE  /\ Pat!pa_pat_mismatch(k, l, bit) \in Nat
           /\ Pat!pa_pat_mismatch(k, l, bit) >= bit <=> Agree(k, l, bit)
           /\ Pat!pa_pat_mismatch(k, l, bit) < bit => Differ(k, l, Pat!pa_pat_mismatch(k, l, bit))
  <1> DEFINE n == bit \div 256 + 1
             x == Pat!pa_pat_mismatch(k, l, bit)
  <1>1. /\ n \in Nat /\ n <= Len(k) /\ n <= Len(l)
        /\ bit <= 256 * n - 1 /\ 256 * n - 1 \in Int
    <2>1. \A b \in Nat, j \in Nat : b <= 256 * j - 1 => b \div 256 + 1 <= j
      OBVIOUS
    <2>2. \A b \in Nat : b \div 256 + 1 \in Nat /\ b <= 256 * (b \div 256 + 1) - 1
      OBVIOUS
    <2> QED
      BY <2>1, <2>2, LastValue
  <1>2. \/ x = bit /\ Agree(k, l, 256 * n - 1)
        \/ Differ(k, l, x)
    <2> HIDE DEF x
    <2>1. n = bit \div 256 + 1
      OBVIOUS
    <2> HIDE DEF n
    <2> QED
      BY <1>1, <2>1, Mismatch DEF x
  <1> HIDE DEF n, x
  <1>3. CASE x = bit /\ Agree(k, l, 256 * n - 1)
    BY <1>1, <1>3, AgreeLess DEF x
  <1>4. CASE Differ(k, l, x)
    <2>1. x \in Nat /\ x \in Places /\ Agree(k, l, x)
      BY <1>4, PlaceTypes DEF Differ
    <2>2. CASE x >= bit
      BY <2>1, <2>2, AgreeLess DEF x
    <2>3. CASE x < bit
      <3>1. ~Agree(k, l, bit)
        BY <1>4, <2>3, <2>1 DEF Differ, Agree
      <3> QED
        BY <1>4, <2>1, <2>3, <3>1 DEF x
    <2> QED
      BY <2>1, <2>2, <2>3
  <1> QED
    BY <1>2, <1>3, <1>4

\* Keys that agree to the end of one of them overlap, and the other way round.
LEMMA AgreeOverlaps ==
    ASSUME NEW k \in Fit, NEW l \in Fit, KeyEnd(k) <= KeyEnd(l)
    PROVE  Agree(k, l, KeyEnd(k)) <=> Pat!Overlap(k, l)
  <1>1. Len(k) <= Len(l) /\ Len(k) \in Nat /\ KeyEnd(k) = 256 * Len(k) - 1 /\ KeyEnd(k) \in Nat
    BY LastValue
  <1>2. k \in Seq(0 .. 255) /\ l \in Seq(0 .. 255) /\ Len(k) <= 256
    BY DEF Fit
  <1>3. ASSUME Agree(k, l, KeyEnd(k)) PROVE Pat!Overlap(k, l)
    <2>1. \A j \in 1 .. Len(k) : k[j] = l[j]
      BY <1>1, <1>2, <1>3, AgreeBytes
    <2> QED
      BY <1>1, <1>2, <2>1, PrefixBytes DEF Pat!Overlap
  <1>4. ASSUME Pat!Overlap(k, l) PROVE Agree(k, l, KeyEnd(k))
    <2>1. \A j \in 1 .. Len(k) : k[j] = l[j]
      <3>1. CASE Pat!IsPrefix(k, l)
        BY <1>2, <3>1, PrefixBytes
      <3>2. CASE Pat!IsPrefix(l, k)
        <4>1. Len(l) <= Len(k) /\ \A j \in 1 .. Len(l) : l[j] = k[j]
          BY <1>2, <3>2, PrefixBytes
        <4> QED
          BY <1>1, <4>1, LastValue
      <3> QED
        BY <1>4, <3>1, <3>2 DEF Pat!Overlap
    <2> QED
      BY <1>1, <2>1, BytesAgree
  <1> QED
    BY <1>3, <1>4

\* The masks of a byte from left to right.
MaskAt(j) == <<128, 64, 32, 16, 8, 4, 2, 1>>[j + 1]
Turns == {0, 1, 2, 3, 4, 5, 6, 7}

\* The masks of a byte's bits, from left to right.
LEMMA MasksInTurn ==
    /\ \A j \in Turns : MaskAt(j) \in Pat!Masks /\ Pat!pa_pat_bit_masks[j + 1] = 255 - MaskAt(j)
    /\ \A m \in Pat!Masks : \E j \in Turns : m = MaskAt(j)
    /\ \A i, j \in Turns : MaskAt(i) < MaskAt(j) <=> j < i
  <1>1. /\ MaskAt(0) = 128 /\ MaskAt(1) = 64 /\ MaskAt(2) = 32 /\ MaskAt(3) = 16
        /\ MaskAt(4) = 8 /\ MaskAt(5) = 4 /\ MaskAt(6) = 2 /\ MaskAt(7) = 1
    BY DEF MaskAt
  <1>2. /\ Pat!pa_pat_bit_masks[1] = 127 /\ Pat!pa_pat_bit_masks[2] = 191
        /\ Pat!pa_pat_bit_masks[3] = 223 /\ Pat!pa_pat_bit_masks[4] = 239
        /\ Pat!pa_pat_bit_masks[5] = 247 /\ Pat!pa_pat_bit_masks[6] = 251
        /\ Pat!pa_pat_bit_masks[7] = 253 /\ Pat!pa_pat_bit_masks[8] = 254
    BY DEF Pat!pa_pat_bit_masks
  <1>3. ASSUME NEW j \in Turns
        PROVE  MaskAt(j) \in Pat!Masks /\ Pat!pa_pat_bit_masks[j + 1] = 255 - MaskAt(j)
    <2>1. MaskAt(j) \in Pat!Masks
      BY <1>1 DEF Turns, Pat!Masks
    <2>2. Pat!pa_pat_bit_masks[j + 1] = 255 - MaskAt(j)
      BY <1>1, <1>2 DEF Turns
    <2> QED
      BY <2>1, <2>2
  <1>4. \A m \in Pat!Masks : \E j \in Turns : m = MaskAt(j)
    BY <1>1, MaskValues DEF Turns
  <1>5. \A i, j \in Turns : MaskAt(i) < MaskAt(j) <=> j < i
    BY <1>1 DEF Turns
  <1> QED
    BY <1>3, <1>4, <1>5

\* Bits in bytes of eight.
LEMMA Eighths ==
    ASSUME NEW i \in Nat
    PROVE  i \div 8 \in Nat /\ i % 8 \in Turns /\ i = 8 * (i \div 8) + (i % 8)
  <1>1. i \div 8 \in Nat /\ i % 8 \in Nat /\ i % 8 < 8 /\ i = 8 * (i \div 8) + (i % 8)
    OBVIOUS
  <1> QED
    BY <1>1 DEF Turns

\* A number is the byte and the bit in it in one way.
LEMMA EighthsUnique ==
    ASSUME NEW q \in Nat, NEW j \in Nat, j < 8
    PROVE  (8 * q + j) \div 8 = q /\ (8 * q + j) % 8 = j /\ 8 * q + j \in Nat
  OBVIOUS

\* The bits of a key in their order.
PlaceAt(i) == PlaceOf(i \div 8 + 1, MaskAt(i % 8))

\* Where a prefix ends: the bits before are as many as it has.
LEMMA PrefixEnd ==
    ASSUME NEW n \in Nat, n # 0, n <= 2048
    PROVE  /\ Pat!pa_pat_plen_to_bit(n) \in Nat /\ Pat!pa_pat_plen_to_bit(n) # 0
           /\ \A i \in Nat : i < n => /\ PlaceAt(i) \in Places
                                      /\ PlaceAt(i) < Pat!pa_pat_plen_to_bit(n)
           /\ \A b \in Places : b < Pat!pa_pat_plen_to_bit(n) =>
                 \E i \in Nat : i < n /\ b = PlaceAt(i)
           /\ \A l \in Index : n <= 8 * l <=> Pat!pa_pat_plen_to_bit(n) <= 256 * l - 1
  <1> DEFINE P == Pat!pa_pat_plen_to_bit(n)
             Q == n \div 8
             R == n % 8
  <1>1. Q \in Nat /\ R \in Turns /\ n = 8 * Q + R /\ Q <= 256 /\ (R # 0 => Q < 256)
    <2>1. Q \in Nat /\ R \in Turns /\ n = 8 * Q + R
      BY Eighths
    <2> HIDE DEF Q, R
    <2> QED
      BY <2>1 DEF Turns
  <1>2. IF R = 0 THEN P = 256 * Q - 1 ELSE Q + 1 \in Index /\ P = PlaceOf(Q + 1, MaskAt(R))
    <2>1. CASE R = 0
      <3>1. P = Q * 256 - 1
        BY <2>1 DEF Pat!pa_pat_plen_to_bit
      <3> HIDE DEF P, Q
      <3> QED
        BY <1>1, <2>1, <3>1
    <2>2. CASE R # 0
      <3>1. P = Q * 256 + Pat!pa_pat_bit_masks[R + 1]
        BY <2>2 DEF Pat!pa_pat_plen_to_bit
      <3> HIDE DEF P, Q, R
      <3>2. Pat!pa_pat_bit_masks[R + 1] = 255 - MaskAt(R) /\ MaskAt(R) \in Nat
        BY <1>1, MasksInTurn, MaskRange
      <3>3. Q + 1 \in Index
        BY <1>1, <2>2 DEF Index
      <3>4. 256 * (Q + 1 - 1) + 255 - MaskAt(R) = Q * 256 + (255 - MaskAt(R))
        <4>1. \A x, y \in Nat : 256 * (x + 1 - 1) + 255 - y = x * 256 + (255 - y)
          OBVIOUS
        <4> QED
          BY <1>1, <3>2, <4>1
      <3>5. PlaceOf(Q + 1, MaskAt(R)) = 256 * (Q + 1 - 1) + 255 - MaskAt(R)
        BY <1>1, <3>2 DEF PlaceOf
      <3>6. P = Q * 256 + (255 - MaskAt(R))
        BY <3>1, <3>2
      <3> QED
        BY <2>2, <3>3, <3>4, <3>5, <3>6
    <2> QED
      BY <2>1, <2>2
  <1> HIDE DEF P, Q, R
  <1>3. ASSUME NEW i \in Nat, i <= 2047
        PROVE  /\ PlaceAt(i) \in Places /\ PlaceAt(i) < P <=> i < n
    <2> DEFINE q == i \div 8
               r == i % 8
    <2>1. q \in Nat /\ r \in Turns /\ i = 8 * q + r
      BY Eighths
    <2>2. PlaceAt(i) = PlaceOf(q + 1, MaskAt(r))
      BY DEF PlaceAt
    <2> HIDE DEF q, r
    <2>3. q + 1 \in Index /\ MaskAt(r) \in Pat!Masks
      BY <1>3, <2>1, MasksInTurn DEF Turns, Index
    <2>4. PlaceAt(i) \in Places
      BY <2>2, <2>3, PlaceFacts
    <2>5. PlaceAt(i) < P <=> i < n
      <3>1. CASE R = 0
        <4>1. q < Q <=> i < n
          BY <1>1, <2>1, <3>1 DEF Turns
        <4>2. CASE Q = 0
          BY <1>1, <3>1, <4>2
        <4>3. CASE Q # 0
          <5>1. Q \in Index
            BY <1>1, <4>3 DEF Index
          <5>2. PlaceOf(q + 1, MaskAt(r)) < 256 * Q - 1 <=> q + 1 <= Q
            BY <2>3, <5>1, PlaceOrder
          <5>3. q + 1 <= Q <=> q < Q
            BY <1>1, <2>1
          <5> QED
            BY <1>2, <2>2, <3>1, <4>1, <5>2, <5>3
        <4> QED
          BY <4>2, <4>3
      <3>2. CASE R # 0
        <4>1. MaskAt(R) \in Pat!Masks /\ Q + 1 \in Index
          BY <1>1, <1>2, <3>2, MasksInTurn
        <4>2. PlaceOf(q + 1, MaskAt(r)) < PlaceOf(Q + 1, MaskAt(R)) <=>
                  (q + 1 < Q + 1 \/ (q + 1 = Q + 1 /\ MaskAt(R) < MaskAt(r)))
          BY <2>3, <4>1, PlaceOrder
        <4>3. MaskAt(R) < MaskAt(r) <=> r < R
          BY <1>1, <2>1, MasksInTurn
        <4>4. q + 1 < Q + 1 \/ (q + 1 = Q + 1 /\ r < R) <=> i < n
          BY <1>1, <2>1 DEF Turns
        <4> QED
          BY <1>2, <2>2, <3>2, <4>2, <4>3, <4>4
      <3> QED
        BY <3>1, <3>2
    <2> QED
      BY <2>4, <2>5
  <1>4. P \in Nat /\ P # 0
    <2>1. CASE R = 0
      BY <1>1, <1>2, <2>1
    <2>2. CASE R # 0
      BY <1>1, <1>2, <2>2, MasksInTurn, PlaceFacts
    <2> QED
      BY <2>1, <2>2
  <1>5. \A i \in Nat : i < n => PlaceAt(i) \in Places /\ PlaceAt(i) < P
    BY <1>3
  <1>6. ASSUME NEW b \in Places, b < P PROVE \E i \in Nat : i < n /\ b = PlaceAt(i)
    <2>1. PICK q \in Index, m \in Pat!Masks : b = PlaceOf(q, m)
      BY PlaceIs
    <2>2. PICK j \in Turns : m = MaskAt(j)
      BY MasksInTurn
    <2> DEFINE i == 8 * (q - 1) + j
    <2>3. i \in Nat /\ i \div 8 = q - 1 /\ i % 8 = j
      <3>1. q - 1 \in Nat
        BY DEF Index
      <3> DEFINE o == q - 1
      <3>2. o \in Nat /\ i = 8 * o + j /\ j \in Nat /\ j < 8
        BY <3>1 DEF Turns
      <3> HIDE DEF i, o
      <3>3. (8 * o + j) \div 8 = o /\ (8 * o + j) % 8 = j /\ 8 * o + j \in Nat
        BY <3>2, EighthsUnique
      <3> QED
        BY <3>2, <3>3 DEF o
    <2>4. i <= 2047
      BY DEF Index, Turns
    <2> HIDE DEF i
    <2>5. b = PlaceAt(i)
      <3>1. q - 1 + 1 = q
        BY DEF Index
      <3> QED
        BY <2>1, <2>2, <2>3, <3>1 DEF PlaceAt
    <2>6. i < n
      BY <1>3, <1>6, <2>3, <2>4, <2>5
    <2> QED
      BY <2>3, <2>5, <2>6
  <1>7. ASSUME NEW l \in Index PROVE n <= 8 * l <=> P <= 256 * l - 1
    <2>0. l \in Nat
      BY DEF Index
    <2>1. CASE R = 0
      BY <1>1, <1>2, <2>0, <2>1
    <2>2. CASE R # 0
      <3>1. MaskAt(R) \in Pat!Masks /\ Q + 1 \in Index
        BY <1>1, <1>2, <2>2, MasksInTurn
      <3>2. PlaceOf(Q + 1, MaskAt(R)) < 256 * l - 1 <=> Q + 1 <= l
        BY <3>1, PlaceOrder
      <3>3. /\ PlaceOf(Q + 1, MaskAt(R)) = 256 * Q + 255 - MaskAt(R)
            /\ MaskAt(R) \in Nat /\ MaskAt(R) # 0
            /\ MaskAt(R) <= 128
        BY <1>1, <3>1, MaskRange DEF PlaceOf
      <3>4. n <= 8 * l <=> Q + 1 <= l
        BY <1>1, <2>0, <2>2 DEF Turns
      <3>5. 256 * Q + 255 - MaskAt(R) <= 256 * l - 1 <=> Q + 1 <= l
        BY <1>1, <2>0, <3>3
      <3> QED
        BY <1>2, <2>2, <3>3, <3>4, <3>5
    <2> QED
      BY <2>1, <2>2
  <1> QED
    BY <1>4, <1>5, <1>6, <1>7 DEF P

\* A key has a prefix if they agree to its end.
LEMMA HasPrefixAgrees ==
    ASSUME NEW k \in Fit, NEW p, p.bytes \in Fit, p.plen \in 1 .. 8 * Len(p.bytes)
    PROVE  Pat!HasPrefix(k, p) <=> Agree(k, p.bytes, Pat!pa_pat_plen_to_bit(p.plen))
  <1> DEFINE n == p.plen
             P == Pat!pa_pat_plen_to_bit(n)
             l == p.bytes
  <1>1. Len(l) \in Index /\ Len(k) \in Index /\ Len(l) \in Nat /\ Len(k) \in Nat /\ Len(l) <= 256
        /\ Len(k) <= 256
    BY LastValue DEF Index
  <1>2. n \in Nat /\ n # 0 /\ n <= 2048 /\ n <= 8 * Len(l)
    BY <1>1
  <1>9. /\ P \in Nat
        /\ \A i \in Nat : i < n => PlaceAt(i) \in Places /\ PlaceAt(i) < P
        /\ \A b \in Places : b < P => \E i \in Nat : i < n /\ b = PlaceAt(i)
        /\ \A j \in Index : n <= 8 * j <=> P <= 256 * j - 1
    <2> HIDE DEF n
    <2> QED
      BY <1>2, PrefixEnd
  <1>10. l \in Fit
    OBVIOUS
  <1>11. Pat!HasPrefix(k, p) <=> /\ Len(k) * 8 >= n
                                 /\ \A i \in 0 .. n - 1 :
                                       (k[i \div 8 + 1] \div MaskAt(i % 8)) % 2
                                           = (l[i \div 8 + 1] \div MaskAt(i % 8)) % 2
    BY DEF Pat!HasPrefix, MaskAt
  <1>12. Agree(k, p.bytes, Pat!pa_pat_plen_to_bit(p.plen)) <=> Agree(k, l, P)
    OBVIOUS
  <1> HIDE DEF n, P, l
  <1>3. P <= KeyEnd(l) /\ P \in Nat
    BY <1>1, <1>2, <1>9, <1>10, LastValue
  <1>4. n <= 8 * Len(k) <=> P <= KeyEnd(k)
    <2>1. KeyEnd(k) = 256 * Len(k) - 1
      BY LastValue
    <2>2. n <= 8 * Len(k) <=> P <= 256 * Len(k) - 1
      <3>1. \A j \in Index : n <= 8 * j <=> P <= 256 * j - 1
        BY <1>9
      <3>2. Len(k) \in Index
        BY <1>1
      <3> QED
        BY <3>1, <3>2
    <2> QED
      BY <2>1, <2>2
  <1> DEFINE Same(i) == (k[i \div 8 + 1] \div MaskAt(i % 8)) % 2
                            = (l[i \div 8 + 1] \div MaskAt(i % 8)) % 2
  <1>5. Pat!HasPrefix(k, p) <=> n <= 8 * Len(k) /\ \A i \in 0 .. n - 1 : Same(i)
    <2>1. Len(k) * 8 = 8 * Len(k)
      BY <1>1
    <2> QED
      BY <1>1, <1>2, <1>11, <2>1
  <1>6. ASSUME NEW i \in Nat, i < n, n <= 8 * Len(k)
        PROVE  Same(i) <=> (IsSet(k, PlaceAt(i)) <=> IsSet(l, PlaceAt(i)))
    <2> DEFINE q == i \div 8 + 1
               m == MaskAt(i % 8)
    <2>1. q \in 1 .. Len(k) /\ q \in 1 .. Len(l) /\ m \in Pat!Masks
      <3>1. i \div 8 \in Nat /\ i % 8 \in Turns /\ i = 8 * (i \div 8) + (i % 8)
        BY Eighths
      <3>2. 8 * (i \div 8) < 8 * Len(k) /\ 8 * (i \div 8) < 8 * Len(l)
        BY <1>1, <1>2, <1>6, <3>1 DEF Turns
      <3>3. i \div 8 < Len(k) /\ i \div 8 < Len(l)
        BY <1>1, <3>1, <3>2
      <3>4. m \in Pat!Masks
        BY <3>1, MasksInTurn
      <3> QED
        BY <1>1, <3>1, <3>3, <3>4
    <2>2. PlaceAt(i) = PlaceOf(q, m)
      BY DEF PlaceAt
    <2>3. Same(i) <=> (k[q] \div m) % 2 = (l[q] \div m) % 2
      OBVIOUS
    <2> HIDE DEF q, m, Same
    <2> QED
      BY <1>10, <2>1, <2>2, <2>3, SetAtPlace
  <1> HIDE DEF Same
  <1>7. ASSUME n <= 8 * Len(k)
        PROVE  (\A i \in 0 .. n - 1 : Same(i)) <=> Agree(k, l, P)
    <2>1. P <= KeyEnd(k)
      BY <1>4, <1>7
    <2>2. ASSUME \A i \in 0 .. n - 1 : Same(i) PROVE Agree(k, l, P)
      <3> SUFFICES ASSUME NEW b \in Places, b < P
                   PROVE  b < KeyEnd(k) /\ b < KeyEnd(l) /\ (IsSet(k, b) <=> IsSet(l, b))
        BY DEF Agree
      <3>1. PICK i \in Nat : i < n /\ b = PlaceAt(i)
        BY <1>9
      <3>2. Same(i)
        BY <1>2, <2>2, <3>1
      <3>3. b < KeyEnd(k) /\ b < KeyEnd(l)
        BY <1>3, <1>10, <2>1, PlaceTypes, LastValue
      <3> QED
        BY <1>6, <1>7, <3>1, <3>2, <3>3
    <2>3. ASSUME Agree(k, l, P) PROVE \A i \in 0 .. n - 1 : Same(i)
      <3> SUFFICES ASSUME NEW i \in Nat, i < n PROVE Same(i)
        BY <1>2
      <3>1. PlaceAt(i) \in Places /\ PlaceAt(i) < P
        BY <1>9
      <3> QED
        BY <1>6, <1>7, <2>3, <3>1 DEF Agree
    <2> QED
      BY <2>2, <2>3
  <1>8. Agree(k, l, P) => P <= KeyEnd(k)
    <2> SUFFICES ASSUME Agree(k, l, P), P > KeyEnd(k) PROVE FALSE
      BY <1>3, LastValue
    <2>1. ~(n <= 8 * Len(k))
      BY <1>3, <1>4, LastValue
    <2>2. n - 1 \in Nat /\ n - 1 < n /\ 8 * Len(k) <= n - 1
      BY <1>1, <1>2, <2>1
    <2>3. PlaceAt(8 * Len(k)) \in Places /\ PlaceAt(8 * Len(k)) < P
      BY <1>1, <1>2, <1>9, <2>2
    <2>4. PlaceAt(8 * Len(k)) < KeyEnd(k)
      BY <2>3 DEF Agree
    <2>5. PlaceAt(8 * Len(k)) = PlaceOf(Len(k) + 1, 128)
      <3>1. (8 * Len(k) + 0) \div 8 = Len(k) /\ (8 * Len(k) + 0) % 8 = 0
        BY <1>1, EighthsUnique DEF Turns
      <3>2. 8 * Len(k) + 0 = 8 * Len(k) /\ MaskAt(0) = 128
        BY <1>1 DEF MaskAt
      <3> QED
        BY <3>1, <3>2 DEF PlaceAt
    <2>6. PlaceOf(Len(k) + 1, 128) = 256 * Len(k) + 127
      BY <1>1 DEF PlaceOf
    <2> QED
      BY <1>1, <2>4, <2>5, <2>6, LastValue
  <1> QED
    BY <1>4, <1>5, <1>7, <1>8, <1>12

-----------------------------------------------------------------------------
(* Walks: they end, where their steps leave things as they are *)

Steps(from, right, wanted, f) ==
    f = [n \in 0 .. Len(nodes) |->
            IF n = 0 THEN from ELSE Pat!Step(f[n - 1], right, wanted)]

\* The steps of a walk, for every number of nodes.
LEMMA StepsExist ==
    ASSUME NEW S, NEW from \in S, NEW right, NEW wanted, Len(nodes) \in Nat,
           \A w \in S : Pat!Step(w, right, wanted) \in S
    PROVE  \E f : Steps(from, right, wanted, f)
  <1> DEFINE F == [x \in Nat \X S |-> Pat!Step(x[2], right, wanted)]
             p == [n \in Nat \ {0} |-> n - 1]
             N == 0 .. Len(nodes)
  <1>1. F \in [Nat \X S -> S] /\ \A n \in Nat, v \in S : F[<<n, v>>] = Pat!Step(v, right, wanted)
    OBVIOUS
  <1>2. /\ p \in [Nat \ {0} -> Nat] /\ \A n \in Nat \ {0} : p[n] = n - 1 /\ p[n] < n
    OBVIOUS
  <1> HIDE DEF F, p
  <1>3. Recursion(S, p, from, F)
    BY <1>1, <1>2 DEF Recursion
  <1>4. PICK f \in [Nat -> S] :
           f[0] = from /\ \A n \in Nat \ {0} : f[n] = F[<<n, f[p[n]]>>]
    BY <1>3, RecursionExists
  <1>5. \A n \in Nat \ {0} : f[n] = Pat!Step(f[n - 1], right, wanted)
    <2> SUFFICES ASSUME NEW n \in Nat \ {0} PROVE f[n] = Pat!Step(f[n - 1], right, wanted)
      OBVIOUS
    <2>1. n - 1 \in Nat /\ p[n] = n - 1
      BY <1>2
    <2>2. f[n - 1] \in S
      BY <2>1
    <2>3. f[n] = F[<<n, f[n - 1]>>]
      BY <1>4, <2>1
    <2> QED
      BY <1>1, <2>2, <2>3
  <1> DEFINE g == [n \in N |-> f[n]]
             h == [n \in N |-> IF n = 0 THEN from ELSE Pat!Step(g[n - 1], right, wanted)]
  <1>6. ASSUME NEW n \in N PROVE g[n] = h[n]
    <2>1. CASE n = 0
      BY <1>4, <2>1
    <2>2. CASE n # 0
      <3>1. n \in Nat \ {0} /\ n - 1 \in N
        BY <2>2
      <3>2. g[n - 1] = f[n - 1] /\ g[n] = f[n]
        BY <3>1
      <3>3. h[n] = Pat!Step(g[n - 1], right, wanted)
        BY <2>2
      <3> HIDE DEF g, h
      <3> QED
        BY <1>5, <3>1, <3>2, <3>3
    <2> QED
      BY <2>1, <2>2
  <1>7. g = h
    BY <1>6
  <1>8. Steps(from, right, wanted, g)
    <2> HIDE DEF g
    <2> QED
      BY <1>7 DEF Steps
  <1> QED
    BY <1>8

\* Where every step that changes a walk brings it nearer to an end, no step changes the last.
LEMMA WalkEnds ==
    ASSUME NEW S, NEW from \in S, NEW right, NEW wanted, Len(nodes) \in Nat,
           \A w \in S : Pat!Step(w, right, wanted) \in S,
           NEW left \in [S -> Nat], left[from] <= Len(nodes),
           \A w \in S : Pat!Step(w, right, wanted) # w =>
                            left[Pat!Step(w, right, wanted)] < left[w]
    PROVE  /\ Pat!Walk(from, right, wanted) \in S
           /\ Pat!Step(Pat!Walk(from, right, wanted), right, wanted)
                 = Pat!Walk(from, right, wanted)
  <1> DEFINE f == CHOOSE g : Steps(from, right, wanted, g)
             N == Len(nodes)
  <1>1. Steps(from, right, wanted, f)
    BY StepsExist
  <1>2. Pat!Walk(from, right, wanted) = f[N]
    BY DEF Pat!Walk, Steps
  <1> HIDE DEF f
  <1>3. f[0] = from /\ \A n \in Nat : n + 1 <= N => f[n + 1] = Pat!Step(f[n], right, wanted)
    <2>1. \A n \in 0 .. N : f[n] = IF n = 0 THEN from ELSE Pat!Step(f[n - 1], right, wanted)
      BY <1>1 DEF Steps
    <2>2. f[0] = from
      BY <2>1
    <2>3. ASSUME NEW n \in Nat, n + 1 <= N PROVE f[n + 1] = Pat!Step(f[n], right, wanted)
      <3>1. n + 1 \in 0 .. N /\ n + 1 # 0 /\ (n + 1) - 1 = n
        BY <2>3
      <3> QED
        BY <2>1, <3>1
    <2> QED
      BY <2>2, <2>3
  <1> DEFINE OK(n) == /\ f[n] \in S
                      /\ \/ Pat!Step(f[n], right, wanted) = f[n]
                         \/ left[f[n]] + n <= N
             T == {n \in Nat : n <= N => OK(n)}
  <1>4. 0 \in T
    BY <1>3
  <1>5. ASSUME NEW n \in Nat, n \in T PROVE n + 1 \in T
    <2> SUFFICES ASSUME n + 1 <= N PROVE OK(n + 1)
      OBVIOUS
    <2>1. OK(n)
      BY <1>5
    <2>2. f[n + 1] = Pat!Step(f[n], right, wanted)
      BY <1>3
    <2>3. CASE Pat!Step(f[n], right, wanted) = f[n]
      BY <2>1, <2>2, <2>3
    <2>4. CASE Pat!Step(f[n], right, wanted) # f[n]
      <3>1. f[n + 1] \in S
        BY <2>1, <2>2
      <3>2. left[f[n + 1]] < left[f[n]]
        BY <2>1, <2>2, <2>4
      <3>3. left[f[n + 1]] \in Nat /\ left[f[n]] \in Nat
        BY <2>1, <3>1
      <3> QED
        BY <2>1, <2>4, <3>1, <3>2, <3>3
    <2> QED
      BY <2>3, <2>4
  <1>6. Nat \subseteq T
    <2> HIDE DEF T
    <2> QED
      BY <1>4, <1>5, SetInduction
  <1>7. OK(N)
    BY <1>6
  <1>8. Pat!Step(f[N], right, wanted) = f[N]
    <2> SUFFICES ASSUME Pat!Step(f[N], right, wanted) # f[N] PROVE FALSE
      OBVIOUS
    <2>1. f[N] \in S /\ Pat!Step(f[N], right, wanted) \in S /\ left[f[N]] + N <= N
      BY <1>7
    <2>2. left[f[N]] \in Nat /\ left[Pat!Step(f[N], right, wanted)] \in Nat
      BY <2>1
    <2>3. left[Pat!Step(f[N], right, wanted)] < left[f[N]]
      BY <2>1
    <2> QED
      BY <2>1, <2>2, <2>3
  <1> QED
    BY <1>2, <1>7, <1>8

-----------------------------------------------------------------------------
(* The tree over the nodes of a set: members, those of them that test a bit *)

Sides == {"left", "right"}

KeyIn(nd, a) == nd[a].key
BitIn(nd, a) == nd[a].ppn_bit
Inner(nd, M) == {a \in M : BitIn(nd, a) # 0}
Child(nd, a, s) == IF s = "right" THEN nd[a].ppn_right ELSE nd[a].ppn_left

\* What tests below its bit goes for both.
On(nd, a, c) == Agree(KeyIn(nd, a), KeyIn(nd, c), BitIn(nd, a))

\* Past a bit, a member tests the next one that is tested on the way to it.
Reach(nd, M, b, c) ==
    \A a \in Inner(nd, M) : On(nd, a, c) /\ b < BitIn(nd, a) =>
        b < BitIn(nd, c) /\ BitIn(nd, c) <= BitIn(nd, a)

NodeType ==
    [key : Seq(0 .. 255), ppn_length : Nat, ppn_bit : Nat, ppn_left : Nat, ppn_right : Nat]

Members(nd, M) ==
    /\ M \subseteq 1 .. Len(nd)
    /\ \A a \in M : KeyIn(nd, a) \in Fit /\ nd[a].ppn_length = KeyEnd(KeyIn(nd, a))

\* Where two members differ is tested.
Branches(nd, M) ==
    \A x, y \in M : x # y => \E a \in Inner(nd, M) :
        On(nd, a, x) /\ Differ(KeyIn(nd, x), KeyIn(nd, y), BitIn(nd, a))

Links(nd, M) ==
    \A a \in Inner(nd, M) :
        /\ BitIn(nd, a) \in Places /\ BitIn(nd, a) < KeyEnd(KeyIn(nd, a))
        /\ \A s \in Sides :
              /\ Child(nd, a, s) \in M
              /\ On(nd, a, Child(nd, a, s))
              /\ BitIn(nd, a) < KeyEnd(KeyIn(nd, Child(nd, a, s)))
              /\ IsSet(KeyIn(nd, Child(nd, a, s)), BitIn(nd, a)) <=> s = "right"
              /\ Reach(nd, M, BitIn(nd, a), Child(nd, a, s))

Distinct(nd, M) ==
    \A a, c \in Inner(nd, M) : BitIn(nd, a) = BitIn(nd, c) /\ On(nd, a, c) => a = c

Rooted(nd, root, M) ==
    IF M = {} THEN root = 0 ELSE root \in M /\ Reach(nd, M, 0, root)

Tree(nd, root, M) ==
    /\ nd \in Seq(NodeType)
    /\ Members(nd, M) /\ Branches(nd, M) /\ Links(nd, M) /\ Distinct(nd, M)
    /\ Rooted(nd, root, M)

\* What is known of each member.
LEMMA MemberTypes ==
    ASSUME NEW nd \in Seq(NodeType), NEW M, Members(nd, M), NEW a \in M
    PROVE  /\ a \in Nat /\ a # 0 /\ a <= Len(nd) /\ a \in 1 .. Len(nd) /\ Len(nd) \in Nat
           /\ nd[a] \in NodeType /\ BitIn(nd, a) \in Nat /\ KeyIn(nd, a) \in Fit
           /\ KeyEnd(KeyIn(nd, a)) \in Nat /\ nd[a].ppn_length = KeyEnd(KeyIn(nd, a))
           /\ Child(nd, a, "left") \in Nat /\ Child(nd, a, "right") \in Nat
  <1>1. a \in 1 .. Len(nd) /\ Len(nd) \in Nat
    BY DEF Members
  <1>2. nd[a] \in NodeType
    BY <1>1, Entry
  <1>3. KeyIn(nd, a) \in Fit /\ nd[a].ppn_length = KeyEnd(KeyIn(nd, a))
    BY DEF Members
  <1>4. BitIn(nd, a) \in Nat /\ nd[a].ppn_left \in Nat /\ nd[a].ppn_right \in Nat
    BY <1>2 DEF NodeType, BitIn
  <1> QED
    BY <1>1, <1>2, <1>3, <1>4, LastValue DEF Child

-----------------------------------------------------------------------------
(* What walks keep *)

Turn(right, b) == IF right[b] THEN "right" ELSE "left"

WalkType ==
    [bit : Nat, node : Nat, at : Nat, link : Nat \X {"root", "left", "right"},
     lastleft : Nat, lastright : Nat]

\* Walks from a member past a bit, to bits before one.
Walks(M, b, c, right, e) ==
    {w \in WalkType :
        /\ w.node \in M /\ Reach(nodes, M, w.bit, w.node)
        /\ b <= w.bit /\ (w.bit = b \/ w.bit < e)
        /\ Agree(KeyIn(nodes, w.node), KeyIn(nodes, c), b + 1)
        /\ \A a \in Inner(nodes, M) :
              On(nodes, a, w.node) /\ b < BitIn(nodes, a) /\ BitIn(nodes, a) <= w.bit =>
                  (IsSet(KeyIn(nodes, w.node), BitIn(nodes, a)) <=> right[BitIn(nodes, a)])}

Stops(w, e) == ~(w.bit < BitIn(nodes, w.node) /\ BitIn(nodes, w.node) < e)

\* A step that is taken.
Takes(w, v, right) ==
    LET b == BitIn(nodes, w.node)
        s == Turn(right, b)
    IN /\ v.bit = b /\ v.node = Child(nodes, w.node, s) /\ v.at = v.node
       /\ v.link = <<w.at, s>>
       /\ v.lastleft = (IF s = "right" THEN w.lastleft ELSE w.at)
       /\ v.lastright = (IF s = "right" THEN w.at ELSE w.lastright)

\* A step of a walk stops, or takes the link of the side it turns to.
LEMMA StepIs ==
    ASSUME NEW w, NEW right, NEW e \in Nat, BitIn(nodes, w.node) \in Nat
    PROVE  LET v == Pat!Step(w, right, 0 .. e - 1)
           IN IF Stops(w, e) THEN v = w ELSE Takes(w, v, right)
  BY DEF Pat!Step, Stops, Takes, Turn, Child, BitIn

\* A step that is taken keeps what is known of walks.
LEMMA StepKeeps ==
    ASSUME NEW M, Tree(nodes, pp_root, M), NEW b \in Nat, NEW c \in M, NEW right, NEW e \in Nat,
           NEW w \in Walks(M, b, c, right, e), NEW v, Takes(w, v, right), ~Stops(w, e),
           v \in WalkType
    PROVE  v \in Walks(M, b, c, right, e)
  <1> DEFINE n == w.node
             t == BitIn(nodes, n)
             s == Turn(right, t)
             o == v.node
  <1>1. /\ n \in M /\ Reach(nodes, M, w.bit, n) /\ w.bit \in Nat
        /\ b <= w.bit /\ (w.bit = b \/ w.bit < e)
        /\ Agree(KeyIn(nodes, n), KeyIn(nodes, c), b + 1)
        /\ \A a \in Inner(nodes, M) :
              On(nodes, a, n) /\ b < BitIn(nodes, a) /\ BitIn(nodes, a) <= w.bit =>
                  (IsSet(KeyIn(nodes, n), BitIn(nodes, a)) <=> right[BitIn(nodes, a)])
    BY DEF Walks, WalkType
  <1>2. nodes \in Seq(NodeType) /\ Members(nodes, M) /\ Links(nodes, M)
    BY DEF Tree
  <1>3. t \in Nat /\ w.bit < t /\ t < e /\ v.bit = t /\ o = Child(nodes, n, s) /\ s \in Sides
    BY <1>1, <1>2, MemberTypes DEF Stops, Takes, Turn, Sides
  <1>4. n \in Inner(nodes, M)
    BY <1>1, <1>3 DEF Inner
  <1>5. /\ o \in M /\ On(nodes, n, o) /\ t < KeyEnd(KeyIn(nodes, o))
        /\ IsSet(KeyIn(nodes, o), t) <=> s = "right"
        /\ Reach(nodes, M, t, o)
    BY <1>2, <1>3, <1>4 DEF Links
  <1>6. s = "right" <=> right[t]
    BY DEF Turn
  <1>7. Agree(KeyIn(nodes, n), KeyIn(nodes, o), t)
    BY <1>5 DEF On
  <1> HIDE DEF n, t, s, o
  <1>8. Agree(KeyIn(nodes, o), KeyIn(nodes, c), b + 1)
    <2>1. b + 1 <= t /\ b + 1 \in Int /\ t \in Int
      BY <1>1, <1>3
    <2>2. Agree(KeyIn(nodes, n), KeyIn(nodes, o), b + 1)
      BY <1>7, <2>1, AgreeLess
    <2> QED
      BY <1>1, <2>2, AgreeBoth
  <1>9. ASSUME NEW a \in Inner(nodes, M), On(nodes, a, o), b < BitIn(nodes, a),
               BitIn(nodes, a) <= t
        PROVE  IsSet(KeyIn(nodes, o), BitIn(nodes, a)) <=> right[BitIn(nodes, a)]
    <2>0. BitIn(nodes, a) \in Nat /\ BitIn(nodes, a) \in Places
      BY <1>2, MemberTypes DEF Inner, Links
    <2>1. CASE BitIn(nodes, a) = t
      BY <1>5, <1>6, <2>1
    <2>2. CASE BitIn(nodes, a) < t
      <3>1. Agree(KeyIn(nodes, n), KeyIn(nodes, o), BitIn(nodes, a))
        BY <1>3, <1>7, <2>0, <2>2, AgreeLess
      <3>2. On(nodes, a, n)
        BY <1>9, <3>1, AgreeBoth DEF On
      <3>3. BitIn(nodes, a) <= w.bit
        <4>1. w.bit < BitIn(nodes, a) => t <= BitIn(nodes, a)
          BY <1>1, <3>2 DEF Reach, t
        <4> QED
          BY <1>1, <1>3, <2>0, <2>2, <4>1
      <3>4. IsSet(KeyIn(nodes, n), BitIn(nodes, a)) <=> right[BitIn(nodes, a)]
        BY <1>1, <1>9, <3>2, <3>3
      <3>5. IsSet(KeyIn(nodes, n), BitIn(nodes, a)) <=> IsSet(KeyIn(nodes, o), BitIn(nodes, a))
        BY <1>7, <2>0, <2>2 DEF Agree
      <3> QED
        BY <3>4, <3>5
    <2> QED
      BY <1>3, <1>9, <2>0, <2>1, <2>2
  <1>10. b <= t
    BY <1>1, <1>3
  <1> QED
    BY <1>3, <1>5, <1>8, <1>9, <1>10 DEF Walks, o

\* There are no more tests than nodes.
LEMMA InnerFinite ==
    ASSUME NEW nd \in Seq(NodeType), NEW M, Members(nd, M), NEW T, T \subseteq Inner(nd, M)
    PROVE  IsFiniteSet(T) /\ Cardinality(T) \in Nat /\ Cardinality(T) <= Len(nd)
  <1>1. Len(nd) \in Nat /\ M \subseteq 1 .. Len(nd)
    BY DEF Members
  <1>2. T \subseteq 1 .. Len(nd)
    BY <1>1 DEF Inner
  <1>3. IsFiniteSet(1 .. Len(nd)) /\ Cardinality(1 .. Len(nd)) = Len(nd)
    <2>1. 1 \in Int /\ Len(nd) \in Int
      BY <1>1
    <2>2. Cardinality(1 .. Len(nd)) = IF 1 > Len(nd) THEN 0 ELSE Len(nd) - 1 + 1
      BY <2>1, FS_Interval
    <2>3. IsFiniteSet(1 .. Len(nd))
      BY <2>1, FS_Interval
    <2> QED
      BY <1>1, <2>2, <2>3
  <1>4. IsFiniteSet(T) /\ Cardinality(T) <= Cardinality(1 .. Len(nd)) /\ Cardinality(T) \in Nat
    BY <1>2, <1>3, FS_Subset, FS_CardinalityType
  <1> QED
    BY <1>3, <1>4

\* Walks of any kind end: the tests ahead get fewer.
LEMMA WalksEnd ==
    ASSUME NEW M, Tree(nodes, pp_root, M), NEW b \in Nat, NEW c \in M, NEW right, NEW e \in Nat,
           NEW S, S \subseteq Walks(M, b, c, right, e), NEW from \in S,
           \A w \in S : \A v : ~Stops(w, e) /\ Takes(w, v, right) /\ v \in WalkType => v \in S
    PROVE  LET w == Pat!Walk(from, right, 0 .. e - 1) IN w \in S /\ Stops(w, e)
  <1> DEFINE W == 0 .. e - 1
             Ahead(w) == {a \in Inner(nodes, M) : w.bit < BitIn(nodes, a)}
             left == [w \in S |-> Cardinality(Ahead(w))]
  <1>1. nodes \in Seq(NodeType) /\ Members(nodes, M) /\ Links(nodes, M) /\ Len(nodes) \in Nat
    BY DEF Tree
  <1>2. ASSUME NEW w \in S
        PROVE  /\ w \in WalkType /\ w.node \in M /\ w.bit \in Nat /\ BitIn(nodes, w.node) \in Nat
               /\ IF Stops(w, e) THEN Pat!Step(w, right, W) = w
                  ELSE Takes(w, Pat!Step(w, right, W), right)
               /\ Pat!Step(w, right, W) \in S
               /\ IsFiniteSet(Ahead(w)) /\ left[w] \in Nat /\ left[w] <= Len(nodes)
    <2> DEFINE v == Pat!Step(w, right, W)
               n == w.node
    <2>1. w \in Walks(M, b, c, right, e)
      OBVIOUS
    <2>2. w \in WalkType /\ n \in M /\ w.bit \in Nat /\ w.at \in Nat /\ w.lastleft \in Nat
          /\ w.lastright \in Nat
      BY <2>1 DEF Walks, WalkType
    <2>3. BitIn(nodes, n) \in Nat /\ Child(nodes, n, "left") \in Nat
          /\ Child(nodes, n, "right") \in Nat
      BY <1>1, <2>2, MemberTypes
    <2>4. IF Stops(w, e) THEN v = w ELSE Takes(w, v, right)
      BY <2>3, StepIs
    <2>5. v \in WalkType
      <3>1. CASE Stops(w, e)
        BY <2>2, <2>4, <3>1
      <3>2. CASE ~Stops(w, e)
        <4>1. v = [bit |-> BitIn(nodes, n), node |-> Child(nodes, n, Turn(right, BitIn(nodes, n))),
                   at |-> Child(nodes, n, Turn(right, BitIn(nodes, n))),
                   link |-> <<w.at, Turn(right, BitIn(nodes, n))>>,
                   lastleft |-> IF Turn(right, BitIn(nodes, n)) = "right" THEN w.lastleft ELSE w.at,
                   lastright |-> IF Turn(right, BitIn(nodes, n)) = "right" THEN w.at
                                 ELSE w.lastright]
          BY <2>3, <3>2 DEF Pat!Step, Stops, Turn, Child, BitIn
        <4>2. Turn(right, BitIn(nodes, n)) \in {"left", "right"}
          BY DEF Turn
        <4>3. <<w.at, Turn(right, BitIn(nodes, n))>> \in Nat \X {"root", "left", "right"}
          BY <2>2, <4>2
        <4>4. Child(nodes, n, Turn(right, BitIn(nodes, n))) \in Nat
          BY <2>3, <4>2
        <4> QED
          BY <2>2, <2>3, <4>1, <4>3, <4>4 DEF WalkType
      <3> QED
        BY <3>1, <3>2
    <2>6. v \in S
      <3> HIDE DEF v
      <3> QED
        BY <2>4, <2>5
    <2>7. /\ IsFiniteSet(Ahead(w)) /\ Cardinality(Ahead(w)) \in Nat
          /\ Cardinality(Ahead(w)) <= Len(nodes)
      <3>1. Ahead(w) \subseteq Inner(nodes, M)
        OBVIOUS
      <3> HIDE DEF Ahead
      <3> QED
        BY <1>1, <3>1, InnerFinite
    <2> HIDE DEF Ahead, v
    <2> QED
      BY <2>2, <2>3, <2>4, <2>6, <2>7 DEF v
  <1>3. ASSUME NEW w \in S, Pat!Step(w, right, W) # w
        PROVE  left[Pat!Step(w, right, W)] < left[w]
    <2> DEFINE v == Pat!Step(w, right, W)
               n == w.node
    <2>1. ~Stops(w, e) /\ v.bit = BitIn(nodes, n) /\ v \in S
      BY <1>2, <1>3 DEF Takes
    <2>2. n \in M /\ BitIn(nodes, n) \in Nat /\ w.bit \in Nat /\ w.bit < BitIn(nodes, n)
      BY <1>2, <2>1 DEF Stops
    <2>3. n \in Inner(nodes, M)
      BY <2>2 DEF Inner
    <2>4. n \in Ahead(w) /\ n \notin Ahead(v)
      BY <2>1, <2>2, <2>3
    <2>5. Ahead(v) \subseteq Ahead(w)
      <3> SUFFICES ASSUME NEW a \in Ahead(v) PROVE a \in Ahead(w)
        OBVIOUS
      <3>1. BitIn(nodes, a) \in Nat
        BY <1>1, MemberTypes DEF Inner
      <3> QED
        BY <2>1, <2>2, <3>1
    <2>6. IsFiniteSet(Ahead(w)) /\ IsFiniteSet(Ahead(v)) /\ left[w] \in Nat /\ left[v] \in Nat
      BY <1>2, <2>1
    <2>7. left[w] = Cardinality(Ahead(w)) /\ left[v] = Cardinality(Ahead(v))
      BY <2>1
    <2> HIDE DEF Ahead, left, v
    <2>8. Cardinality(Ahead(v)) <= Cardinality(Ahead(w))
          /\ (Cardinality(Ahead(v)) = Cardinality(Ahead(w)) => Ahead(v) = Ahead(w))
      BY <2>5, <2>6, FS_Subset
    <2> QED
      BY <2>4, <2>6, <2>7, <2>8 DEF v
  <1>4. left \in [S -> Nat] /\ left[from] <= Len(nodes)
    <2>1. \A w \in S : left[w] \in Nat
      BY <1>2
    <2>2. left = [w \in S |-> left[w]]
      OBVIOUS
    <2> HIDE DEF left
    <2> QED
      BY <1>2, <2>1, <2>2
  <1> HIDE DEF left, W
  <1>5. /\ Pat!Walk(from, right, W) \in S
        /\ Pat!Step(Pat!Walk(from, right, W), right, W) = Pat!Walk(from, right, W)
    <2>1. \A w \in S : Pat!Step(w, right, W) \in S
      BY <1>2
    <2>2. \A w \in S : Pat!Step(w, right, W) # w => left[Pat!Step(w, right, W)] < left[w]
      BY <1>3
    <2> QED
      BY <1>1, <1>4, <2>1, <2>2, WalkEnds
  <1>6. ASSUME NEW w \in S, Pat!Step(w, right, W) = w PROVE Stops(w, e)
    <2> SUFFICES ASSUME ~Stops(w, e) PROVE FALSE
      OBVIOUS
    <2>1. w.bit = BitIn(nodes, w.node) /\ w.bit \in Nat
      BY <1>2, <1>6 DEF Takes
    <2> QED
      BY <2>1 DEF Stops
  <1> QED
    BY <1>5, <1>6 DEF W

\* Where a walk ends, all tests on the way to the member, before the bit at which
\* the walk is to end, were answered as asked.
Answered(M, b, right, e, w) ==
    \A a \in Inner(nodes, M) :
        On(nodes, a, w.node) /\ b < BitIn(nodes, a) /\ BitIn(nodes, a) < e =>
            /\ BitIn(nodes, a) <= w.bit
            /\ IsSet(KeyIn(nodes, w.node), BitIn(nodes, a)) <=> right[BitIn(nodes, a)]

\* Where a walk stopped, every test of a wanted bit on the way was taken as it should be.
LEMMA StoppedAnswers ==
    ASSUME NEW M, Tree(nodes, pp_root, M), NEW b \in Nat, NEW c \in M, NEW right, NEW e \in Nat,
           NEW w \in Walks(M, b, c, right, e), Stops(w, e)
    PROVE  Answered(M, b, right, e, w)
  <1>1. /\ w.node \in M /\ Reach(nodes, M, w.bit, w.node) /\ w.bit \in Nat /\ b <= w.bit
        /\ \A a \in Inner(nodes, M) :
              On(nodes, a, w.node) /\ b < BitIn(nodes, a) /\ BitIn(nodes, a) <= w.bit =>
                  (IsSet(KeyIn(nodes, w.node), BitIn(nodes, a)) <=> right[BitIn(nodes, a)])
    BY DEF Walks, WalkType
  <1>2. nodes \in Seq(NodeType) /\ Members(nodes, M)
    BY DEF Tree
  <1> SUFFICES ASSUME NEW a \in Inner(nodes, M), On(nodes, a, w.node), b < BitIn(nodes, a),
                      BitIn(nodes, a) < e
               PROVE  /\ BitIn(nodes, a) <= w.bit
                      /\ IsSet(KeyIn(nodes, w.node), BitIn(nodes, a)) <=> right[BitIn(nodes, a)]
    BY DEF Answered
  <1>3. BitIn(nodes, a) \in Nat /\ BitIn(nodes, w.node) \in Nat
    BY <1>1, <1>2, MemberTypes DEF Inner
  <1>4. BitIn(nodes, a) <= w.bit
    <2>1. w.bit < BitIn(nodes, a) => w.bit < BitIn(nodes, w.node)
                                     /\ BitIn(nodes, w.node) <= BitIn(nodes, a)
      BY <1>1 DEF Reach
    <2> QED
      BY <1>1, <1>3, <2>1 DEF Stops
  <1> QED
    BY <1>1, <1>4

\* A walk from a member ends at a member whose tests all turn as asked.
LEMMA WalkFinds ==
    ASSUME NEW M, Tree(nodes, pp_root, M), NEW c \in M, NEW right, NEW e \in Nat,
           NEW from \in WalkType, from.node = c, Reach(nodes, M, from.bit, c),
           from.bit < KeyEnd(KeyIn(nodes, c))
    PROVE  LET w == Pat!Walk(from, right, 0 .. e - 1)
           IN /\ w.node \in M /\ Agree(KeyIn(nodes, w.node), KeyIn(nodes, c), from.bit + 1)
              /\ Answered(M, from.bit, right, e, w)
  <1> DEFINE b == from.bit
             w == Pat!Walk(from, right, 0 .. e - 1)
             S == Walks(M, b, c, right, e)
  <1>1. nodes \in Seq(NodeType) /\ Members(nodes, M)
    BY DEF Tree
  <1>2. b \in Nat /\ from.bit = b
    BY DEF WalkType
  <1>3. KeyIn(nodes, c) \in Fit /\ KeyEnd(KeyIn(nodes, c)) \in Nat
    BY <1>1, MemberTypes
  <1>7. Reach(nodes, M, b, c) /\ b < KeyEnd(KeyIn(nodes, c))
    OBVIOUS
  <1> HIDE DEF b
  <1>4. from \in S
    <2>1. Agree(KeyIn(nodes, c), KeyIn(nodes, c), b + 1)
      BY <1>2, <1>3, <1>7, AgreeSame
    <2>2. \A x \in Nat : ~(b < x /\ x <= b)
      BY <1>2
    <2>3. ASSUME NEW a \in Inner(nodes, M) PROVE BitIn(nodes, a) \in Nat
      BY <1>1, MemberTypes DEF Inner
    <2> QED
      BY <1>2, <1>7, <2>1, <2>2, <2>3 DEF Walks
  <1>5. \A u \in S : \A v : ~Stops(u, e) /\ Takes(u, v, right) /\ v \in WalkType => v \in S
    BY <1>2, StepKeeps
  <1>6. w \in S /\ Stops(w, e)
    <2> HIDE DEF w
    <2>1. S \subseteq Walks(M, b, c, right, e)
      OBVIOUS
    <2> HIDE DEF S
    <2> QED
      BY <1>2, <1>4, <1>5, <2>1, WalksEnd DEF w
  <1> HIDE DEF w
  <1>8. Answered(M, b, right, e, w)
    BY <1>2, <1>6, StoppedAnswers
  <1> QED
    BY <1>6, <1>8 DEF Walks, w, b

-----------------------------------------------------------------------------
(* Walks from the root *)

LastTurn(w, s) == IF s = "right" THEN w.lastright ELSE w.lastleft

\* The last turn to a side is the one at the last bit.
Turned(M, right, w, s) ==
    LET l == LastTurn(w, s)
    IN /\ l # 0 => /\ l \in Inner(nodes, M) /\ On(nodes, l, w.node)
                   /\ BitIn(nodes, l) <= w.bit /\ Turn(right, BitIn(nodes, l)) = s
       /\ \A a \in Inner(nodes, M) :
             On(nodes, a, w.node) /\ BitIn(nodes, a) <= w.bit
                 /\ Turn(right, BitIn(nodes, a)) = s =>
                    l # 0 /\ BitIn(nodes, a) <= BitIn(nodes, l)

\* The link that led to the node.
Linked(M, w) ==
    \/ w.link = <<0, "root">> /\ w.bit = 0 /\ w.node = pp_root
    \/ \E a \in Inner(nodes, M), s \in Sides :
          w.link = <<a, s>> /\ w.bit = BitIn(nodes, a) /\ w.node = Child(nodes, a, s)

RootWalks(M, right, e) ==
    {w \in Walks(M, 0, pp_root, right, e) :
        /\ w.at = w.node
        /\ Turned(M, right, w, "left") /\ Turned(M, right, w, "right")
        /\ Linked(M, w)}

\* ... and so does a step of a walk from the root.
LEMMA RootStepKeeps ==
    ASSUME NEW M, Tree(nodes, pp_root, M), pp_root \in M, NEW right, NEW e \in Nat,
           NEW w \in RootWalks(M, right, e), NEW v, Takes(w, v, right), ~Stops(w, e),
           v \in WalkType
    PROVE  v \in RootWalks(M, right, e)
  <1> DEFINE n == w.node
             t == BitIn(nodes, n)
             d == Turn(right, t)
             o == v.node
  <1>1. /\ w \in Walks(M, 0, pp_root, right, e) /\ w.at = n
        /\ Turned(M, right, w, "left") /\ Turned(M, right, w, "right")
    BY DEF RootWalks
  <1>2. /\ n \in M /\ Reach(nodes, M, w.bit, n) /\ w.bit \in Nat
    BY <1>1 DEF Walks, WalkType
  <1>3. nodes \in Seq(NodeType) /\ Members(nodes, M) /\ Links(nodes, M)
    BY DEF Tree
  <1>4. t \in Nat /\ w.bit < t /\ t < e /\ v.bit = t /\ o = Child(nodes, n, d) /\ d \in Sides
        /\ v.at = o /\ v.link = <<n, d>>
        /\ \A s \in Sides : LastTurn(v, s) = IF s = d THEN n ELSE LastTurn(w, s)
    BY <1>1, <1>2, <1>3, MemberTypes DEF Stops, Takes, Turn, Sides, LastTurn
  <1>5. n \in Inner(nodes, M) /\ n # 0
    BY <1>2, <1>3, <1>4, MemberTypes DEF Inner
  <1>6. o \in M /\ On(nodes, n, o)
    BY <1>3, <1>4, <1>5 DEF Links
  <1>7. v \in Walks(M, 0, pp_root, right, e)
    BY <1>1, StepKeeps
  <1>8. Linked(M, v)
    BY <1>4, <1>5 DEF Linked, t
  <1>9. Agree(KeyIn(nodes, n), KeyIn(nodes, o), t)
    BY <1>6 DEF On
  <1>15. d = Turn(right, t) /\ t = BitIn(nodes, n)
    OBVIOUS
  <1> HIDE DEF n, t, d, o
  <1>10. ASSUME NEW a \in Inner(nodes, M), BitIn(nodes, a) < t
         PROVE  On(nodes, a, o) <=> On(nodes, a, n)
    <2>0. BitIn(nodes, a) \in Nat
      BY <1>3, MemberTypes DEF Inner
    <2>1. Agree(KeyIn(nodes, n), KeyIn(nodes, o), BitIn(nodes, a))
      BY <1>4, <1>9, <1>10, <2>0, AgreeLess
    <2> QED
      BY <2>1, AgreeBoth DEF On
  <1>11. ASSUME NEW a \in Inner(nodes, M), On(nodes, a, o), BitIn(nodes, a) < t
         PROVE  On(nodes, a, n) /\ BitIn(nodes, a) <= w.bit
    <2>0. BitIn(nodes, a) \in Nat
      BY <1>3, MemberTypes DEF Inner
    <2>1. On(nodes, a, n)
      BY <1>10, <1>11
    <2>2. w.bit < BitIn(nodes, a) => t <= BitIn(nodes, a)
      BY <1>2, <1>15, <2>1 DEF Reach
    <2> QED
      BY <1>2, <1>4, <1>11, <2>0, <2>1, <2>2
  <1>12. ASSUME NEW s \in Sides PROVE Turned(M, right, v, s)
    <2> DEFINE l == LastTurn(w, s)
               m == LastTurn(v, s)
    <2>1. Turned(M, right, w, s)
      BY <1>1 DEF Sides
    <2>2. /\ l # 0 => /\ l \in Inner(nodes, M) /\ On(nodes, l, n)
                      /\ BitIn(nodes, l) <= w.bit /\ Turn(right, BitIn(nodes, l)) = s
          /\ \A a \in Inner(nodes, M) :
                On(nodes, a, n) /\ BitIn(nodes, a) <= w.bit
                    /\ Turn(right, BitIn(nodes, a)) = s =>
                       l # 0 /\ BitIn(nodes, a) <= BitIn(nodes, l)
      BY <2>1 DEF Turned, n
    <2>3. m = IF s = d THEN n ELSE l
      BY <1>4
    <2> HIDE DEF l, m
    <2>4. m # 0 => /\ m \in Inner(nodes, M) /\ On(nodes, m, o)
                   /\ BitIn(nodes, m) <= t /\ Turn(right, BitIn(nodes, m)) = s
      <3>1. CASE s = d
        BY <1>4, <1>5, <1>6, <1>15, <2>3, <3>1
      <3>2. CASE s # d /\ l # 0
        <4>1. BitIn(nodes, l) \in Nat
          BY <1>3, <2>2, <3>2, MemberTypes DEF Inner
        <4>2. BitIn(nodes, l) < t
          BY <1>2, <1>4, <2>2, <3>2, <4>1
        <4>3. On(nodes, l, o)
          BY <1>10, <2>2, <3>2, <4>2
        <4> QED
          BY <1>4, <2>2, <2>3, <3>2, <4>1, <4>2, <4>3
      <3> QED
        BY <2>3, <3>1, <3>2
    <2>5. ASSUME NEW a \in Inner(nodes, M), On(nodes, a, o), BitIn(nodes, a) <= t,
                 Turn(right, BitIn(nodes, a)) = s
          PROVE  m # 0 /\ BitIn(nodes, a) <= BitIn(nodes, m)
      <3>0. BitIn(nodes, a) \in Nat
        BY <1>3, MemberTypes DEF Inner
      <3>1. CASE s = d
        BY <1>5, <1>15, <2>3, <2>5, <3>1
      <3>2. CASE s # d
        <4>1. BitIn(nodes, a) # t
          BY <1>15, <2>5, <3>2
        <4>2. BitIn(nodes, a) < t
          BY <1>4, <2>5, <3>0, <4>1
        <4>3. On(nodes, a, n) /\ BitIn(nodes, a) <= w.bit
          BY <1>11, <2>5, <4>2
        <4> QED
          BY <2>2, <2>3, <2>5, <3>2, <4>3
      <3> QED
        BY <3>1, <3>2
    <2> QED
      BY <1>4, <2>4, <2>5 DEF Turned, m, o
  <1>13. Turned(M, right, v, "left") /\ Turned(M, right, v, "right")
    BY <1>12 DEF Sides
  <1> QED
    BY <1>4, <1>7, <1>8, <1>13 DEF RootWalks, o

\* What a walk from the root to bits before one finds.
LEMMA RootWalkFinds ==
    ASSUME NEW M, Tree(nodes, pp_root, M), pp_root \in M, NEW right, NEW e \in Nat
    PROVE  LET w == Pat!Walk(Pat!Begin(pp_root), right, 0 .. e - 1)
           IN /\ w \in RootWalks(M, right, e)
              /\ Stops(w, e) /\ Answered(M, 0, right, e, w)
  <1> DEFINE w == Pat!Walk(Pat!Begin(pp_root), right, 0 .. e - 1)
             S == RootWalks(M, right, e)
             from == Pat!Begin(pp_root)
  <1>1. nodes \in Seq(NodeType) /\ Members(nodes, M) /\ Reach(nodes, M, 0, pp_root)
    BY DEF Tree, Rooted
  <1>2. KeyIn(nodes, pp_root) \in Fit /\ KeyEnd(KeyIn(nodes, pp_root)) \in Nat /\ pp_root \in Nat
    BY <1>1, MemberTypes
  <1>3. /\ from.bit = 0 /\ from.node = pp_root /\ from.at = pp_root /\ from.link = <<0, "root">>
        /\ from.lastleft = 0 /\ from.lastright = 0 /\ from \in WalkType
    <2>1. Pat!NullAtom = 0
      BY DEF Pat!NullAtom
    <2>2. <<Pat!NullAtom, "root">> \in Nat \X {"root", "left", "right"}
      BY <2>1
    <2> QED
      BY <1>2, <2>1, <2>2 DEF Pat!Begin, Pat!PA_PAT_NOBIT, WalkType
  <1> HIDE DEF from
  <1>4. ASSUME NEW a \in Inner(nodes, M) PROVE BitIn(nodes, a) \in Nat /\ ~(BitIn(nodes, a) <= 0)
    <2>1. BitIn(nodes, a) \in Nat /\ BitIn(nodes, a) # 0
      BY <1>1, MemberTypes DEF Inner
    <2> QED
      BY <2>1
  <1>5. from \in Walks(M, 0, pp_root, right, e)
    <2>1. Agree(KeyIn(nodes, pp_root), KeyIn(nodes, pp_root), 0 + 1)
      <3>1. 1 <= KeyEnd(KeyIn(nodes, pp_root))
        BY <1>2, LastValue
      <3> QED
        BY <1>2, <3>1, AgreeSame
    <2> QED
      BY <1>1, <1>3, <1>4, <2>1 DEF Walks
  <1>6. from \in S
    <2>1. Turned(M, right, from, "left") /\ Turned(M, right, from, "right")
      BY <1>3, <1>4 DEF Turned, LastTurn
    <2> QED
      BY <1>3, <1>5, <2>1 DEF RootWalks, Linked
  <1>7. \A u \in S : \A v : ~Stops(u, e) /\ Takes(u, v, right) /\ v \in WalkType => v \in S
    BY RootStepKeeps
  <1>8. w \in S /\ Stops(w, e)
    <2>1. S \subseteq Walks(M, 0, pp_root, right, e)
      BY DEF RootWalks
    <2> HIDE DEF S, w
    <2> QED
      BY <1>6, <1>7, <2>1, WalksEnd DEF w, from
  <1> HIDE DEF w
  <1>9. Answered(M, 0, right, e, w)
    BY <1>8, StoppedAnswers DEF RootWalks
  <1> QED
    BY <1>8, <1>9 DEF w

\* What is known of each test.
LEMMA MemberTests ==
    ASSUME NEW nd, NEW root, NEW M, Tree(nd, root, M), NEW a \in Inner(nd, M)
    PROVE  /\ BitIn(nd, a) \in Places /\ BitIn(nd, a) \in Pat!Bits /\ BitIn(nd, a) \in Nat
           /\ BitIn(nd, a) # 0 /\ BitIn(nd, a) < Pat!BitWrap
  <1>1. BitIn(nd, a) \in Places
    BY DEF Tree, Links
  <1> QED
    BY <1>1, PlaceTypes, BitRange

\* Two members differ at a bit that is tested on the way to both.
LEMMA BranchOf ==
    ASSUME NEW nd, NEW root, NEW M, Tree(nd, root, M), NEW x \in M, NEW y \in M, x # y
    PROVE  \E a \in Inner(nd, M) :
              /\ On(nd, a, x) /\ On(nd, a, y)
              /\ Differ(KeyIn(nd, x), KeyIn(nd, y), BitIn(nd, a))
              /\ Differ(KeyIn(nd, y), KeyIn(nd, x), BitIn(nd, a))
  <1>1. PICK a \in Inner(nd, M) :
           On(nd, a, x) /\ Differ(KeyIn(nd, x), KeyIn(nd, y), BitIn(nd, a))
    BY DEF Tree, Branches
  <1>2. On(nd, a, y)
    BY <1>1, AgreeBoth DEF On, Differ
  <1>3. Differ(KeyIn(nd, y), KeyIn(nd, x), BitIn(nd, a))
    BY <1>1, AgreeBoth DEF Differ
  <1> QED
    BY <1>1, <1>2, <1>3

\* A key's walk turns right at the bits that are set in it.
LEMMA SetBitsAre ==
    ASSUME NEW key, NEW n, NEW b \in Pat!Bits
    PROVE  /\ Pat!SetBits(key, n)[b] <=> b < n /\ IsSet(key, b)
           /\ Turn(Pat!SetBits(key, n), b) = "right" <=> b < n /\ IsSet(key, b)
           /\ Turn(Pat!SetBits(key, n), b) \in Sides
  <1>1. Pat!SetBits(key, n)[b] <=> b < n /\ IsSet(key, b)
    BY DEF Pat!SetBits, IsSet
  <1> QED
    BY <1>1 DEF Turn, Sides

\* The walk of a key ends at a member that every test on its way leads to.
LEMMA DescendFinds ==
    ASSUME NEW M, Tree(nodes, pp_root, M), pp_root \in M, NEW key, NEW n
    PROVE  LET w == Pat!Descend(key, n)
           IN /\ w \in RootWalks(M, Pat!SetBits(key, n), Pat!BitWrap) /\ w.node \in M
              /\ \A a \in Inner(nodes, M) : On(nodes, a, w.node) =>
                    /\ BitIn(nodes, a) <= w.bit
                    /\ IsSet(KeyIn(nodes, w.node), BitIn(nodes, a))
                          <=> BitIn(nodes, a) < n /\ IsSet(key, BitIn(nodes, a))
  <1> DEFINE w == Pat!Descend(key, n)
             R == Pat!SetBits(key, n)
             e == Pat!BitWrap
  <1>1. w = Pat!Walk(Pat!Begin(pp_root), R, 0 .. e - 1)
    BY DEF Pat!Descend, Pat!Bits
  <1>2. e \in Nat
    BY BitRange
  <1> HIDE DEF w, R, e
  <1>3. w \in RootWalks(M, R, e) /\ Answered(M, 0, R, e, w)
    BY <1>1, <1>2, RootWalkFinds
  <1>4. w.node \in M
    BY <1>3 DEF RootWalks, Walks
  <1>5. ASSUME NEW a \in Inner(nodes, M), On(nodes, a, w.node)
        PROVE  /\ BitIn(nodes, a) <= w.bit
               /\ IsSet(KeyIn(nodes, w.node), BitIn(nodes, a))
                     <=> BitIn(nodes, a) < n /\ IsSet(key, BitIn(nodes, a))
    <2>1. BitIn(nodes, a) \in Pat!Bits /\ 0 < BitIn(nodes, a) /\ BitIn(nodes, a) < e
      BY MemberTests DEF e
    <2>2. /\ BitIn(nodes, a) <= w.bit
          /\ IsSet(KeyIn(nodes, w.node), BitIn(nodes, a)) <=> R[BitIn(nodes, a)]
      BY <1>3, <1>5, <2>1 DEF Answered
    <2> QED
      BY <2>1, <2>2, SetBitsAre DEF R
  <1> QED
    BY <1>3, <1>4, <1>5 DEF w, R, e

\* The member found agrees with the key as far as any member does.
LEMMA BestMatch ==
    ASSUME NEW M, Tree(nodes, pp_root, M), pp_root \in M, NEW key, NEW n \in Int,
           NEW x \in M, NEW e \in Int, e <= n, Agree(KeyIn(nodes, x), key, e)
    PROVE  LET f == Pat!Descend(key, n).node
           IN /\ Agree(KeyIn(nodes, f), key, e) /\ Agree(KeyIn(nodes, f), KeyIn(nodes, x), e)
              /\ \A d : Differ(KeyIn(nodes, f), KeyIn(nodes, x), d) => d >= e
  <1> DEFINE w == Pat!Descend(key, n)
             f == w.node
  <1>1. /\ f \in M
        /\ \A a \in Inner(nodes, M) : On(nodes, a, f) =>
              (IsSet(KeyIn(nodes, f), BitIn(nodes, a))
                   <=> BitIn(nodes, a) < n /\ IsSet(key, BitIn(nodes, a)))
    BY DescendFinds
  <1> HIDE DEF w, f
  <1>2. ASSUME NEW d, Differ(KeyIn(nodes, f), KeyIn(nodes, x), d) PROVE d >= e
    <2>0. f # x /\ d \in Nat /\ d \in Places
      BY <1>2, PlaceTypes DEF Differ
    <2>1. PICK a \in Inner(nodes, M) :
             On(nodes, a, f) /\ Differ(KeyIn(nodes, f), KeyIn(nodes, x), BitIn(nodes, a))
      BY <1>1, <2>0, BranchOf
    <2>2. d = BitIn(nodes, a)
      BY <1>2, <2>1, DifferUnique
    <2>3. IsSet(KeyIn(nodes, f), d) <=> d < n /\ IsSet(key, d)
      BY <1>1, <2>1, <2>2
    <2>4. d < e => FALSE
      <3> SUFFICES ASSUME d < e PROVE FALSE
        OBVIOUS
      <3>1. d < n
        BY <2>0
      <3>2. IsSet(KeyIn(nodes, x), d) <=> IsSet(key, d)
        BY <2>0 DEF Agree
      <3> QED
        BY <1>2, <2>3, <3>1, <3>2 DEF Differ
    <2> QED
      BY <2>0, <2>4
  <1>3. Agree(KeyIn(nodes, f), KeyIn(nodes, x), e)
    <2>1. CASE f = x
      BY <2>1, AgreeBoth
    <2>2. CASE f # x
      <3>1. PICK a \in Inner(nodes, M) : Differ(KeyIn(nodes, f), KeyIn(nodes, x), BitIn(nodes, a))
        BY <1>1, <2>2, BranchOf
      <3>2. BitIn(nodes, a) >= e /\ BitIn(nodes, a) \in Nat
        BY <1>2, <3>1, MemberTests
      <3> QED
        BY <3>1, <3>2, AgreeLess DEF Differ
    <2> QED
      BY <2>1, <2>2
  <1>4. Agree(KeyIn(nodes, f), key, e)
    BY <1>3, AgreeBoth
  <1> QED
    BY <1>2, <1>3, <1>4 DEF w, f

\* The walk for a member's own key ends at the member.
LEMMA OwnLeaf ==
    ASSUME NEW M, Tree(nodes, pp_root, M), pp_root \in M, NEW m \in M
    PROVE  Pat!Descend(KeyIn(nodes, m), KeyEnd(KeyIn(nodes, m))).node = m
  <1> DEFINE k == KeyIn(nodes, m)
             f == Pat!Descend(k, KeyEnd(k)).node
  <1>1. k \in Fit /\ KeyEnd(k) \in Nat
    BY MemberTypes DEF Tree
  <1>2. Agree(k, k, KeyEnd(k))
    BY <1>1, AgreeSame
  <1>3. f \in M
    BY DescendFinds
  <1>4. \A d : Differ(KeyIn(nodes, f), k, d) => d >= KeyEnd(k)
    BY <1>1, <1>2, BestMatch
  <1> HIDE DEF f
  <1>5. ASSUME f # m PROVE FALSE
    <2>1. PICK a \in Inner(nodes, M) : Differ(KeyIn(nodes, f), k, BitIn(nodes, a))
      BY <1>3, <1>5, BranchOf
    <2>2. BitIn(nodes, a) >= KeyEnd(k) /\ BitIn(nodes, a) < KeyEnd(k) /\ BitIn(nodes, a) \in Nat
      BY <1>4, <2>1, MemberTests DEF Differ
    <2> QED
      BY <1>1, <2>2
  <1> QED
    BY <1>5 DEF f

\* pa_pat_get finds the member with the key, and nothing if there is none.
LEMMA GetAnswers ==
    ASSUME NEW M, Tree(nodes, pp_root, M), NEW key \in Fit
    PROVE  /\ \A m \in M : KeyIn(nodes, m) = key => Pat!pa_pat_get(key) = m
           /\ (\A m \in M : KeyIn(nodes, m) # key) => Pat!pa_pat_get(key) = 0
  <1>0. Pat!NullAtom = 0
    BY DEF Pat!NullAtom
  <1>1. CASE M = {}
    <2>1. pp_root = 0
      BY <1>1 DEF Tree, Rooted
    <2> QED
      BY <1>0, <1>1, <2>1 DEF Pat!pa_pat_get
  <1>2. CASE M # {}
    <2>1. pp_root \in M /\ pp_root # 0
      BY <1>2, MemberTypes DEF Tree, Rooted
    <2> DEFINE f == Pat!Descend(key, KeyEnd(key)).node
    <2>2. f \in M
      BY <2>1, DescendFinds
    <2>3. nodes[f].ppn_length = KeyEnd(KeyIn(nodes, f))
      BY <2>2, MemberTypes DEF Tree
    <2>4. Pat!pa_pat_get(key) = IF nodes[f].ppn_length = KeyEnd(key) /\ KeyIn(nodes, f) = key
                                THEN f ELSE 0
      BY <1>0, <2>1 DEF Pat!pa_pat_get, Pat!Length, Pat!Key, KeyEnd, KeyIn
    <2>5. ASSUME NEW m \in M, KeyIn(nodes, m) = key PROVE f = m
      BY <2>1, <2>5, OwnLeaf
    <2> HIDE DEF f
    <2> QED
      BY <2>2, <2>3, <2>4, <2>5
  <1> QED
    BY <1>1, <1>2

-----------------------------------------------------------------------------
(* The order of keys, forward or backward *)

Ahead(s, k, l) == IF s = "right" THEN Pat!Before(l, k) ELSE Pat!Before(k, l)
EndKey(s, keys) == IF s = "right" THEN Pat!GreatestKey(keys) ELSE Pat!LeastKey(keys)
Other(s) == IF s = "right" THEN "left" ELSE "right"

\* The key ahead is told by the first bit in which keys differ.
LEMMA AheadBit ==
    ASSUME NEW k \in Fit, NEW l \in Fit, NEW d, Differ(k, l, d), NEW s \in Sides
    PROVE  /\ Ahead(s, k, l) <=> (IsSet(k, d) <=> s = "right")
           /\ Ahead(s, l, k) <=> ~Ahead(s, k, l)
           /\ Ahead(s, k, l) <=> ~(IsSet(l, d) <=> s = "right")
  <1>1. Differ(l, k, d)
    BY AgreeBoth DEF Differ
  <1>2. Pat!Before(k, l) <=> IsSet(l, d)
    BY DifferOrders
  <1>3. Pat!Before(l, k) <=> IsSet(k, d)
    BY <1>1, DifferOrders
  <1>4. ~(IsSet(k, d) <=> IsSet(l, d))
    BY DEF Differ
  <1> QED
    BY <1>2, <1>3, <1>4 DEF Ahead, Sides

\* A key that is ahead of all others of a set is the set's end.
LEMMA EndKeyIs ==
    ASSUME NEW keys, NEW k \in keys, NEW s \in Sides, \A m \in keys \ {k} : Ahead(s, k, m),
           \A m \in keys \ {k} : ~Ahead(s, m, k)
    PROVE  EndKey(s, keys) = k
  <1>1. keys # {}
    OBVIOUS
  <1>2. CASE s = "right"
    <2>1. \A m \in keys \ {k} : Pat!Before(m, k)
      BY <1>2 DEF Ahead
    <2>2. \A o \in keys : (\A m \in keys \ {o} : Pat!Before(m, o)) => o = k
      BY <1>2 DEF Ahead
    <2>3. (CHOOSE o \in keys : \A m \in keys \ {o} : Pat!Before(m, o)) = k
      BY <2>1, <2>2
    <2> QED
      BY <1>1, <1>2, <2>3 DEF EndKey, Pat!GreatestKey
  <1>3. CASE s # "right"
    <2>1. \A m \in keys \ {k} : Pat!Before(k, m)
      BY <1>3 DEF Ahead
    <2>2. \A o \in keys : (\A m \in keys \ {o} : Pat!Before(o, m)) => o = k
      BY <1>3 DEF Ahead
    <2>3. (CHOOSE o \in keys : \A m \in keys \ {o} : Pat!Before(o, m)) = k
      BY <2>1, <2>2
    <2> QED
      BY <1>1, <1>3, <2>3 DEF EndKey, Pat!LeastKey
  <1> QED
    BY <1>2, <1>3

\* An empty set has no end.
LEMMA NoEndKey == \A s : EndKey(s, {}) = << >>
  BY DEF EndKey, Pat!LeastKey, Pat!GreatestKey

\* Members are in an order, one way round.
LEMMA MembersOrdered ==
    ASSUME NEW nd, NEW root, NEW M, Tree(nd, root, M), NEW x \in M, NEW y \in M, x # y,
           NEW s \in Sides
    PROVE  /\ KeyIn(nd, x) # KeyIn(nd, y)
           /\ Ahead(s, KeyIn(nd, x), KeyIn(nd, y)) <=> ~Ahead(s, KeyIn(nd, y), KeyIn(nd, x))
  <1>1. PICK a \in Inner(nd, M) : Differ(KeyIn(nd, x), KeyIn(nd, y), BitIn(nd, a))
    BY BranchOf
  <1>2. KeyIn(nd, x) \in Fit /\ KeyIn(nd, y) \in Fit
    BY MemberTypes DEF Tree
  <1> QED
    BY <1>1, <1>2, AheadBit, DifferOrders

\* The member at the end of left, or of right, links is the first of those below
\* the link, forward or backward.
LEMMA OutmostFinds ==
    ASSUME NEW M, Tree(nodes, pp_root, M), NEW b \in Nat, NEW c \in M, Reach(nodes, M, b, c),
           b < KeyEnd(KeyIn(nodes, c)), NEW s \in Sides
    PROVE  LET f == Pat!Outmost(b, c, s = "right")
           IN /\ f \in M /\ Agree(KeyIn(nodes, f), KeyIn(nodes, c), b + 1)
              /\ \A x \in M : x # f /\ Agree(KeyIn(nodes, x), KeyIn(nodes, c), b + 1) =>
                    Ahead(s, KeyIn(nodes, f), KeyIn(nodes, x))
  <1> DEFINE from == [Pat!Begin(c) EXCEPT !.bit = b]
             R == [t \in Pat!Bits |-> s = "right"]
             e == Pat!BitWrap
             w == Pat!Walk(from, R, 0 .. e - 1)
             f == w.node
  <1>1. Pat!Outmost(b, c, s = "right") = f
    BY DEF Pat!Outmost, Pat!Bits
  <1>2. /\ from.node = c /\ from.bit = b /\ from \in WalkType
    <2>1. c \in Nat /\ pp_root \in Nat
      <3>1. pp_root \in M
        BY DEF Tree, Rooted
      <3> QED
        BY <3>1, MemberTypes DEF Tree
    <2>2. Pat!NullAtom = 0
      BY DEF Pat!NullAtom
    <2>3. <<Pat!NullAtom, "root">> \in Nat \X {"root", "left", "right"}
      BY <2>2
    <2> QED
      BY <2>1, <2>2, <2>3 DEF Pat!Begin, WalkType
  <1>3. e \in Nat
    BY BitRange
  <1>4. \A t \in Pat!Bits : R[t] <=> s = "right"
    OBVIOUS
  <1> HIDE DEF from, R, e, w
  <1>5. /\ f \in M /\ Agree(KeyIn(nodes, f), KeyIn(nodes, c), b + 1)
        /\ Answered(M, b, R, e, w)
    BY <1>2, <1>3, WalkFinds DEF w
  <1>6. ASSUME NEW x \in M, x # f, Agree(KeyIn(nodes, x), KeyIn(nodes, c), b + 1)
        PROVE  Ahead(s, KeyIn(nodes, f), KeyIn(nodes, x))
    <2>1. PICK a \in Inner(nodes, M) :
             On(nodes, a, f) /\ Differ(KeyIn(nodes, f), KeyIn(nodes, x), BitIn(nodes, a))
      BY <1>5, <1>6, BranchOf
    <2>2. BitIn(nodes, a) \in Pat!Bits /\ BitIn(nodes, a) \in Nat /\ BitIn(nodes, a) < e
          /\ BitIn(nodes, a) \in Places
      BY MemberTests DEF e
    <2>3. Agree(KeyIn(nodes, f), KeyIn(nodes, x), b + 1)
      BY <1>5, <1>6, AgreeBoth
    <2>4. b < BitIn(nodes, a)
      <3>1. ~(BitIn(nodes, a) < b + 1)
        BY <2>1, <2>2, <2>3 DEF Agree, Differ
      <3> QED
        BY <2>2, <3>1
    <2>5. IsSet(KeyIn(nodes, f), BitIn(nodes, a)) <=> s = "right"
      BY <1>4, <1>5, <2>1, <2>2, <2>4 DEF Answered
    <2>6. KeyIn(nodes, f) \in Fit /\ KeyIn(nodes, x) \in Fit
      BY <1>5, MemberTypes DEF Tree
    <2> QED
      BY <2>1, <2>5, <2>6, AheadBit
  <1> QED
    BY <1>1, <1>5, <1>6

\* From where the walk to a member turned last, the other way.
Beyond(s, w) ==
    LET l == LastTurn(w, s)
    IN IF l = 0 THEN 0
       ELSE Pat!Outmost(BitIn(nodes, l), Child(nodes, l, Other(s)), s = "right")

\* Beyond the last turn away from a side are the keys ahead, the nearest of them first.
LEMMA BeyondFinds ==
    ASSUME NEW M, Tree(nodes, pp_root, M), pp_root \in M, NEW m \in M, NEW s \in Sides
    PROVE  LET w == Pat!Descend(KeyIn(nodes, m), KeyEnd(KeyIn(nodes, m)))
               l == LastTurn(w, s)
               f == Beyond(s, w)
               k == KeyIn(nodes, m)
           IN /\ \A x \in M \ {m} : \A d :
                  Differ(k, KeyIn(nodes, x), d) /\ Ahead(s, k, KeyIn(nodes, x)) =>
                    l # 0 /\ d <= BitIn(nodes, l)
              /\ IF l = 0 THEN f = 0
                 ELSE /\ l \in Inner(nodes, M)
                      /\ f \in M /\ f # m /\ Differ(k, KeyIn(nodes, f), BitIn(nodes, l))
                      /\ Ahead(s, k, KeyIn(nodes, f))
                      /\ \A x \in M \ {m, f} : Ahead(s, k, KeyIn(nodes, x)) =>
                            Ahead(s, KeyIn(nodes, f), KeyIn(nodes, x))
  <1> DEFINE k == KeyIn(nodes, m)
             R == Pat!SetBits(k, KeyEnd(k))
             e == Pat!BitWrap
             w == Pat!Descend(k, KeyEnd(k))
             l == LastTurn(w, s)
             f == Beyond(s, w)
  <1>1. nodes \in Seq(NodeType) /\ Members(nodes, M) /\ Links(nodes, M)
    BY DEF Tree
  <1>2. k \in Fit /\ KeyEnd(k) \in Nat
    BY <1>1, MemberTypes
  <1>3. /\ w \in RootWalks(M, R, e) /\ w.node = m
        /\ \A a \in Inner(nodes, M) : On(nodes, a, m) => BitIn(nodes, a) <= w.bit
    BY DescendFinds, OwnLeaf
  <1>4. Turned(M, R, w, s)
    BY <1>3 DEF RootWalks, Sides
  <1>5. \A b \in Pat!Bits : /\ Turn(R, b) = "right" <=> b < KeyEnd(k) /\ IsSet(k, b)
                            /\ Turn(R, b) \in Sides
    BY SetBitsAre
  <1> HIDE DEF R, e, w, k, l, f
  <1>6. /\ l # 0 => /\ l \in Inner(nodes, M) /\ On(nodes, l, m)
                    /\ Turn(R, BitIn(nodes, l)) = s
        /\ \A a \in Inner(nodes, M) :
              On(nodes, a, m) /\ Turn(R, BitIn(nodes, a)) = s =>
                    l # 0 /\ BitIn(nodes, a) <= BitIn(nodes, l)
    BY <1>3, <1>4 DEF Turned, l
  <1>7. ASSUME NEW x \in M \ {m}
        PROVE  \E a \in Inner(nodes, M) :
                  /\ On(nodes, a, m) /\ Differ(k, KeyIn(nodes, x), BitIn(nodes, a))
                  /\ Ahead(s, k, KeyIn(nodes, x)) => l # 0 /\ BitIn(nodes, a) <= BitIn(nodes, l)
    <2>1. PICK a \in Inner(nodes, M) :
             On(nodes, a, m) /\ Differ(k, KeyIn(nodes, x), BitIn(nodes, a))
      BY BranchOf DEF k
    <2>2. ASSUME Ahead(s, k, KeyIn(nodes, x)) PROVE l # 0 /\ BitIn(nodes, a) <= BitIn(nodes, l)
      <3>1. KeyIn(nodes, x) \in Fit
        BY <1>1, MemberTypes
      <3>2. IsSet(k, BitIn(nodes, a)) <=> s = "right"
        BY <1>2, <2>1, <2>2, <3>1, AheadBit
      <3>3. BitIn(nodes, a) < KeyEnd(k) /\ BitIn(nodes, a) \in Pat!Bits
        BY <2>1, MemberTests DEF Differ
      <3>4. Turn(R, BitIn(nodes, a)) = s
        BY <1>5, <3>2, <3>3 DEF Sides
      <3> QED
        BY <1>6, <2>1, <3>4
    <2> QED
      BY <2>1, <2>2
  <1>8. \A x \in M \ {m} : \A d :
                  Differ(k, KeyIn(nodes, x), d) /\ Ahead(s, k, KeyIn(nodes, x)) =>
                    l # 0 /\ d <= BitIn(nodes, l)
    BY <1>7, DifferUnique
  <1>9. CASE l = 0
    <2>1. f = 0
      BY <1>9 DEF f, Beyond, l
    <2> QED
      BY <1>8, <1>9, <2>1 DEF f, l, w, k
  <1>10. CASE l # 0
    <2> DEFINE b == BitIn(nodes, l)
               c == Child(nodes, l, Other(s))
    <2>1. l \in Inner(nodes, M) /\ On(nodes, l, m) /\ Turn(R, b) = s
      BY <1>6, <1>10
    <2>2. Other(s) \in Sides /\ (Other(s) = "right" <=> ~(s = "right"))
      BY DEF Other, Sides
    <2>3. /\ b \in Places /\ b \in Nat /\ b \in Pat!Bits /\ b < KeyEnd(KeyIn(nodes, l))
          /\ c \in M /\ On(nodes, l, c) /\ b < KeyEnd(KeyIn(nodes, c))
          /\ IsSet(KeyIn(nodes, c), b) <=> Other(s) = "right"
          /\ Reach(nodes, M, b, c)
      BY <1>1, <2>1, <2>2, MemberTests DEF Links
    <2>4. f = Pat!Outmost(b, c, s = "right")
      BY <1>10 DEF f, Beyond, l
    <2>5. Agree(KeyIn(nodes, l), k, b) /\ Agree(KeyIn(nodes, l), KeyIn(nodes, c), b)
      BY <2>1, <2>3 DEF On, k
    <2> HIDE DEF b, c
    <2>6. /\ f \in M /\ Agree(KeyIn(nodes, f), KeyIn(nodes, c), b + 1)
          /\ \A x \in M : x # f /\ Agree(KeyIn(nodes, x), KeyIn(nodes, c), b + 1) =>
                Ahead(s, KeyIn(nodes, f), KeyIn(nodes, x))
      BY <2>3, <2>4, OutmostFinds
    <2>7. b < KeyEnd(k) /\ (IsSet(k, b) <=> s = "right")
      <3>1. b < KeyEnd(k)
        <4>1. CASE l = m
          BY <2>3, <4>1 DEF k
        <4>2. CASE l # m
          <5>1. l \in M
            BY <2>1 DEF Inner
          <5>2. PICK a \in Inner(nodes, M) : Differ(k, KeyIn(nodes, l), BitIn(nodes, a))
            BY <4>2, <5>1, BranchOf DEF k
          <5>3. BitIn(nodes, a) < KeyEnd(k) /\ BitIn(nodes, a) \in Nat /\ BitIn(nodes, a) \in Places
            BY <5>2, MemberTests DEF Differ
          <5>4. ~(BitIn(nodes, a) < b)
            BY <2>5, <5>2, <5>3 DEF Agree, Differ
          <5> QED
            BY <1>2, <2>3, <5>3, <5>4
        <4> QED
          BY <4>1, <4>2
      <3> QED
        BY <1>5, <2>1, <2>3, <3>1 DEF b, Sides
    <2>8. Agree(KeyIn(nodes, f), KeyIn(nodes, c), b) /\ b < KeyEnd(KeyIn(nodes, f))
          /\ (IsSet(KeyIn(nodes, f), b) <=> IsSet(KeyIn(nodes, c), b))
      <3>1. b < b + 1 /\ b <= b + 1 /\ b + 1 \in Int
        BY <2>3
      <3> QED
        BY <2>3, <2>6, <3>1, AgreeLess DEF Agree
    <2>9. Differ(k, KeyIn(nodes, f), b)
      <3>1. Agree(k, KeyIn(nodes, f), b)
        BY <2>5, <2>8, AgreeBoth
      <3> QED
        BY <2>2, <2>3, <2>7, <2>8, <3>1 DEF Differ
    <2>10. f # m /\ KeyIn(nodes, f) \in Fit
      BY <1>1, <2>6, <2>9, MemberTypes DEF Differ, k
    <2>11. Ahead(s, k, KeyIn(nodes, f))
      BY <1>2, <2>7, <2>9, <2>10, AheadBit
    <2>12. ASSUME NEW x \in M \ {m, f}, Ahead(s, k, KeyIn(nodes, x))
           PROVE  Ahead(s, KeyIn(nodes, f), KeyIn(nodes, x))
      <3>1. PICK a \in Inner(nodes, M) :
               /\ Differ(k, KeyIn(nodes, x), BitIn(nodes, a))
               /\ BitIn(nodes, a) <= b
        BY <1>7, <2>12 DEF b
      <3> DEFINE d == BitIn(nodes, a)
      <3>2. d \in Nat /\ d \in Places
        BY MemberTests
      <3>3. KeyIn(nodes, x) \in Fit
        BY <1>1, MemberTypes
      <3>4. /\ ~(IsSet(KeyIn(nodes, x), d) <=> s = "right") /\ Differ(k, KeyIn(nodes, x), d)
            /\ d <= b
        BY <1>2, <2>12, <3>1, <3>3, AheadBit
      <3> HIDE DEF d
      <3>5. CASE d = b
        <4>1. Agree(KeyIn(nodes, x), KeyIn(nodes, c), b)
          BY <2>5, <3>4, <3>5, AgreeBoth DEF Differ
        <4>2. /\ b < KeyEnd(KeyIn(nodes, x))
              /\ IsSet(KeyIn(nodes, x), b) <=> IsSet(KeyIn(nodes, c), b)
          BY <2>2, <2>3, <3>4, <3>5 DEF Differ
        <4>3. \A t \in Places : t < b + 1 => t < b \/ t = b
          BY <2>3, PlaceTypes
        <4>4. Agree(KeyIn(nodes, x), KeyIn(nodes, c), b + 1)
          BY <2>3, <4>1, <4>2, <4>3 DEF Agree
        <4> QED
          BY <2>6, <2>12, <4>4
      <3>6. CASE d < b
        <4>1. Differ(KeyIn(nodes, f), KeyIn(nodes, x), d)
          <5>1. Agree(k, KeyIn(nodes, f), d)
            BY <2>3, <2>9, <3>2, <3>6, AgreeLess DEF Differ
          <5>2. Agree(KeyIn(nodes, f), KeyIn(nodes, x), d)
            BY <3>4, <5>1, AgreeBoth DEF Differ
          <5>3. d < KeyEnd(KeyIn(nodes, f)) /\ (IsSet(KeyIn(nodes, f), d) <=> IsSet(k, d))
            BY <2>9, <3>2, <3>6 DEF Differ, Agree
          <5> QED
            BY <3>4, <5>2, <5>3 DEF Differ
        <4> QED
          BY <2>10, <3>3, <3>4, <4>1, AheadBit
      <3> QED
        BY <2>3, <3>2, <3>4, <3>5, <3>6
    <2> QED
      BY <1>8, <1>10, <2>1, <2>6, <2>9, <2>10, <2>11, <2>12 DEF f, l, w, k, b
  <1> QED
    BY <1>9, <1>10

KeysOf(nd, M) == {KeyIn(nd, m) : m \in M}

\* The key and the length a member holds.
LEMMA KeyOfMember ==
    ASSUME NEW M, Tree(nodes, pp_root, M), NEW m \in M
    PROVE  /\ Pat!KeyOf(m) = KeyIn(nodes, m) /\ Pat!Key(m) = KeyIn(nodes, m)
           /\ Pat!Length(m) = KeyEnd(KeyIn(nodes, m)) /\ KeyIn(nodes, m) \in Fit
           /\ m # 0 /\ KeyEnd(KeyIn(nodes, m)) \in Nat
  <1>1. m # 0 /\ nodes[m].ppn_length = KeyEnd(KeyIn(nodes, m)) /\ KeyIn(nodes, m) \in Fit
        /\ KeyEnd(KeyIn(nodes, m)) \in Nat
    BY MemberTypes DEF Tree
  <1> QED
    BY <1>1 DEF Pat!KeyOf, Pat!NullAtom, Pat!Key, Pat!Length, KeyIn

LEMMA KeyOfNone == Pat!KeyOf(0) = << >>
  BY DEF Pat!KeyOf, Pat!NullAtom

\* A member is the first of a set of members' keys if it is ahead of the others.
LEMMA FirstMember ==
    ASSUME NEW M, Tree(nodes, pp_root, M), NEW s \in Sides, NEW keys,
           keys \subseteq KeysOf(nodes, M), NEW f \in M, KeyIn(nodes, f) \in keys,
           \A x \in M : x # f /\ KeyIn(nodes, x) \in keys =>
               Ahead(s, KeyIn(nodes, f), KeyIn(nodes, x))
    PROVE  EndKey(s, keys) = Pat!KeyOf(f)
  <1> DEFINE k == KeyIn(nodes, f)
  <1>1. ASSUME NEW m \in keys \ {k} PROVE Ahead(s, k, m) /\ ~Ahead(s, m, k)
    <2>1. PICK x \in M : m = KeyIn(nodes, x)
      BY DEF KeysOf
    <2>2. x # f
      BY <2>1
    <2>3. Ahead(s, k, m)
      BY <2>1, <2>2
    <2>4. ~Ahead(s, m, k)
      BY <2>1, <2>2, <2>3, MembersOrdered
    <2> QED
      BY <2>3, <2>4
  <1>2. Pat!KeyOf(f) = k
    BY KeyOfMember
  <1> HIDE DEF k
  <1>3. k \in keys
    BY DEF k
  <1> QED
    BY <1>1, <1>2, <1>3, EndKeyIs

\* The neighbour of a member, forward or backward, among keys that the member's
\* neighbour is one of if there is one.
LEMMA NeighbourKey ==
    ASSUME NEW M, Tree(nodes, pp_root, M), pp_root \in M, NEW m \in M, NEW s \in Sides
    PROVE  LET k == KeyIn(nodes, m)
           IN Pat!KeyOf(Beyond(s, Pat!Descend(k, KeyEnd(k))))
                 = EndKey(s, {x \in KeysOf(nodes, M) : Ahead(s, k, x)})
  <1> DEFINE k == KeyIn(nodes, m)
             w == Pat!Descend(k, KeyEnd(k))
             l == LastTurn(w, s)
             f == Beyond(s, w)
             keys == {x \in KeysOf(nodes, M) : Ahead(s, k, x)}
  <1>1. /\ \A x \in M \ {m} : \A d :
                  Differ(k, KeyIn(nodes, x), d) /\ Ahead(s, k, KeyIn(nodes, x)) =>
                    l # 0 /\ d <= BitIn(nodes, l)
        /\ IF l = 0 THEN f = 0
           ELSE /\ f \in M /\ f # m /\ Ahead(s, k, KeyIn(nodes, f))
                /\ \A x \in M \ {m, f} : Ahead(s, k, KeyIn(nodes, x)) =>
                      Ahead(s, KeyIn(nodes, f), KeyIn(nodes, x))
    BY BeyondFinds
  <1>2. ~Ahead(s, k, k)
    <2>1. k \in Fit
      BY KeyOfMember
    <2>2. ~Pat!Before(k, k)
      <3> SUFFICES ASSUME Pat!Before(k, k) PROVE FALSE
        OBVIOUS
      <3>1. PICK i \in 1 .. Len(k) : k[i] < k[i]
        BY DEF Pat!Before
      <3>2. k[i] \in 0 .. 255
        BY <2>1, ByteOf
      <3> QED
        BY <3>1, <3>2, Smaller
    <2> QED
      BY <2>2 DEF Ahead
  <1> HIDE DEF w, f, l
  <1>3. CASE l = 0
    <2>1. ASSUME NEW x \in M PROVE ~Ahead(s, k, KeyIn(nodes, x))
      <3>1. CASE x = m
        BY <1>2, <3>1
      <3>2. CASE x # m
        <4>1. PICK a \in Inner(nodes, M) : Differ(k, KeyIn(nodes, x), BitIn(nodes, a))
          BY <3>2, BranchOf
        <4> QED
          BY <1>1, <1>3, <3>2, <4>1
      <3> QED
        BY <3>1, <3>2
    <2>2. keys = {}
      BY <2>1 DEF KeysOf
    <2>3. Pat!KeyOf(f) = << >>
      BY <1>1, <1>3, KeyOfNone
    <2> QED
      BY <2>2, <2>3, NoEndKey DEF f, w
  <1>4. CASE l # 0
    <2>1. f \in M /\ KeyIn(nodes, f) \in keys
      BY <1>1, <1>4 DEF KeysOf
    <2>2. keys \subseteq KeysOf(nodes, M)
      OBVIOUS
    <2>3. \A x \in M : x # f /\ KeyIn(nodes, x) \in keys =>
               Ahead(s, KeyIn(nodes, f), KeyIn(nodes, x))
      BY <1>1, <1>2, <1>4
    <2> HIDE DEF keys, k
    <2>4. EndKey(s, keys) = Pat!KeyOf(f)
      BY <2>1, <2>2, <2>3, FirstMember
    <2> QED
      BY <2>4 DEF f, w, keys, k
  <1> QED
    BY <1>3, <1>4

\* The sides, told apart.
LEMMA SidesAre == ("left" = "right") = FALSE /\ ("right" = "right") = TRUE
                  /\ "left" \in Sides /\ "right" \in Sides
  BY DEF Sides

\* pa_pat_find_leftmost and pa_pat_find_rightmost, by side.
LEMMA OutmostIs ==
    ASSUME NEW b, NEW c
    PROVE  /\ Pat!pa_pat_find_leftmost(b, c) = Pat!Outmost(b, c, "left" = "right")
           /\ Pat!pa_pat_find_rightmost(b, c) = Pat!Outmost(b, c, "right" = "right")
  BY SidesAre DEF Pat!pa_pat_find_leftmost, Pat!pa_pat_find_rightmost

\* The neighbours on either side, by side.
LEMMA BeyondIs ==
    ASSUME NEW w
    PROVE  /\ Pat!RightOf(w.lastleft) = Beyond("left", w)
           /\ Pat!LeftOf(w.lastright) = Beyond("right", w)
  <1>1. Pat!NullAtom = 0
    BY DEF Pat!NullAtom
  <1>2. Pat!RightOf(w.lastleft) = Beyond("left", w)
    <2>1. LastTurn(w, "left") = w.lastleft /\ Other("left") = "right"
      BY DEF LastTurn, Other
    <2>2. \A l : /\ Child(nodes, l, "right") = nodes[l].ppn_right
                 /\ BitIn(nodes, l) = nodes[l].ppn_bit
      BY DEF Child, BitIn
    <2> QED
      BY <1>1, <2>1, <2>2, OutmostIs DEF Pat!RightOf, Beyond
  <1>3. Pat!LeftOf(w.lastright) = Beyond("right", w)
    <2>1. LastTurn(w, "right") = w.lastright /\ Other("right") = "left"
      BY DEF LastTurn, Other
    <2>2. \A l : /\ Child(nodes, l, "left") = nodes[l].ppn_left
                 /\ BitIn(nodes, l) = nodes[l].ppn_bit
      BY DEF Child, BitIn
    <2> QED
      BY <1>1, <2>1, <2>2, OutmostIs DEF Pat!LeftOf, Beyond
  <1> QED
    BY <1>2, <1>3

\* The outermost members have the least and the greatest key.
LEMMA OutermostKeys ==
    ASSUME NEW M, Tree(nodes, pp_root, M), pp_root \in M, NEW s \in Sides
    PROVE  Pat!KeyOf(Pat!Outmost(0, pp_root, s = "right")) = EndKey(s, KeysOf(nodes, M))
  <1> DEFINE f == Pat!Outmost(0, pp_root, s = "right")
  <1>1. Reach(nodes, M, 0, pp_root)
    BY DEF Tree, Rooted
  <1>2. 0 < KeyEnd(KeyIn(nodes, pp_root)) /\ 0 \in Nat
    BY KeyOfMember, LastValue
  <1>3. /\ f \in M
        /\ \A x \in M : x # f /\ Agree(KeyIn(nodes, x), KeyIn(nodes, pp_root), 0 + 1) =>
                Ahead(s, KeyIn(nodes, f), KeyIn(nodes, x))
    BY <1>1, <1>2, OutmostFinds
  <1>4. \A x : Agree(x, KeyIn(nodes, pp_root), 0 + 1)
    BY PlaceTypes DEF Agree
  <1> HIDE DEF f
  <1>5. KeyIn(nodes, f) \in KeysOf(nodes, M)
    BY <1>3 DEF KeysOf
  <1>6. EndKey(s, KeysOf(nodes, M)) = Pat!KeyOf(f)
    BY <1>3, <1>4, <1>5, FirstMember
  <1> QED
    BY <1>6 DEF f

\* pa_pat_compare_nodes tells the order of keys.
LEMMA ComparesKeys ==
    ASSUME NEW M, Tree(nodes, pp_root, M), NEW x \in M, NEW y \in M, x # y
    PROVE  Pat!pa_pat_compare_nodes(x, y)
              = IF Pat!Before(KeyIn(nodes, x), KeyIn(nodes, y)) THEN -1 ELSE 1
  <1> DEFINE k == KeyIn(nodes, x)
             l == KeyIn(nodes, y)
             bit == IF KeyEnd(k) < KeyEnd(l) THEN KeyEnd(k) ELSE KeyEnd(l)
             q == Pat!pa_pat_mismatch(k, l, bit)
  <1>1. k \in Fit /\ l \in Fit /\ KeyEnd(k) \in Nat /\ KeyEnd(l) \in Nat
        /\ Pat!Key(x) = k /\ Pat!Key(y) = l
        /\ Pat!Length(x) = KeyEnd(k) /\ Pat!Length(y) = KeyEnd(l)
    BY KeyOfMember
  <1>2. PICK a \in Inner(nodes, M) : Differ(k, l, BitIn(nodes, a))
    BY BranchOf
  <1>3. bit \in Nat /\ bit <= KeyEnd(k) /\ bit <= KeyEnd(l) /\ BitIn(nodes, a) < bit
        /\ BitIn(nodes, a) \in Places
    BY <1>1, <1>2 DEF Differ
  <1>4. Pat!pa_pat_compare_nodes(x, y) = IF q >= bit THEN 0 ELSE IF IsSet(k, q) THEN 1 ELSE -1
    BY <1>1 DEF Pat!pa_pat_compare_nodes, IsSet
  <1> HIDE DEF k, l, bit
  <1>5. ~Agree(k, l, bit)
    BY <1>2, <1>3 DEF Differ, Agree
  <1>6. ~(q >= bit) /\ Differ(k, l, q)
    <2>1. q \in Nat /\ (q >= bit <=> Agree(k, l, bit)) /\ (q < bit => Differ(k, l, q))
      BY <1>1, <1>3, MismatchTells
    <2> HIDE DEF q
    <2> QED
      BY <1>3, <1>5, <2>1
  <1> HIDE DEF q
  <1>7. Pat!Before(k, l) <=> ~IsSet(k, q)
    BY <1>1, <1>6, DifferOrders DEF Differ
  <1>8. Pat!pa_pat_compare_nodes(x, y) = IF Pat!Before(k, l) THEN -1 ELSE 1
    BY <1>4, <1>6, <1>7
  <1> QED
    BY <1>8 DEF k, l

\* Forward and backward, by side.
LEMMA DirectionsAre ==
    /\ \A k, l : /\ Ahead("left", k, l) <=> Pat!Before(k, l)
                 /\ Ahead("right", k, l) <=> Pat!Before(l, k)
    /\ \A keys : /\ EndKey("left", keys) = Pat!LeastKey(keys)
                 /\ EndKey("right", keys) = Pat!GreatestKey(keys)
    /\ "left" \in Sides /\ "right" \in Sides
  BY DEF Ahead, EndKey, Sides

\* KeysFound holds of the tree of the keys that were added.
LEMMA KeysAreFound ==
    ASSUME NEW M, Tree(nodes, pp_root, M), added = KeysOf(nodes, M), Keys \subseteq Fit
    PROVE  Pat!KeysFound
  <1> SUFFICES ASSUME NEW key \in Keys
               PROVE  IF key \in added THEN Pat!KeyOf(Pat!pa_pat_get(key)) = key
                      ELSE Pat!pa_pat_get(key) = Pat!NullAtom
    BY DEF Pat!KeysFound
  <1>1. CASE key \in added
    <2>1. PICK m \in M : key = KeyIn(nodes, m)
      BY <1>1 DEF KeysOf
    <2>2. Pat!pa_pat_get(key) = m
      BY <2>1, GetAnswers
    <2> QED
      BY <1>1, <2>1, <2>2, KeyOfMember
  <1>2. CASE key \notin added
    <2>1. \A m \in M : KeyIn(nodes, m) # key
      BY <1>2 DEF KeysOf
    <2>2. Pat!pa_pat_get(key) = 0
      BY <2>1, GetAnswers
    <2> QED
      BY <1>2, <2>2 DEF Pat!NullAtom
  <1> QED
    BY <1>1, <1>2

\* The leaf that a member's key finds, and what its walk is.
LEMMA AddedIs ==
    ASSUME NEW M, Tree(nodes, pp_root, M), added = KeysOf(nodes, M), NEW k \in added
    PROVE  /\ Pat!pa_pat_get(k) \in M /\ KeyIn(nodes, Pat!pa_pat_get(k)) = k
           /\ k \in Fit /\ pp_root \in M /\ pp_root # 0
           /\ Pat!Key(Pat!pa_pat_get(k)) = k /\ Pat!Length(Pat!pa_pat_get(k)) = KeyEnd(k)
           /\ Pat!pa_pat_get(k) # 0
  <1>1. PICK m \in M : k = KeyIn(nodes, m)
    BY DEF KeysOf
  <1>2. k \in Fit
    BY <1>1, KeyOfMember
  <1>3. Pat!pa_pat_get(k) = m
    BY <1>1, <1>2, GetAnswers
  <1>4. pp_root \in M
    BY <1>1 DEF Tree, Rooted
  <1> QED
    BY <1>1, <1>2, <1>3, <1>4, KeyOfMember

\* WalksInOrder does.
LEMMA WalksAreInOrder ==
    ASSUME NEW M, Tree(nodes, pp_root, M), added = KeysOf(nodes, M)
    PROVE  Pat!WalksInOrder
  <1>0. Pat!NullAtom = 0 /\ Pat!PA_PAT_NOBIT = 0
    BY DEF Pat!NullAtom, Pat!PA_PAT_NOBIT
  <1>1. /\ Pat!KeyOf(Pat!pa_pat_find_next(0)) = Pat!LeastKey(added)
        /\ Pat!KeyOf(Pat!pa_pat_find_prev(0)) = Pat!GreatestKey(added)
    <2>1. CASE M = {}
      <3>1. pp_root = 0 /\ added = {}
        BY <2>1 DEF Tree, Rooted, KeysOf
      <3>2. Pat!pa_pat_find_next(0) = 0 /\ Pat!pa_pat_find_prev(0) = 0
        BY <1>0, <3>1 DEF Pat!pa_pat_find_next, Pat!pa_pat_find_prev
      <3> QED
        BY <3>1, <3>2, KeyOfNone, NoEndKey, DirectionsAre
    <2>2. CASE M # {}
      <3>1. pp_root \in M /\ pp_root # 0
        BY <2>2, KeyOfMember DEF Tree, Rooted
      <3>2. /\ Pat!pa_pat_find_next(0) = Pat!Outmost(0, pp_root, "left" = "right")
            /\ Pat!pa_pat_find_prev(0) = Pat!Outmost(0, pp_root, "right" = "right")
        BY <1>0, <3>1, OutmostIs DEF Pat!pa_pat_find_next, Pat!pa_pat_find_prev
      <3>3. \A s \in Sides :
               Pat!KeyOf(Pat!Outmost(0, pp_root, s = "right")) = EndKey(s, KeysOf(nodes, M))
        BY <3>1, OutermostKeys
      <3> QED
        BY <3>2, <3>3, DirectionsAre
    <2> QED
      BY <2>1, <2>2
  <1>2. ASSUME NEW k \in added
        PROVE  /\ Pat!KeyOf(Pat!pa_pat_find_next(Pat!pa_pat_get(k)))
                     = Pat!LeastKey({m \in added : Pat!Before(k, m)})
               /\ Pat!KeyOf(Pat!pa_pat_find_prev(Pat!pa_pat_get(k)))
                     = Pat!GreatestKey({m \in added : Pat!Before(m, k)})
    <2> DEFINE m == Pat!pa_pat_get(k)
               w == Pat!Descend(k, KeyEnd(k))
    <2>1. /\ m \in M /\ KeyIn(nodes, m) = k /\ pp_root \in M /\ pp_root # 0
          /\ Pat!Key(m) = k /\ Pat!Length(m) = KeyEnd(k) /\ m # 0
      BY AddedIs
    <2>2. /\ Pat!pa_pat_find_next(m) = Pat!RightOf(w.lastleft)
          /\ Pat!pa_pat_find_prev(m) = Pat!LeftOf(w.lastright)
      BY <1>0, <2>1 DEF Pat!pa_pat_find_next, Pat!pa_pat_find_prev
    <2> HIDE DEF m
    <2>3. \A s \in Sides :
             Pat!KeyOf(Beyond(s, w)) = EndKey(s, {x \in added : Ahead(s, k, x)})
      BY <2>1, NeighbourKey
    <2> HIDE DEF w
    <2>4. /\ Pat!KeyOf(Beyond("left", w)) = EndKey("left", {x \in added : Ahead("left", k, x)})
          /\ Pat!KeyOf(Beyond("right", w)) = EndKey("right", {x \in added : Ahead("right", k, x)})
      BY <2>3, DirectionsAre
    <2>5. /\ {x \in added : Ahead("left", k, x)} = {x \in added : Pat!Before(k, x)}
          /\ {x \in added : Ahead("right", k, x)} = {x \in added : Pat!Before(x, k)}
      BY DirectionsAre
    <2>6. /\ Pat!KeyOf(Beyond("left", w)) = Pat!LeastKey({x \in added : Pat!Before(k, x)})
          /\ Pat!KeyOf(Beyond("right", w)) = Pat!GreatestKey({x \in added : Pat!Before(x, k)})
      BY <2>4, <2>5, DirectionsAre
    <2> QED
      BY <2>2, <2>6, BeyondIs DEF m
  <1>3. ASSUME NEW k \in added, NEW l \in added \ {k}
        PROVE  Pat!pa_pat_compare_nodes(Pat!pa_pat_get(k), Pat!pa_pat_get(l))
                  = (IF Pat!Before(k, l) THEN -1 ELSE 1)
    <2> DEFINE x == Pat!pa_pat_get(k)
               y == Pat!pa_pat_get(l)
    <2>1. x \in M /\ KeyIn(nodes, x) = k /\ y \in M /\ KeyIn(nodes, y) = l /\ x # y
      BY AddedIs
    <2> HIDE DEF x, y
    <2>2. Pat!pa_pat_compare_nodes(x, y) = IF Pat!Before(k, l) THEN -1 ELSE 1
      BY <2>1, ComparesKeys
    <2> QED
      BY <2>2 DEF x, y
  <1> QED
    BY <1>0, <1>1, <1>2, <1>3 DEF Pat!WalksInOrder

\* A key that has a prefix reaches the first bit past it.
LEMMA PrefixReaches ==
    ASSUME NEW k \in Fit, NEW p, p.bytes \in Fit, p.plen \in 1 .. 8 * Len(p.bytes)
    PROVE  LET P == Pat!pa_pat_plen_to_bit(p.plen)
           IN /\ P \in Nat /\ P # 0 /\ P <= KeyEnd(p.bytes)
              /\ Pat!HasPrefix(k, p) => P <= KeyEnd(k)
  <1> DEFINE n == p.plen
             P == Pat!pa_pat_plen_to_bit(n)
             l == p.bytes
  <1>1. Len(l) \in Index /\ Len(k) \in Index /\ Len(l) \in Nat /\ Len(k) \in Nat /\ Len(l) <= 256
        /\ KeyEnd(k) = 256 * Len(k) - 1 /\ KeyEnd(l) = 256 * Len(l) - 1
    BY LastValue DEF Index
  <1>2. n \in Nat /\ n # 0 /\ n <= 2048 /\ n <= 8 * Len(l)
    BY <1>1
  <1>3. Pat!HasPrefix(k, p) => Len(k) * 8 >= n
    BY DEF Pat!HasPrefix
  <1>4. P \in Nat /\ P # 0 /\ \A j \in Index : n <= 8 * j <=> P <= 256 * j - 1
    <2> HIDE DEF n
    <2> QED
      BY <1>2, PrefixEnd
  <1> HIDE DEF n, P, l
  <1>5. P <= 256 * Len(l) - 1
    BY <1>1, <1>2, <1>4
  <1>6. n <= 8 * Len(k) <=> P <= 256 * Len(k) - 1
    BY <1>1, <1>4
  <1>7. Pat!HasPrefix(k, p) => P <= 256 * Len(k) - 1
    BY <1>1, <1>2, <1>3, <1>6
  <1> QED
    BY <1>1, <1>4, <1>5, <1>7 DEF P, n, l

\* SubtreeIsPrefix does.
LEMMA SubtreesArePrefixes ==
    ASSUME NEW M, Tree(nodes, pp_root, M), added = KeysOf(nodes, M),
           \A p \in Heads : p.bytes \in Fit /\ p.plen \in 1 .. 8 * Len(p.bytes)
    PROVE  Pat!SubtreeIsPrefix
  <1> SUFFICES ASSUME NEW p \in Heads
               PROVE  LET in == {k \in added : Pat!HasPrefix(k, p)}
                      IN /\ Pat!KeyOf(Pat!pa_pat_subtree_match(p.plen, p.bytes)) = Pat!LeastKey(in)
                         /\ \A k \in in :
                               Pat!KeyOf(Pat!pa_pat_subtree_next(Pat!pa_pat_get(k), p.plen))
                                   = Pat!LeastKey({m \in in : Pat!Before(k, m)})
    BY DEF Pat!SubtreeIsPrefix
  <1> DEFINE in == {k \in added : Pat!HasPrefix(k, p)}
             P == Pat!pa_pat_plen_to_bit(p.plen)
             l == p.bytes
  <1>0. Pat!NullAtom = 0
    BY DEF Pat!NullAtom
  <1>1. /\ l \in Fit /\ P \in Nat /\ P # 0 /\ P <= KeyEnd(l) /\ KeyEnd(l) \in Nat
        /\ \A k \in Fit : /\ Pat!HasPrefix(k, p) <=> Agree(k, l, P)
                          /\ Pat!HasPrefix(k, p) => P <= KeyEnd(k)
    <2>1. l \in Fit /\ p.plen \in 1 .. 8 * Len(l)
      OBVIOUS
    <2>2. \A k \in Fit : /\ Pat!HasPrefix(k, p) <=> Agree(k, l, P)
                         /\ Pat!HasPrefix(k, p) => P <= KeyEnd(k)
      BY <2>1, HasPrefixAgrees, PrefixReaches
    <2>3. P \in Nat /\ P # 0 /\ P <= KeyEnd(l) /\ KeyEnd(l) \in Nat
      BY <2>1, PrefixReaches, LastValue
    <2> QED
      BY <2>1, <2>2, <2>3
  <1>2. \A m \in M : KeyIn(nodes, m) \in in <=> Agree(KeyIn(nodes, m), l, P)
    BY <1>1, KeyOfMember DEF KeysOf
  <1>3. in \subseteq KeysOf(nodes, M)
    OBVIOUS
  <1>4. Pat!KeyOf(Pat!pa_pat_subtree_match(p.plen, l)) = Pat!LeastKey(in)
    <2>1. CASE M = {}
      <3>1. pp_root = 0 /\ in = {}
        BY <2>1 DEF Tree, Rooted, KeysOf
      <3>2. Pat!pa_pat_subtree_match(p.plen, l) = 0
        BY <1>0, <3>1 DEF Pat!pa_pat_subtree_match
      <3> QED
        BY <3>1, <3>2, KeyOfNone, NoEndKey, DirectionsAre
    <2>2. CASE M # {}
      <3>1. pp_root \in M /\ pp_root # 0
        BY <2>2, KeyOfMember DEF Tree, Rooted
      <3> DEFINE w == Pat!Descend(l, P)
                 f == w.node
      <3>2. /\ f \in M
            /\ \A a \in Inner(nodes, M) : On(nodes, a, f) =>
                  (IsSet(KeyIn(nodes, f), BitIn(nodes, a))
                       <=> BitIn(nodes, a) < P /\ IsSet(l, BitIn(nodes, a)))
        BY <3>1, DescendFinds
      <3>3. \A x \in M : KeyIn(nodes, x) \in in =>
               /\ KeyIn(nodes, f) \in in
               /\ \A d : Differ(KeyIn(nodes, f), KeyIn(nodes, x), d) => d >= P
        <4>1. \A x \in M : Agree(KeyIn(nodes, x), l, P) =>
                 /\ Agree(KeyIn(nodes, f), l, P)
                 /\ \A d : Differ(KeyIn(nodes, f), KeyIn(nodes, x), d) => d >= P
          BY <1>1, <3>1, BestMatch
        <4> HIDE DEF in, l, P, w
        <4> QED
          BY <1>2, <3>2, <4>1
      <3>4. Pat!pa_pat_subtree_match(p.plen, l)
               = IF P <= KeyEnd(KeyIn(nodes, f)) /\ Pat!pa_pat_mismatch(l, KeyIn(nodes, f), P) >= P
                 THEN f ELSE 0
        <4>1. Pat!Key(f) = KeyIn(nodes, f) /\ Pat!Length(f) = KeyEnd(KeyIn(nodes, f))
          BY <3>2, KeyOfMember
        <4>2. Pat!pa_pat_search(P, l) = f
          BY DEF Pat!pa_pat_search
        <4> HIDE DEF w
        <4> QED
          BY <1>0, <3>1, <4>1, <4>2 DEF Pat!pa_pat_subtree_match
      <3> HIDE DEF w, in, P, l
      <3>5. Pat!pa_pat_subtree_match(p.plen, p.bytes) = IF KeyIn(nodes, f) \in in THEN f ELSE 0
        <4>1. KeyIn(nodes, f) \in Fit
          BY <3>2, KeyOfMember
        <4>2. KeyIn(nodes, f) \in in => P <= KeyEnd(KeyIn(nodes, f))
          BY <1>1, <4>1 DEF in
        <4>3. P <= KeyEnd(KeyIn(nodes, f)) =>
                 (Pat!pa_pat_mismatch(l, KeyIn(nodes, f), P) >= P <=> Agree(l, KeyIn(nodes, f), P))
          BY <1>1, <4>1, MismatchTells
        <4>4. Agree(l, KeyIn(nodes, f), P) <=> KeyIn(nodes, f) \in in
          BY <1>2, <3>2, AgreeBoth
        <4> QED
          BY <3>4, <4>2, <4>3, <4>4 DEF l
      <3>6. CASE KeyIn(nodes, f) \notin in
        <4>1. in = {}
          <5>1. \A x \in M : KeyIn(nodes, x) \notin in
            BY <3>3, <3>6
          <5> QED
            BY <1>3, <5>1 DEF KeysOf
        <4> QED
          BY <3>5, <3>6, <4>1, KeyOfNone, NoEndKey, DirectionsAre DEF l
      <3>7. CASE KeyIn(nodes, f) \in in
        <4>1. ASSUME NEW x \in M, x # f, KeyIn(nodes, x) \in in
              PROVE  Ahead("left", KeyIn(nodes, f), KeyIn(nodes, x))
          <5>1. PICK a \in Inner(nodes, M) :
                   On(nodes, a, f) /\ Differ(KeyIn(nodes, f), KeyIn(nodes, x), BitIn(nodes, a))
            BY <3>2, <4>1, BranchOf
          <5>2. BitIn(nodes, a) >= P /\ BitIn(nodes, a) \in Nat
            BY <3>3, <4>1, <5>1, MemberTests
          <5>3. ~IsSet(KeyIn(nodes, f), BitIn(nodes, a))
            BY <1>1, <3>2, <5>1, <5>2
          <5>4. KeyIn(nodes, f) \in Fit /\ KeyIn(nodes, x) \in Fit
            BY <3>2, KeyOfMember
          <5>5. ~(IsSet(KeyIn(nodes, x), BitIn(nodes, a)) <=> "left" = "right")
            BY <5>1, <5>3 DEF Differ
          <5> QED
            BY <5>1, <5>4, <5>5, AheadBit, DirectionsAre
        <4>2. EndKey("left", in) = Pat!KeyOf(f)
          BY <1>3, <3>2, <3>7, <4>1, FirstMember, DirectionsAre
        <4> QED
          BY <3>5, <3>7, <4>2, DirectionsAre DEF l
      <3> QED
        BY <3>6, <3>7
    <2> QED
      BY <2>1, <2>2
  <1>5. ASSUME NEW k \in in
        PROVE  Pat!KeyOf(Pat!pa_pat_subtree_next(Pat!pa_pat_get(k), p.plen))
                  = Pat!LeastKey({m \in in : Pat!Before(k, m)})
    <2> DEFINE m == Pat!pa_pat_get(k)
               w == Pat!Descend(k, KeyEnd(k))
               t == LastTurn(w, "left")
               f == Beyond("left", w)
               keys == {x \in in : Pat!Before(k, x)}
    <2>1. k \in added /\ Agree(k, l, P)
      <3>1. k \in added /\ Pat!HasPrefix(k, p)
        OBVIOUS
      <3>2. k \in Fit
        BY <3>1, AddedIs
      <3> HIDE DEF l, P
      <3> QED
        BY <1>1, <3>1, <3>2
    <2>2. /\ m \in M /\ KeyIn(nodes, m) = k /\ pp_root \in M /\ pp_root # 0
          /\ Pat!Key(m) = k /\ Pat!Length(m) = KeyEnd(k) /\ m # 0 /\ k \in Fit
      BY <2>1, AddedIs
    <2> HIDE DEF in
    <2>3. Pat!pa_pat_subtree_next(m, p.plen) = IF t = 0 \/ BitIn(nodes, t) < P THEN 0 ELSE f
      <3> DEFINE u == w.lastleft
      <3>1. t = u
        BY DEF LastTurn
      <3>2. Pat!pa_pat_subtree_next(m, p.plen)
               = IF u = 0 \/ BitIn(nodes, u) < P THEN 0 ELSE Pat!RightOf(u)
        <4> HIDE DEF m
        <4> QED
          BY <1>0, <2>2 DEF Pat!pa_pat_subtree_next, BitIn
      <3>3. Pat!RightOf(u) = f
        BY BeyondIs
      <3> HIDE DEF w, f, t, u, P
      <3> QED
        BY <3>1, <3>2, <3>3
    <2> HIDE DEF m, P, l
    <2>4. /\ \A x \in M \ {m} : \A d :
                  Differ(k, KeyIn(nodes, x), d) /\ Ahead("left", k, KeyIn(nodes, x)) =>
                    t # 0 /\ d <= BitIn(nodes, t)
          /\ IF t = 0 THEN f = 0
             ELSE /\ t \in Inner(nodes, M)
                  /\ f \in M /\ f # m /\ Differ(k, KeyIn(nodes, f), BitIn(nodes, t))
                  /\ Ahead("left", k, KeyIn(nodes, f))
                  /\ \A x \in M \ {m, f} : Ahead("left", k, KeyIn(nodes, x)) =>
                        Ahead("left", KeyIn(nodes, f), KeyIn(nodes, x))
      BY <2>2, BeyondFinds, DirectionsAre
    <2>5. \A x \in M : Ahead("left", k, KeyIn(nodes, x)) <=> Pat!Before(k, KeyIn(nodes, x))
      BY DirectionsAre
    <2> HIDE DEF w, t, f
    <2>6. ~Pat!Before(k, k)
      <3> SUFFICES ASSUME Pat!Before(k, k) PROVE FALSE
        OBVIOUS
      <3>1. PICK i \in 1 .. Len(k) : k[i] < k[i]
        BY DEF Pat!Before
      <3>2. k[i] \in 0 .. 255
        BY <2>2, ByteOf
      <3> QED
        BY <3>1, <3>2, Smaller
    <2>7. CASE t = 0 \/ BitIn(nodes, t) < P
      <3>1. ASSUME NEW x \in M, KeyIn(nodes, x) \in in, Pat!Before(k, KeyIn(nodes, x)) PROVE FALSE
        <4>1. x # m
          BY <2>2, <2>6, <3>1
        <4>2. PICK a \in Inner(nodes, M) : Differ(k, KeyIn(nodes, x), BitIn(nodes, a))
          BY <2>2, <4>1, BranchOf
        <4>3. t # 0 /\ BitIn(nodes, a) <= BitIn(nodes, t)
          BY <2>4, <2>5, <3>1, <4>1, <4>2
        <4>4. Agree(k, KeyIn(nodes, x), P)
          BY <1>2, <2>1, <3>1, AgreeBoth
        <4>5. BitIn(nodes, a) \in Nat /\ BitIn(nodes, a) \in Places
          BY MemberTests
        <4>6. ~(BitIn(nodes, a) < P)
          BY <4>2, <4>4, <4>5 DEF Agree, Differ
        <4>7. BitIn(nodes, t) \in Nat
          BY <2>4, <4>3, MemberTests
        <4> QED
          BY <1>1, <2>7, <4>3, <4>5, <4>6, <4>7
      <3>2. keys = {}
        BY <1>3, <3>1 DEF KeysOf
      <3>3. Pat!pa_pat_subtree_next(m, p.plen) = 0
        BY <2>3, <2>7
      <3> QED
        BY <3>2, <3>3, KeyOfNone, NoEndKey, DirectionsAre DEF m
    <2>8. CASE ~(t = 0 \/ BitIn(nodes, t) < P)
      <3>1. f \in M /\ Differ(k, KeyIn(nodes, f), BitIn(nodes, t)) /\ BitIn(nodes, t) \in Nat
            /\ P <= BitIn(nodes, t) /\ Ahead("left", k, KeyIn(nodes, f))
            /\ \A x \in M \ {m, f} : Ahead("left", k, KeyIn(nodes, x)) =>
                        Ahead("left", KeyIn(nodes, f), KeyIn(nodes, x))
        BY <1>1, <2>4, <2>8, MemberTests
      <3>2. Agree(KeyIn(nodes, f), l, P)
        <4>1. Agree(k, KeyIn(nodes, f), P)
          BY <1>1, <3>1, AgreeLess DEF Differ
        <4> QED
          BY <2>1, <4>1, AgreeBoth
      <3>3. KeyIn(nodes, f) \in keys
        BY <1>2, <2>5, <3>1, <3>2
      <3>4. keys \subseteq KeysOf(nodes, M)
        BY <1>3
      <3>5. \A x \in M : x # f /\ KeyIn(nodes, x) \in keys =>
               Ahead("left", KeyIn(nodes, f), KeyIn(nodes, x))
        BY <2>2, <2>5, <2>6, <3>1
      <3> HIDE DEF keys
      <3>6. EndKey("left", keys) = Pat!KeyOf(f)
        BY <3>1, <3>3, <3>4, <3>5, FirstMember, DirectionsAre
      <3> QED
        BY <2>3, <2>8, <3>6, DirectionsAre DEF m, keys
    <2> QED
      BY <2>7, <2>8
  <1> QED
    BY <1>4, <1>5

-----------------------------------------------------------------------------
(* Adding keys *)

\* A key that leaves its best match at a bit leaves every member there or before.
LEMMA PartsFromAll ==
    ASSUME NEW M, Tree(nodes, pp_root, M), pp_root \in M, NEW key \in Fit, NEW d,
           Differ(key, KeyIn(nodes, Pat!Descend(key, KeyEnd(key)).node), d), NEW x \in M
    PROVE  \E e \in Places : e <= d /\ Differ(key, KeyIn(nodes, x), e)
  <1> DEFINE f == Pat!Descend(key, KeyEnd(key)).node
             l == KeyIn(nodes, x)
  <1>1. f \in M
    BY DescendFinds
  <1>2. KeyEnd(key) \in Nat /\ l \in Fit /\ KeyEnd(l) \in Nat /\ KeyIn(nodes, f) \in Fit
    BY <1>1, LastValue, KeyOfMember
  <1>3. \A e \in Int : e <= KeyEnd(key) /\ Agree(l, key, e) =>
           /\ Agree(KeyIn(nodes, f), key, e)
           /\ \A o : Differ(KeyIn(nodes, f), l, o) => o >= e
    BY <1>2, BestMatch
  <1>4. d \in Places /\ d \in Nat /\ d < KeyEnd(key) /\ Differ(key, KeyIn(nodes, f), d)
    BY PlaceTypes DEF Differ
  <1> HIDE DEF f, l
  <1>5. ASSUME NEW e \in Int, e > d, e <= KeyEnd(key), Agree(l, key, e) PROVE FALSE
    <2>1. Agree(KeyIn(nodes, f), key, e)
      BY <1>3, <1>5
    <2> QED
      BY <1>4, <1>5, <2>1 DEF Differ, Agree
  <1>6. ~Pat!Overlap(key, l)
    <2> SUFFICES ASSUME Pat!Overlap(key, l) PROVE FALSE
      OBVIOUS
    <2>1. CASE KeyEnd(key) <= KeyEnd(l)
      <3>1. Agree(key, l, KeyEnd(key))
        BY <1>2, <2>1, AgreeOverlaps
      <3>2. Agree(l, key, KeyEnd(key))
        BY <3>1, AgreeBoth
      <3> QED
        BY <1>2, <1>4, <1>5, <3>2
    <2>2. CASE KeyEnd(l) <= KeyEnd(key)
      <3>1. Pat!Overlap(l, key)
        BY DEF Pat!Overlap
      <3>2. Agree(l, key, KeyEnd(l))
        BY <1>2, <2>2, <3>1, AgreeOverlaps
      <3>3. \A o : Differ(KeyIn(nodes, f), l, o) => o >= KeyEnd(l)
        BY <1>2, <1>3, <2>2, <3>2
      <3>4. f # x
        BY <1>2, <1>4, DifferOrders DEF l
      <3>5. PICK a \in Inner(nodes, M) : Differ(KeyIn(nodes, f), l, BitIn(nodes, a))
        BY <1>1, <3>4, BranchOf DEF l
      <3>6. BitIn(nodes, a) >= KeyEnd(l) /\ BitIn(nodes, a) < KeyEnd(l) /\ BitIn(nodes, a) \in Nat
        BY <3>3, <3>5, MemberTests DEF Differ
      <3> QED
        BY <1>2, <3>6
    <2> QED
      BY <1>2, <2>1, <2>2
  <1>7. PICK e \in Places : Differ(key, l, e)
    BY <1>2, <1>6, KeysPart
  <1>8. e <= d
    <2>1. e \in Nat /\ e < KeyEnd(key)
      BY <1>7, PlaceTypes DEF Differ
    <2>2. Agree(l, key, e)
      BY <1>7, AgreeBoth DEF Differ
    <2> QED
      BY <1>2, <1>4, <1>5, <2>1, <2>2
  <1> QED
    BY <1>7, <1>8 DEF l

\* Nodes that are not members do not matter.
LEMMA TreeFrame ==
    ASSUME NEW nd, NEW md \in Seq(NodeType), NEW root, NEW M, Tree(nd, root, M),
           M \subseteq 1 .. Len(md), \A a \in M : md[a] = nd[a]
    PROVE  Tree(md, root, M) /\ KeysOf(md, M) = KeysOf(nd, M)
  <1>1. \A a \in M : /\ KeyIn(md, a) = KeyIn(nd, a) /\ BitIn(md, a) = BitIn(nd, a)
                     /\ \A s : Child(md, a, s) = Child(nd, a, s)
    BY DEF KeyIn, BitIn, Child
  <1>2. Inner(md, M) = Inner(nd, M) /\ Inner(nd, M) \subseteq M
    BY <1>1 DEF Inner
  <1>3. \A a, c \in M : On(md, a, c) <=> On(nd, a, c)
    BY <1>1 DEF On
  <1>4. \A b, c : c \in M => (Reach(md, M, b, c) <=> Reach(nd, M, b, c))
    BY <1>1, <1>2, <1>3 DEF Reach
  <1>5. Members(nd, M) /\ Branches(nd, M) /\ Links(nd, M) /\ Distinct(nd, M) /\ Rooted(nd, root, M)
    BY DEF Tree
  <1>6. Members(md, M)
    BY <1>1, <1>5 DEF Members
  <1>7. Branches(md, M)
    BY <1>1, <1>2, <1>3, <1>5 DEF Branches
  <1>8. Links(md, M)
    <2> SUFFICES ASSUME NEW a \in Inner(md, M)
                 PROVE  /\ BitIn(md, a) \in Places /\ BitIn(md, a) < KeyEnd(KeyIn(md, a))
                        /\ \A s \in Sides :
                              /\ Child(md, a, s) \in M
                              /\ On(md, a, Child(md, a, s))
                              /\ BitIn(md, a) < KeyEnd(KeyIn(md, Child(md, a, s)))
                              /\ IsSet(KeyIn(md, Child(md, a, s)), BitIn(md, a)) <=> s = "right"
                              /\ Reach(md, M, BitIn(md, a), Child(md, a, s))
      BY DEF Links
    <2>1. a \in Inner(nd, M) /\ a \in M
      BY <1>2
    <2>2. BitIn(md, a) \in Places /\ BitIn(md, a) < KeyEnd(KeyIn(md, a))
      BY <1>1, <1>5, <2>1 DEF Links
    <2>3. ASSUME NEW s \in Sides
          PROVE  /\ Child(md, a, s) \in M
                 /\ On(md, a, Child(md, a, s))
                 /\ BitIn(md, a) < KeyEnd(KeyIn(md, Child(md, a, s)))
                 /\ IsSet(KeyIn(md, Child(md, a, s)), BitIn(md, a)) <=> s = "right"
                 /\ Reach(md, M, BitIn(md, a), Child(md, a, s))
      <3> DEFINE c == Child(nd, a, s)
      <3>1. /\ c \in M /\ On(nd, a, c) /\ BitIn(nd, a) < KeyEnd(KeyIn(nd, c))
            /\ IsSet(KeyIn(nd, c), BitIn(nd, a)) <=> s = "right"
            /\ Reach(nd, M, BitIn(nd, a), c)
        BY <1>5, <2>1 DEF Links
      <3>2. Child(md, a, s) = c
        BY <1>1, <2>1
      <3> HIDE DEF c
      <3> QED
        BY <1>1, <1>3, <1>4, <2>1, <3>1, <3>2
    <2> QED
      BY <2>2, <2>3
  <1>9. Distinct(md, M)
    BY <1>1, <1>2, <1>3, <1>5 DEF Distinct
  <1>10. Rooted(md, root, M)
    BY <1>4, <1>5 DEF Rooted
  <1>11. KeysOf(md, M) = KeysOf(nd, M)
    BY <1>1 DEF KeysOf
  <1> QED
    BY <1>6, <1>7, <1>8, <1>9, <1>10, <1>11 DEF Tree

\* The first node.
LEMMA FirstTree ==
    ASSUME NEW md \in Seq(NodeType), NEW n \in 1 .. Len(md), KeyIn(md, n) \in Fit,
           md[n].ppn_length = KeyEnd(KeyIn(md, n)), BitIn(md, n) = 0
    PROVE  Tree(md, n, {n}) /\ KeysOf(md, {n}) = {KeyIn(md, n)}
  <1>1. Inner(md, {n}) = {}
    BY DEF Inner
  <1>2. Members(md, {n}) /\ Branches(md, {n}) /\ Links(md, {n}) /\ Distinct(md, {n})
        /\ Rooted(md, n, {n})
    BY <1>1 DEF Members, Branches, Links, Distinct, Rooted, Reach
  <1> QED
    BY <1>2 DEF Tree, KeysOf

\* A key leaves every member at a bit or before.
PartsBy(M, key, d) ==
    \A x \in M : \E e \in Places : e <= d /\ Differ(key, KeyIn(nodes, x), e)

\* A node is put into a link of the tree: what is below the link parts from its key
\* at the bit it tests.
Puts(M, md, root, n, key, d, w) ==
    /\ md \in Seq(NodeType) /\ M \cup {n} \subseteq 1 .. Len(md) /\ n \notin M
    /\ KeyIn(md, n) = key /\ md[n].ppn_length = KeyEnd(key) /\ BitIn(md, n) = d
    /\ \A a \in M : /\ KeyIn(md, a) = KeyIn(nodes, a) /\ BitIn(md, a) = BitIn(nodes, a)
                    /\ md[a].ppn_length = nodes[a].ppn_length
    /\ \A s \in Sides : Child(md, n, s) = IF (s = "right" <=> IsSet(key, d)) THEN n ELSE w.node
    /\ \A a \in M, s \in Sides :
          Child(md, a, s) = IF w.link = <<a, s>> THEN n ELSE Child(nodes, a, s)
    /\ root = IF w.link = <<0, "root">> THEN n ELSE pp_root

\* Where a key is to be put: past the bit at which it parts from its best match.
Placed(M, key, f, d, w) ==
    /\ Tree(nodes, pp_root, M) /\ pp_root \in M /\ key \in Fit /\ f \in M
    /\ Differ(key, KeyIn(nodes, f), d) /\ PartsBy(M, key, d)
    /\ w \in RootWalks(M, Pat!SetBits(key, d), d) /\ Stops(w, d)
    /\ Answered(M, 0, Pat!SetBits(key, d), d, w)

\* A node put where its key parts from the others leaves a tree.
LEMMA PutKeepsTree ==
    ASSUME NEW M, NEW key, NEW f, NEW d, NEW w, Placed(M, key, f, d, w),
           NEW md, NEW root, NEW n, Puts(M, md, root, n, key, d, w)
    PROVE  Tree(md, root, M \cup {n})
  <1> SUFFICES ASSUME Tree(nodes, pp_root, M), pp_root \in M, key \in Fit, f \in M,
                      Differ(key, KeyIn(nodes, f), d), PartsBy(M, key, d),
                      w \in RootWalks(M, Pat!SetBits(key, d), d), Stops(w, d),
                      Answered(M, 0, Pat!SetBits(key, d), d, w)
               PROVE  Tree(md, root, M \cup {n})
    BY DEF Placed
  <1> DEFINE p == w.node
             r == IsSet(key, d)
             N == M \cup {n}
             K(a) == KeyIn(nodes, a)
             B(a) == BitIn(nodes, a)
             I == Inner(nodes, M)
             R == Pat!SetBits(key, d)
  <1>1. /\ nodes \in Seq(NodeType) /\ Members(nodes, M) /\ Branches(nodes, M) /\ Links(nodes, M)
        /\ Distinct(nodes, M) /\ Reach(nodes, M, 0, pp_root)
    BY DEF Tree, Rooted
  <1>2. /\ p \in M /\ Reach(nodes, M, w.bit, p) /\ w.bit \in Nat /\ Linked(M, w)
        /\ (w.bit = 0 \/ w.bit < d)
    BY DEF RootWalks, Walks, WalkType
  <1>3. /\ d \in Nat /\ d \in Places /\ d \in Pat!Bits /\ d # 0 /\ d < KeyEnd(key)
        /\ KeyEnd(key) \in Nat
        /\ \A e \in Places : e \in Nat /\ e \in Pat!Bits /\ e # 0
    BY PlaceTypes, LastValue DEF Differ
  <1>4. \A a \in I : B(a) \in Places /\ B(a) \in Nat /\ B(a) # 0 /\ a \in M /\ B(a) \in Pat!Bits
    BY MemberTests DEF Inner
  <1>5. \A x \in M : K(x) \in Fit /\ KeyEnd(K(x)) \in Nat /\ B(x) \in Nat
    BY <1>1, MemberTypes
  <1>6. w.bit < d
    BY <1>2, <1>3
  <1>7. \A a \in I : On(nodes, a, p) /\ B(a) < d =>
           B(a) <= w.bit /\ (IsSet(K(p), B(a)) <=> IsSet(key, B(a)))
    <2> SUFFICES ASSUME NEW a \in I, On(nodes, a, p), B(a) < d
                 PROVE  B(a) <= w.bit /\ (IsSet(K(p), B(a)) <=> IsSet(key, B(a)))
      OBVIOUS
    <2>1. 0 < B(a)
      BY <1>4
    <2>2. B(a) <= w.bit /\ (IsSet(K(p), B(a)) <=> R[B(a)])
      BY <2>1 DEF Answered
    <2>3. R[B(a)] <=> B(a) < d /\ IsSet(key, B(a))
      BY <1>4, SetBitsAre
    <2> QED
      BY <2>2, <2>3
  <1>8. /\ md \in Seq(NodeType) /\ N \subseteq 1 .. Len(md) /\ n \notin M
        /\ KeyIn(md, n) = key /\ md[n].ppn_length = KeyEnd(key) /\ BitIn(md, n) = d
        /\ \A a \in M : /\ KeyIn(md, a) = K(a) /\ BitIn(md, a) = B(a)
                        /\ md[a].ppn_length = nodes[a].ppn_length
        /\ \A s \in Sides : Child(md, n, s) = IF (s = "right" <=> r) THEN n ELSE p
        /\ \A a \in M, s \in Sides :
              Child(md, a, s) = IF w.link = <<a, s>> THEN n ELSE Child(nodes, a, s)
        /\ root = IF w.link = <<0, "root">> THEN n ELSE pp_root
    BY DEF Puts
  <1> HIDE DEF p, r, N, R
  <1>9. Inner(md, N) = I \cup {n}
    BY <1>3, <1>8 DEF Inner, N
  <1>10. /\ \A a \in I, c \in M : On(md, a, c) <=> On(nodes, a, c)
         /\ \A c \in M : On(md, n, c) <=> Agree(key, K(c), d)
         /\ On(md, n, n) <=> Agree(key, key, d)
         /\ \A a \in I : On(md, a, n) <=> Agree(K(a), key, B(a))
    BY <1>4, <1>8 DEF On
  <1>11. Agree(key, key, d)
    BY <1>3, AgreeSame
  \* Members that agree with the key below the bit differ from it there.
  <1>12. \A x \in M : Agree(key, K(x), d) => Differ(key, K(x), d)
    <2> SUFFICES ASSUME NEW x \in M, Agree(key, K(x), d) PROVE Differ(key, K(x), d)
      OBVIOUS
    <2>1. PICK e \in Places : e <= d /\ Differ(key, K(x), e)
      BY DEF PartsBy
    <2>2. ~(e < d)
      BY <2>1 DEF Agree, Differ
    <2>3. e = d
      BY <1>3, <2>1, <2>2
    <2> QED
      BY <2>1, <2>3
  \* No test past the bit is on the key's way, nor one of the bit.
  <1>13. \A a \in I : Agree(K(a), key, B(a)) => B(a) < d
    <2> SUFFICES ASSUME NEW a \in I, Agree(K(a), key, B(a)), ~(B(a) < d) PROVE FALSE
      OBVIOUS
    <2>1. Agree(key, K(a), B(a)) /\ d <= B(a) /\ a \in M
      BY <1>3, <1>4, AgreeBoth
    <2>2. Agree(key, K(a), d)
      BY <1>3, <1>4, <2>1, AgreeLess
    <2>3. Differ(key, K(a), d)
      BY <1>12, <2>1, <2>2
    <2>4. B(a) = d
      <3>1. ~(d < B(a))
        BY <1>3, <2>1, <2>3 DEF Agree, Differ
      <3> QED
        BY <1>3, <1>4, <2>1, <3>1
    <2> DEFINE s == IF r THEN "right" ELSE "left"
               c == Child(nodes, a, s)
    <2>5. s \in Sides /\ (s = "right" <=> r)
      BY DEF Sides
    <2>6. c \in M /\ On(nodes, a, c) /\ (IsSet(K(c), B(a)) <=> s = "right")
      BY <1>1, <2>5 DEF Links
    <2> HIDE DEF s, c
    <2>7. Agree(key, K(c), d)
      BY <2>2, <2>4, <2>6, AgreeBoth DEF On
    <2>8. Differ(key, K(c), d)
      BY <1>12, <2>6, <2>7
    <2> QED
      BY <2>4, <2>5, <2>6, <2>8 DEF Differ, r
  <1>14. Agree(key, K(p), d) /\ Differ(key, K(p), d)
    <2>1. Agree(key, K(p), d)
      <3>1. CASE p = f
        BY <3>1 DEF Differ
      <3>2. CASE p # f
        <4>1. PICK a \in I : On(nodes, a, p) /\ Differ(K(p), K(f), B(a))
          BY <1>2, <3>2, BranchOf
        <4>2. ~(B(a) < d)
          <5> SUFFICES ASSUME B(a) < d PROVE FALSE
            OBVIOUS
          <5>1. IsSet(K(p), B(a)) <=> IsSet(key, B(a))
            BY <1>7, <4>1
          <5>2. IsSet(key, B(a)) <=> IsSet(K(f), B(a))
            BY <1>4 DEF Differ, Agree
          <5> QED
            BY <4>1, <5>1, <5>2 DEF Differ
        <4>3. Agree(K(p), K(f), d)
          BY <1>3, <1>4, <4>1, <4>2, AgreeLess DEF Differ
        <4> QED
          BY <4>3, AgreeBoth DEF Differ
      <3> QED
        BY <3>1, <3>2
    <2> QED
      BY <1>2, <1>12, <2>1
  \* What is tested before the bit is on the key's way and on that of members that
  \* agree with it alike.
  <1>15. ASSUME NEW c \in M, Agree(key, K(c), d), NEW a \in I, B(a) <= d
         PROVE  (On(nodes, a, c) <=> Agree(K(a), key, B(a)))
    <2>1. Agree(key, K(c), B(a))
      BY <1>3, <1>4, <1>15, AgreeLess
    <2> QED
      BY <2>1, AgreeBoth DEF On
  <1>16. \A a \in I : Agree(K(a), key, B(a)) => B(a) <= w.bit
    <2> SUFFICES ASSUME NEW a \in I, Agree(K(a), key, B(a)) PROVE B(a) <= w.bit
      OBVIOUS
    <2>1. B(a) < d
      BY <1>13
    <2>2. On(nodes, a, p)
      BY <1>2, <1>3, <1>4, <1>14, <1>15, <2>1
    <2> QED
      BY <1>7, <2>1, <2>2
  <1>17. Members(md, N)
    BY <1>1, <1>8 DEF Members, N
  <1>18. Branches(md, N)
    <2>1. ASSUME NEW y \in M
          PROVE  \E a \in Inner(md, N) : /\ On(md, a, n) /\ On(md, a, y)
                                         /\ Differ(key, K(y), BitIn(md, a))
                                         /\ Differ(K(y), key, BitIn(md, a))
      <3>1. PICK e \in Places : e <= d /\ Differ(key, K(y), e)
        BY DEF PartsBy
      <3>2. Differ(K(y), key, e)
        BY <3>1, AgreeBoth DEF Differ
      <3>3. CASE e = d
        <4>1. On(md, n, n) /\ On(md, n, y)
          BY <1>10, <1>11, <3>1, <3>3 DEF Differ
        <4> QED
          BY <1>8, <1>9, <3>1, <3>2, <3>3, <4>1
      <3>4. CASE e # d
        <4>1. e < d /\ e \in Nat
          BY <1>3, <3>1, <3>4
        <4>2. Differ(K(f), K(y), e)
          <5>1. Agree(K(f), key, e)
            <6>1. Agree(key, K(f), e)
              BY <1>3, <4>1, AgreeLess DEF Differ
            <6> QED
              BY <6>1, AgreeBoth
          <5>2. Agree(K(f), K(y), e)
            BY <3>1, <5>1, AgreeBoth DEF Differ
          <5>3. e < KeyEnd(K(f)) /\ (IsSet(K(f), e) <=> IsSet(key, e))
            BY <4>1 DEF Differ, Agree
          <5> QED
            BY <3>1, <5>2, <5>3 DEF Differ
        <4>3. f # y
          BY <4>2 DEF Differ
        <4>4. PICK a \in I : On(nodes, a, f) /\ On(nodes, a, y) /\ Differ(K(f), K(y), B(a))
          BY <4>3, BranchOf
        <4>5. B(a) = e
          BY <4>2, <4>4, DifferUnique
        <4>6. Agree(K(a), key, B(a))
          BY <1>3, <1>15, <3>1, <4>4, <4>5 DEF Differ
        <4>7. On(md, a, n) /\ On(md, a, y) /\ BitIn(md, a) = e /\ a \in Inner(md, N)
          BY <1>4, <1>8, <1>9, <1>10, <4>4, <4>5, <4>6
        <4> QED
          BY <3>1, <3>2, <4>7
      <3> QED
        BY <3>3, <3>4
    <2>2. ASSUME NEW x \in M, NEW y \in M, x # y
          PROVE  \E a \in Inner(md, N) : On(md, a, x) /\ Differ(K(x), K(y), BitIn(md, a))
      <3>1. PICK a \in I : On(nodes, a, x) /\ Differ(K(x), K(y), B(a))
        BY <2>2, BranchOf
      <3>2. On(md, a, x) /\ BitIn(md, a) = B(a) /\ a \in Inner(md, N)
        BY <1>4, <1>8, <1>9, <1>10, <3>1
      <3> QED
        BY <3>1, <3>2
    <2> SUFFICES ASSUME NEW x \in N, NEW y \in N, x # y
                 PROVE  \E a \in Inner(md, N) :
                           On(md, a, x) /\ Differ(KeyIn(md, x), KeyIn(md, y), BitIn(md, a))
      BY DEF Branches
    <2>3. CASE x \in M /\ y \in M
      <3>1. KeyIn(md, x) = K(x) /\ KeyIn(md, y) = K(y)
        BY <1>8, <2>3
      <3> QED
        BY <2>2, <2>3, <3>1
    <2>4. CASE x = n /\ y \in M
      <3>1. KeyIn(md, x) = key /\ KeyIn(md, y) = K(y)
        BY <1>8, <2>4
      <3> QED
        BY <2>1, <2>4, <3>1
    <2>5. CASE x \in M /\ y = n
      <3>1. KeyIn(md, x) = K(x) /\ KeyIn(md, y) = key
        BY <1>8, <2>5
      <3> QED
        BY <2>1, <2>5, <3>1
    <2> QED
      BY <2>3, <2>4, <2>5 DEF N
  \* The link that is changed.
  <1>21. ASSUME w.bit # 0
         PROVE  \E o \in I, s \in Sides : /\ w.link = <<o, s>> /\ B(o) = w.bit
                                         /\ p = Child(nodes, o, s) /\ On(nodes, o, p)
    <2>1. PICK o \in I, s \in Sides : w.link = <<o, s>> /\ w.bit = B(o) /\ p = Child(nodes, o, s)
      BY <1>2, <1>21 DEF Linked, p
    <2>2. On(nodes, o, p)
      BY <1>1, <2>1 DEF Links
    <2> QED
      BY <2>1, <2>2
  <1>22. w.link = <<0, "root">> => w.bit = 0 /\ p = pp_root
    BY <1>2 DEF Linked, p, Sides
  <1>23. ASSUME NEW a \in I, NEW s \in Sides, w.link = <<a, s>>
         PROVE  w.bit = B(a) /\ p = Child(nodes, a, s)
    BY <1>2, <1>23 DEF Linked, p, Sides
  \* A link that is left alone, past a bit, leads to the next test as before.
  <1>19. ASSUME NEW c \in M, NEW b \in Nat, Reach(nodes, M, b, c),
                Agree(key, K(c), d) /\ b < d => b < w.bit
         PROVE  Reach(md, N, b, c)
    <2> SUFFICES ASSUME NEW a \in Inner(md, N), On(md, a, c), b < BitIn(md, a)
                 PROVE  b < BitIn(md, c) /\ BitIn(md, c) <= BitIn(md, a)
      BY DEF Reach
    <2>0. BitIn(md, c) = B(c)
      BY <1>8
    <2>1. CASE a \in I
      BY <1>4, <1>8, <1>10, <1>19, <2>0, <2>1 DEF Reach
    <2>2. CASE a = n
      <3>1. Agree(key, K(c), d) /\ b < d /\ BitIn(md, a) = d
        BY <1>8, <1>10, <2>2
      <3>2. b < w.bit
        BY <1>19, <3>1
      <3>3. PICK o \in I : B(o) = w.bit /\ On(nodes, o, p)
        BY <1>2, <1>21, <3>2
      <3>4. On(nodes, o, c)
        <4>1. B(o) <= d
          BY <1>2, <1>3, <1>6, <3>3
        <4>2. Agree(K(o), key, B(o))
          BY <1>2, <1>14, <1>15, <3>3, <4>1
        <4> QED
          BY <1>15, <3>1, <4>1, <4>2
      <3>5. b < B(c) /\ B(c) <= B(o)
        BY <1>19, <3>2, <3>3, <3>4 DEF Reach
      <3>6. B(c) \in Nat
        BY <1>5
      <3> QED
        BY <1>2, <1>3, <1>6, <2>0, <3>1, <3>3, <3>5, <3>6
    <2> QED
      BY <1>9, <2>1, <2>2
  \* The link that is changed leads to the new node.
  <1>20. Reach(md, N, w.bit, n)
    <2> SUFFICES ASSUME NEW a \in Inner(md, N), On(md, a, n), w.bit < BitIn(md, a)
                 PROVE  w.bit < BitIn(md, n) /\ BitIn(md, n) <= BitIn(md, a)
      BY DEF Reach
    <2>1. CASE a \in I
      <3>1. B(a) <= w.bit /\ BitIn(md, a) = B(a)
        BY <1>4, <1>8, <1>10, <1>16, <2>1
      <3> QED
        BY <1>2, <1>4, <2>1, <3>1
    <2>2. CASE a = n
      BY <1>3, <1>6, <1>8, <2>2
    <2> QED
      BY <1>9, <2>1, <2>2
  \* The links of the new node.
  <1>24. ASSUME NEW s \in Sides, NEW c, c = Child(md, n, s)
         PROVE  /\ c \in N /\ On(md, n, c) /\ d < KeyEnd(KeyIn(md, c))
                /\ (IsSet(KeyIn(md, c), d) <=> s = "right")
                /\ Reach(md, N, d, c)
    <2>1. CASE s = "right" <=> r
      <3>1. c = n /\ KeyIn(md, c) = key
        BY <1>8, <1>24, <2>1
      <3>2. ASSUME NEW a \in Inner(md, N), On(md, a, n), d < BitIn(md, a) PROVE FALSE
        <4>1. a \in I
          BY <1>3, <1>8, <1>9, <3>2
        <4>2. B(a) < d /\ BitIn(md, a) = B(a)
          BY <1>4, <1>8, <1>10, <1>13, <3>2, <4>1
        <4> QED
          BY <1>3, <1>4, <3>2, <4>1, <4>2
      <3>3. Reach(md, N, d, c)
        BY <3>1, <3>2 DEF Reach
      <3> QED
        BY <1>3, <1>10, <1>11, <2>1, <3>1, <3>3 DEF N, r
    <2>2. CASE ~(s = "right" <=> r)
      <3>1. c = p /\ KeyIn(md, c) = K(p) /\ BitIn(md, c) = B(p)
        BY <1>2, <1>8, <1>24, <2>2
      <3>2. d < KeyEnd(K(p)) /\ ~(IsSet(K(p), d) <=> r)
        BY <1>14 DEF Differ, r
      <3>3. ASSUME NEW a \in Inner(md, N), On(md, a, p), d < BitIn(md, a)
            PROVE  d < B(p) /\ B(p) <= BitIn(md, a)
        <4>1. a \in I
          BY <1>3, <1>8, <1>9, <3>3
        <4>2. On(nodes, a, p) /\ BitIn(md, a) = B(a)
          BY <1>2, <1>4, <1>8, <1>10, <3>3, <4>1
        <4>3. w.bit < B(p) /\ B(p) <= B(a)
          BY <1>2, <1>3, <1>4, <1>6, <3>3, <4>1, <4>2 DEF Reach
        <4>4. ~(B(p) < d)
          BY <4>3 DEF Stops, p
        <4>5. B(p) # d
          <5> SUFFICES ASSUME B(p) = d PROVE FALSE
            OBVIOUS
          <5>1. p \in I
            BY <1>2, <1>3 DEF Inner
          <5>2. Agree(K(p), key, B(p))
            BY <1>14, AgreeBoth
          <5> QED
            BY <1>3, <1>13, <5>1, <5>2
        <4> QED
          BY <1>2, <1>3, <1>5, <4>2, <4>3, <4>4, <4>5
      <3>4. Reach(md, N, d, c)
        BY <3>1, <3>3 DEF Reach
      <3> QED
        BY <1>2, <1>10, <1>14, <2>2, <3>1, <3>2, <3>4 DEF N
    <2> QED
      BY <2>1, <2>2
  \* The links of the others.
  <1>25. ASSUME NEW a \in I, NEW s \in Sides, NEW c, c = Child(md, a, s)
         PROVE  /\ c \in N /\ On(md, a, c) /\ B(a) < KeyEnd(KeyIn(md, c))
                /\ (IsSet(KeyIn(md, c), B(a)) <=> s = "right")
                /\ Reach(md, N, B(a), c)
    <2> DEFINE o == Child(nodes, a, s)
    <2>0. /\ o \in M /\ On(nodes, a, o) /\ B(a) < KeyEnd(K(o))
          /\ (IsSet(K(o), B(a)) <=> s = "right")
          /\ Reach(nodes, M, B(a), o)
      BY <1>1 DEF Links
    <2>1. CASE w.link # <<a, s>>
      <3>1. c = o /\ KeyIn(md, c) = K(o)
        BY <1>4, <1>8, <1>25, <2>0, <2>1
      <3>2. ASSUME Agree(key, K(o), d) /\ B(a) < d PROVE B(a) < w.bit
        <4>1. Agree(K(a), key, B(a))
          BY <1>3, <1>4, <1>15, <2>0, <3>2
        <4>2. B(a) <= w.bit
          BY <1>16, <4>1
        <4>3. B(a) # w.bit
          <5> SUFFICES ASSUME B(a) = w.bit PROVE FALSE
            OBVIOUS
          <5>1. PICK u \in I, v \in Sides : /\ w.link = <<u, v>> /\ B(u) = w.bit
                                            /\ p = Child(nodes, u, v) /\ On(nodes, u, p)
            BY <1>4, <1>21
          <5>2. u \in M /\ B(u) < d /\ B(u) <= d
            BY <1>4, <1>6, <1>3, <5>1
          <5>3. Agree(K(u), key, B(u))
            BY <1>2, <1>14, <1>15, <5>1, <5>2
          <5>4. On(nodes, u, a)
            <6>1. Agree(key, K(a), B(u))
              BY <4>1, <5>1, AgreeBoth
            <6> QED
              BY <5>3, <6>1, AgreeBoth DEF On
          <5>5. u = a
            BY <1>1, <5>1, <5>4 DEF Distinct
          <5>6. IsSet(K(p), B(a)) <=> v = "right"
            BY <1>1, <5>1, <5>5 DEF Links
          <5>7. IsSet(K(p), B(a)) <=> IsSet(key, B(a))
            BY <1>7, <3>2, <5>1, <5>5
          <5>8. IsSet(K(o), B(a)) <=> IsSet(key, B(a))
            BY <1>4, <3>2 DEF Agree
          <5>9. v = s
            BY <2>0, <5>6, <5>7, <5>8 DEF Sides
          <5> QED
            BY <2>1, <5>1, <5>5, <5>9
        <4> QED
          BY <1>2, <1>4, <4>2, <4>3
      <3> HIDE DEF o
      <3>3. Reach(md, N, B(a), o)
        BY <1>4, <1>19, <2>0, <3>2
      <3>4. On(md, a, o)
        BY <1>10, <2>0
      <3> QED
        BY <2>0, <3>1, <3>3, <3>4 DEF N
    <2>2. CASE w.link = <<a, s>>
      <3>1. c = n /\ KeyIn(md, c) = key
        BY <1>4, <1>8, <1>25, <2>2
      <3>2. w.bit = B(a) /\ p = o
        BY <1>23, <2>2
      <3>3. B(a) < d /\ B(a) <= d
        BY <1>3, <1>4, <1>6, <3>2
      <3> HIDE DEF o
      <3>4. Agree(K(a), key, B(a))
        BY <1>2, <1>14, <1>15, <2>0, <3>2, <3>3
      <3>5. IsSet(key, B(a)) <=> s = "right"
        BY <1>7, <2>0, <3>2, <3>3
      <3>6. B(a) < KeyEnd(key)
        BY <1>3, <1>4, <3>3
      <3> QED
        BY <1>10, <1>20, <3>1, <3>2, <3>4, <3>5, <3>6 DEF N
    <2> QED
      BY <2>1, <2>2
  <1>26. Links(md, N)
    <2> SUFFICES ASSUME NEW a \in Inner(md, N)
                 PROVE  /\ BitIn(md, a) \in Places /\ BitIn(md, a) < KeyEnd(KeyIn(md, a))
                        /\ \A s \in Sides :
                              /\ Child(md, a, s) \in N
                              /\ On(md, a, Child(md, a, s))
                              /\ BitIn(md, a) < KeyEnd(KeyIn(md, Child(md, a, s)))
                              /\ IsSet(KeyIn(md, Child(md, a, s)), BitIn(md, a)) <=> s = "right"
                              /\ Reach(md, N, BitIn(md, a), Child(md, a, s))
      BY DEF Links
    <2>1. CASE a = n
      <3>1. BitIn(md, a) = d /\ KeyIn(md, a) = key
        BY <1>8, <2>1
      <3> QED
        BY <1>3, <1>24, <2>1, <3>1
    <2>2. CASE a \in I
      <3>1. BitIn(md, a) = B(a) /\ KeyIn(md, a) = K(a)
        BY <1>4, <1>8, <2>2
      <3>2. B(a) \in Places /\ B(a) < KeyEnd(K(a))
        BY <1>1, <2>2 DEF Links
      <3> QED
        BY <1>25, <2>2, <3>1, <3>2
    <2> QED
      BY <1>9, <2>1, <2>2
  <1>27. Distinct(md, N)
    <2> SUFFICES ASSUME NEW a \in Inner(md, N), NEW c \in Inner(md, N),
                        BitIn(md, a) = BitIn(md, c), On(md, a, c), a # c
                 PROVE  FALSE
      BY DEF Distinct
    <2>1. CASE a \in I /\ c \in I
      <3>1. BitIn(md, a) = B(a) /\ BitIn(md, c) = B(c) /\ On(nodes, a, c)
        BY <1>4, <1>8, <1>10, <2>1
      <3> QED
        BY <1>1, <2>1, <3>1 DEF Distinct
    <2>2. CASE a = n /\ c \in I
      <3>1. B(c) = d /\ Agree(key, K(c), d)
        BY <1>4, <1>8, <1>10, <2>2
      <3>2. Agree(K(c), key, B(c))
        BY <3>1, AgreeBoth
      <3> QED
        BY <1>3, <1>13, <2>2, <3>1, <3>2
    <2>3. CASE a \in I /\ c = n
      <3>1. B(a) = d /\ Agree(K(a), key, B(a))
        BY <1>4, <1>8, <1>10, <2>3
      <3> QED
        BY <1>3, <1>13, <2>3, <3>1
    <2> QED
      BY <1>9, <2>1, <2>2, <2>3
  <1>28. Rooted(md, root, N)
    <2>1. CASE w.link = <<0, "root">>
      BY <1>8, <1>20, <1>22, <2>1 DEF Rooted, N
    <2>2. CASE w.link # <<0, "root">>
      <3>1. root = pp_root /\ w.bit # 0
        BY <1>2, <1>4, <1>8, <2>2 DEF Linked
      <3>2. 0 < w.bit
        BY <1>2, <3>1
      <3>3. Reach(md, N, 0, pp_root)
        BY <1>1, <1>19, <3>2
      <3> QED
        BY <3>1, <3>3 DEF Rooted, N
    <2> QED
      BY <2>1, <2>2
  <1> QED
    BY <1>8, <1>17, <1>18, <1>26, <1>27, <1>28 DEF Tree, N

\* ... of one key more.
LEMMA PutKeys ==
    ASSUME NEW M, NEW md, NEW root, NEW n, NEW key, NEW d, NEW w, Puts(M, md, root, n, key, d, w)
    PROVE  KeysOf(md, M \cup {n}) = KeysOf(nodes, M) \cup {key}
  <1>1. KeyIn(md, n) = key /\ \A a \in M : KeyIn(md, a) = KeyIn(nodes, a)
    BY DEF Puts
  <1> QED
    BY <1>1 DEF KeysOf

\* The proofs are about keys and prefixes whose length a node can hold: that of a
\* longer one wraps (pa_pat_length_to_bit).
KeysFit ==
    /\ Keys \subseteq Fit
    /\ \A p \in Heads : p.bytes \in Fit

\* There is a tree of the keys that were added.
TreeInv == \E M : Tree(nodes, pp_root, M) /\ added = KeysOf(nodes, M)

\* The node that pa_pat_node_init_length fills in.
LEMMA NewNode ==
    ASSUME NEW key \in Fit
    PROVE  LET node == Pat!pa_pat_node_init_length(key)
           IN /\ node \in NodeType /\ node.key = key /\ node.ppn_length = KeyEnd(key)
              /\ node.ppn_bit = 0
  <1>1. KeyEnd(key) \in Nat /\ key \in Seq(0 .. 255)
    BY LastValue DEF Fit
  <1>2. Pat!pa_pat_node_init_length(key) =
           [key |-> key, ppn_length |-> KeyEnd(key), ppn_bit |-> 0, ppn_left |-> 0, ppn_right |-> 0]
    BY DEF Pat!pa_pat_node_init_length, KeyEnd, Pat!PA_PAT_NOBIT, Pat!NullAtom
  <1> HIDE DEF KeyEnd
  <1> QED
    BY <1>1, <1>2 DEF NodeType

\* A node more in the table.
LEMMA NodeAppended ==
    ASSUME NEW nd \in Seq(NodeType), NEW node \in NodeType
    PROVE  LET md == Append(nd, node)
           IN /\ md \in Seq(NodeType) /\ Len(md) = Len(nd) + 1 /\ Len(nd) \in Nat
              /\ md[Len(nd) + 1] = node /\ \A i \in 1 .. Len(nd) : md[i] = nd[i]
  <1> HIDE DEF NodeType
  <1> QED
    OBVIOUS

\* One entry of a sequence replaced.
LEMMA EntrySet ==
    ASSUME NEW S, NEW nd \in Seq(S), NEW a \in 1 .. Len(nd), NEW x \in S
    PROVE  LET md == [nd EXCEPT ![a] = x]
           IN /\ md \in Seq(S) /\ Len(md) = Len(nd)
              /\ \A c \in 1 .. Len(nd) : md[c] = IF c = a THEN x ELSE nd[c]
  OBVIOUS

LEMMA OverlapBoth == \A k, l : Pat!Overlap(k, l) <=> Pat!Overlap(l, k)
  BY DEF Pat!Overlap

\* A key parts from its best match at the bit in which they first differ, unless one
\* of them begins the other.
LEMMA PartingTells ==
    ASSUME NEW M, Tree(nodes, pp_root, M), pp_root \in M, NEW key \in Fit
    PROVE  LET f == Pat!Descend(key, KeyEnd(key)).node
           IN /\ f \in M
              /\ Pat!Parting(key) = {} => Pat!Overlap(key, KeyIn(nodes, f))
              /\ \A d \in Pat!Parting(key) : Differ(key, KeyIn(nodes, f), d)
  <1> DEFINE f == Pat!Descend(key, KeyEnd(key)).node
             l == KeyIn(nodes, f)
             bit == IF KeyEnd(key) < KeyEnd(l) THEN KeyEnd(key) ELSE KeyEnd(l)
             q == Pat!pa_pat_mismatch(key, l, bit)
  <1>1. f \in M
    BY DescendFinds
  <1>2. Pat!Length(f) = KeyEnd(l) /\ Pat!Key(f) = l /\ l \in Fit /\ KeyEnd(l) \in Nat
        /\ KeyEnd(key) \in Nat
    BY <1>1, KeyOfMember, LastValue
  <1>3. Pat!Parting(key) = IF q >= bit THEN {} ELSE {q}
    BY <1>2 DEF Pat!Parting, Pat!pa_pat_search, KeyEnd
  <1>4. bit \in Nat /\ bit <= KeyEnd(key) /\ bit <= KeyEnd(l)
    BY <1>2
  <1>5. q \in Nat /\ (q >= bit <=> Agree(key, l, bit)) /\ (q < bit => Differ(key, l, q))
    <2> HIDE DEF f, l, bit
    <2> QED
      BY <1>2, <1>4, MismatchTells
  <1>6. ASSUME q >= bit PROVE Pat!Overlap(key, l)
    <2>1. Agree(key, l, bit)
      BY <1>5, <1>6
    <2>2. CASE KeyEnd(key) <= KeyEnd(l)
      <3>1. bit = KeyEnd(key)
        BY <1>2, <2>2
      <3> HIDE DEF f, l, bit
      <3> QED
        BY <1>2, <2>1, <2>2, <3>1, AgreeOverlaps
    <2>3. CASE ~(KeyEnd(key) <= KeyEnd(l))
      <3>1. bit = KeyEnd(l) /\ KeyEnd(l) <= KeyEnd(key)
        BY <1>2, <2>3
      <3> HIDE DEF f, l, bit
      <3>2. Agree(l, key, KeyEnd(l))
        BY <2>1, <3>1, AgreeBoth
      <3> QED
        BY <1>2, <3>1, <3>2, AgreeOverlaps, OverlapBoth
    <2> QED
      BY <2>2, <2>3
  <1> HIDE DEF q, bit
  <1>7. \A d \in Pat!Parting(key) : Differ(key, l, d)
    BY <1>3, <1>4, <1>5
  <1> QED
    BY <1>1, <1>3, <1>6, <1>7

\* pa_pat_add puts the node into the link that the walk found.
LEMMA InsertedPuts ==
    ASSUME NEW M, Tree(nodes, pp_root, M), NEW key \in Fit, NEW d \in Nat,
           NEW w \in RootWalks(M, Pat!SetBits(key, d), d), w = Pat!InsertionPoint(key, d),
           Pat!Inserted(Pat!pa_pat_node_init_length(key), d)
    PROVE  Puts(M, nodes', pp_root', Len(nodes) + 1, key, d, w)
  <1> DEFINE node == Pat!pa_pat_node_init_length(key)
             n == Len(nodes) + 1
             r == IsSet(key, d)
             new == [node EXCEPT !.ppn_bit = d, !.ppn_left = IF r THEN w.node ELSE n,
                                 !.ppn_right = IF r THEN n ELSE w.node]
             all == Append(nodes, new)
  <1>1. node \in NodeType /\ node.key = key /\ node.ppn_length = KeyEnd(key)
    BY NewNode
  <1>2. nodes \in Seq(NodeType) /\ M \subseteq 1 .. Len(nodes) /\ Len(nodes) \in Nat /\ n \in Nat
    BY DEF Tree, Members
  <1>3. w.at = w.node /\ w.node \in M /\ w.node \in Nat /\ Linked(M, w)
    BY DEF RootWalks, Walks, WalkType
  <1>4. /\ nodes' = CASE w.link[2] = "root" -> all
                      [] w.link[2] = "left" -> [all EXCEPT ![w.link[1]].ppn_left = n]
                      [] w.link[2] = "right" -> [all EXCEPT ![w.link[1]].ppn_right = n]
        /\ pp_root' = IF w.link[2] = "root" THEN n ELSE pp_root
    BY <1>1, <1>3 DEF Pat!Inserted, IsSet
  <1>5. /\ new \in NodeType /\ new.key = key /\ new.ppn_length = KeyEnd(key) /\ new.ppn_bit = d
        /\ new.ppn_left = (IF r THEN w.node ELSE n) /\ new.ppn_right = (IF r THEN n ELSE w.node)
    <2> HIDE DEF node, n, r
    <2> QED
      BY <1>1, <1>2, <1>3 DEF NodeType
  <1> HIDE DEF node, new, r
  <1>6. /\ all \in Seq(NodeType) /\ Len(all) = n /\ all[n] = new
        /\ \A i \in 1 .. Len(nodes) : all[i] = nodes[i]
    BY <1>2, <1>5, NodeAppended
  <1> HIDE DEF all
  <1>7. /\ KeyIn(all, n) = key /\ all[n].ppn_length = KeyEnd(key) /\ BitIn(all, n) = d
        /\ \A s \in Sides : Child(all, n, s) = IF (s = "right" <=> r) THEN n ELSE w.node
    BY <1>5, <1>6 DEF KeyIn, BitIn, Child, Sides
  <1>8. \A a \in M : /\ KeyIn(all, a) = KeyIn(nodes, a) /\ BitIn(all, a) = BitIn(nodes, a)
                     /\ all[a].ppn_length = nodes[a].ppn_length
                     /\ \A s \in Sides : Child(all, a, s) = Child(nodes, a, s)
    BY <1>2, <1>6 DEF KeyIn, BitIn, Child
  <1>9. n \notin M /\ M \cup {n} \subseteq 1 .. n
    <2>1. n \notin 1 .. Len(nodes) /\ n \in 1 .. n
      BY <1>2
    <2>2. \A i \in 1 .. Len(nodes) : i \in 1 .. n
      BY <1>2
    <2> QED
      BY <1>2, <2>1, <2>2
  <1>10. CASE w.link = <<0, "root">>
    <2>1. nodes' = all /\ pp_root' = n
      BY <1>4, <1>10
    <2>2. \A a \in M, s \in Sides : w.link # <<a, s>>
      BY <1>10 DEF Sides
    <2> QED
      BY <1>6, <1>7, <1>8, <1>9, <1>10, <2>1, <2>2 DEF Puts, r
  <1>11. ASSUME NEW a \in Inner(nodes, M), NEW s \in Sides, w.link = <<a, s>>
         PROVE  Puts(M, nodes', pp_root', n, key, d, w)
    <2>1. a \in M /\ a \in 1 .. n /\ a # n
      BY <1>9 DEF Inner
    <2>2. w.link[1] = a /\ w.link[2] = s /\ s # "root" /\ (s = "left" \/ s = "right")
      BY <1>11 DEF Sides
    <2>3. pp_root' = pp_root /\ w.link # <<0, "root">>
      BY <1>4, <1>11, <2>2
    <2>4. nodes' = IF s = "left" THEN [all EXCEPT ![a].ppn_left = n]
                   ELSE [all EXCEPT ![a].ppn_right = n]
      BY <1>4, <2>2
    <2>5. /\ nodes' \in Seq(NodeType) /\ Len(nodes') = n
          /\ \A c \in 1 .. n :
                /\ KeyIn(nodes', c) = KeyIn(all, c) /\ BitIn(nodes', c) = BitIn(all, c)
                /\ nodes'[c].ppn_length = all[c].ppn_length
                /\ \A u \in Sides :
                      Child(nodes', c, u) = IF c = a /\ u = s THEN n ELSE Child(all, c, u)
      <3>1. a \in 1 .. Len(all)
        BY <1>6, <2>1
      <3> DEFINE x == IF s = "left" THEN [all[a] EXCEPT !.ppn_left = n]
                      ELSE [all[a] EXCEPT !.ppn_right = n]
                 md == [all EXCEPT ![a] = x]
      <3>2. all[a] \in NodeType /\ n \in Nat
        BY <1>2, <1>6, <3>1, Entry
      <3> HIDE DEF n
      <3>3. /\ x \in NodeType /\ x.key = all[a].key /\ x.ppn_bit = all[a].ppn_bit
            /\ x.ppn_length = all[a].ppn_length
            /\ x.ppn_left = (IF s = "left" THEN n ELSE all[a].ppn_left)
            /\ x.ppn_right = (IF s = "right" THEN n ELSE all[a].ppn_right)
        BY <2>2, <3>2 DEF NodeType
      <3>4. nodes' = md
        BY <1>6, <2>4, <3>1
      <3> HIDE DEF x, NodeType
      <3>5. md \in Seq(NodeType) /\ Len(md) = Len(all)
            /\ \A c \in 1 .. Len(all) : md[c] = IF c = a THEN x ELSE all[c]
        BY <1>6, <3>1, <3>3, EntrySet
      <3> HIDE DEF md
      <3>6. ASSUME NEW c \in 1 .. n
            PROVE  /\ KeyIn(md, c) = KeyIn(all, c) /\ BitIn(md, c) = BitIn(all, c)
                   /\ md[c].ppn_length = all[c].ppn_length
                   /\ \A u \in Sides :
                         Child(md, c, u) = IF c = a /\ u = s THEN n ELSE Child(all, c, u)
        <4>1. md[c] = IF c = a THEN x ELSE all[c]
          BY <1>6, <3>5
        <4>2. CASE c = a
          <5>1. md[c] = x /\ all[c] = all[a]
            BY <4>1, <4>2
          <5> QED
            BY <3>3, <4>2, <5>1 DEF KeyIn, BitIn, Child, Sides
        <4>3. CASE c # a
          <5>1. md[c] = all[c]
            BY <4>1, <4>3
          <5> QED
            BY <4>3, <5>1 DEF KeyIn, BitIn, Child
        <4> QED
          BY <4>2, <4>3
      <3> QED
        BY <1>6, <3>4, <3>5, <3>6
    <2>6. n \in 1 .. n
      BY <1>2
    <2>7. \A c \in M, u \in Sides : w.link = <<c, u>> <=> c = a /\ u = s
      BY <1>11
    <2> HIDE DEF n
    <2>8. \A c \in M, u \in Sides :
              Child(nodes', c, u) = IF w.link = <<c, u>> THEN n ELSE Child(nodes, c, u)
      BY <1>8, <1>9, <2>5, <2>7
    <2>9. \A u \in Sides : Child(nodes', n, u) = IF (u = "right" <=> r) THEN n ELSE w.node
      BY <1>7, <2>1, <2>5, <2>6
    <2>10. \A c \in M : /\ KeyIn(nodes', c) = KeyIn(nodes, c) /\ BitIn(nodes', c) = BitIn(nodes, c)
                        /\ nodes'[c].ppn_length = nodes[c].ppn_length
      BY <1>8, <1>9, <2>5
    <2>11. KeyIn(nodes', n) = key /\ nodes'[n].ppn_length = KeyEnd(key) /\ BitIn(nodes', n) = d
      BY <1>7, <2>5, <2>6
    <2> QED
      BY <1>9, <2>3, <2>5, <2>8, <2>9, <2>10, <2>11 DEF Puts, r
  <1> QED
    BY <1>3, <1>10, <1>11 DEF Linked

\* Without members there is a tree over any table.
LEMMA EmptyTree ==
    ASSUME NEW nd \in Seq(NodeType)
    PROVE  Tree(nd, 0, {}) /\ KeysOf(nd, {}) = {}
  <1>1. Inner(nd, {}) = {}
    BY DEF Inner
  <1> QED
    BY <1>1 DEF Tree, Members, Branches, Links, Distinct, Rooted, KeysOf

\* An addition keeps the tree, and refuses a key exactly if it is there or overlaps one
\* that is.
LEMMA AddKeepsTree ==
    ASSUME NEW M, Tree(nodes, pp_root, M), added = KeysOf(nodes, M), NEW key \in Fit,
           Pat!pa_pat_add(key)
    PROVE  /\ \E N : Tree(nodes', pp_root', N) /\ added' = KeysOf(nodes', N)
           /\ key \in added' <=> key \in added \/ \A k \in added : ~Pat!Overlap(k, key)
  <1> DEFINE node == Pat!pa_pat_node_init_length(key)
             n == Len(nodes) + 1
  <1>1. nodes \in Seq(NodeType) /\ M \subseteq 1 .. Len(nodes) /\ Len(nodes) \in Nat /\ n \in Nat
    BY DEF Tree, Members
  <1>2. node \in NodeType /\ node.key = key /\ node.ppn_length = KeyEnd(key) /\ node.ppn_bit = 0
    BY NewNode
  <1>3. CASE pp_root = 0
    <2>1. M = {}
      BY <1>1, <1>3 DEF Tree, Rooted
    <2>2. added = {} /\ added' = {key} /\ Pat!FirstNode(node)
      BY <1>3, <2>1 DEF KeysOf, Pat!pa_pat_add, Pat!NullAtom
    <2> DEFINE new == [node EXCEPT !.ppn_left = n, !.ppn_right = n]
    <2>3. nodes' = Append(nodes, new) /\ pp_root' = n
      BY <2>2 DEF Pat!FirstNode
    <2>4. new \in NodeType /\ new.key = key /\ new.ppn_length = KeyEnd(key) /\ new.ppn_bit = 0
      <3> DEFINE m == [node EXCEPT !.ppn_left = n]
                 len == KeyEnd(key)
      <3>1. new = [m EXCEPT !.ppn_right = n]
        BY Zenon
      <3> HIDE DEF node, n, new, len
      <3>2. m \in NodeType /\ m.key = key /\ m.ppn_length = len /\ m.ppn_bit = 0
        BY <1>1, <1>2 DEF NodeType, len
      <3> HIDE DEF m
      <3>3. new \in NodeType /\ new.key = key /\ new.ppn_length = len /\ new.ppn_bit = 0
        BY <1>1, <3>1, <3>2 DEF NodeType
      <3> QED
        BY <3>3 DEF len
    <2> HIDE DEF new, node
    <2>5. /\ nodes' \in Seq(NodeType) /\ n \in 1 .. Len(nodes') /\ KeyIn(nodes', n) = key
          /\ nodes'[n].ppn_length = KeyEnd(key) /\ BitIn(nodes', n) = 0
      BY <1>1, <2>3, <2>4, NodeAppended DEF KeyIn, BitIn
    <2> HIDE DEF n
    <2>6. Tree(nodes', n, {n}) /\ KeysOf(nodes', {n}) = {key}
      BY <2>5, FirstTree
    <2> QED
      BY <2>2, <2>3, <2>6
  <1>4. CASE pp_root # 0
    <2>1. M # {} /\ pp_root \in M
      BY <1>4 DEF Tree, Rooted
    <2> DEFINE f == Pat!Descend(key, KeyEnd(key)).node
               l == KeyIn(nodes, f)
    <2>2. /\ f \in M
          /\ Pat!Parting(key) = {} => Pat!Overlap(key, l)
          /\ \A d \in Pat!Parting(key) : Differ(key, l, d)
      BY <2>1, PartingTells
    <2>3. CASE Pat!Parting(key) = {}
      <3>1. nodes' = Append(nodes, node) /\ pp_root' = pp_root /\ added' = added
        BY <1>4, <2>3 DEF Pat!pa_pat_add, Pat!NullAtom
      <3> HIDE DEF node, f
      <3>2. nodes' \in Seq(NodeType) /\ M \subseteq 1 .. Len(nodes')
            /\ \A a \in M : nodes'[a] = nodes[a]
        BY <1>1, <1>2, <3>1, NodeAppended
      <3>3. Tree(nodes', pp_root', M) /\ KeysOf(nodes', M) = KeysOf(nodes, M)
        BY <3>1, <3>2, TreeFrame
      <3>4. l \in added /\ Pat!Overlap(l, key)
        BY <2>2, <2>3, OverlapBoth DEF KeysOf
      <3> QED
        BY <3>1, <3>3, <3>4
    <2>4. CASE Pat!Parting(key) # {}
      <3>1. PICK d \in Pat!Parting(key) : Pat!Inserted(node, d)
        BY <1>4, <2>4 DEF Pat!pa_pat_add, Pat!NullAtom
      <3>2. added' = added \cup {key}
        BY <1>4, <2>4 DEF Pat!pa_pat_add, Pat!NullAtom
      <3>3. Differ(key, l, d) /\ d \in Nat
        BY <2>2, <3>1, PlaceTypes DEF Differ
      <3> DEFINE w == Pat!InsertionPoint(key, d)
                 R == Pat!SetBits(key, d)
      <3>4. w = Pat!Walk(Pat!Begin(pp_root), R, 0 .. d - 1)
        BY DEF Pat!InsertionPoint
      <3> HIDE DEF w
      <3>5. w \in RootWalks(M, R, d) /\ Stops(w, d) /\ Answered(M, 0, R, d, w)
        <4> HIDE DEF R
        <4> QED
          BY <2>1, <3>3, <3>4, RootWalkFinds
      <3>6. Puts(M, nodes', pp_root', n, key, d, w)
        <4>1. w = Pat!InsertionPoint(key, d)
          BY DEF w
        <4> QED
          BY <3>1, <3>3, <3>5, <4>1, InsertedPuts
      <3>7. PartsBy(M, key, d)
        BY <2>1, <3>3, PartsFromAll DEF PartsBy
      <3> HIDE DEF n, f, node
      <3>8. /\ Tree(nodes', pp_root', M \cup {n})
            /\ KeysOf(nodes', M \cup {n}) = KeysOf(nodes, M) \cup {key}
        <4>1. f \in M /\ Differ(key, KeyIn(nodes, f), d)
          BY <2>2, <3>3
        <4> HIDE DEF l
        <4>2. Placed(M, key, f, d, w)
          BY <2>1, <3>5, <3>7, <4>1 DEF Placed
        <4>3. Tree(nodes', pp_root', M \cup {n})
          BY <3>6, <4>2, PutKeepsTree
        <4>4. KeysOf(nodes', M \cup {n}) = KeysOf(nodes, M) \cup {key}
          BY <3>6, PutKeys
        <4> QED
          BY <4>3, <4>4
      <3>9. ASSUME NEW k \in added PROVE ~Pat!Overlap(k, key)
        <4>1. PICK x \in M : k = KeyIn(nodes, x)
          BY DEF KeysOf
        <4>2. k \in Fit
          BY <4>1, KeyOfMember
        <4>3. PICK e \in Places : Differ(key, k, e)
          BY <3>7, <4>1 DEF PartsBy
        <4> QED
          BY <4>2, <4>3, DifferOrders, OverlapBoth
      <3> QED
        BY <3>2, <3>8, <3>9
    <2> QED
      BY <2>3, <2>4
  <1> QED
    BY <1>3, <1>4

\* Opening empties the tree.
LEMMA TreeOpened ==
    ASSUME TreeInv, Pat!pa_pat_open
    PROVE  TreeInv'
  <1>1. nodes' = nodes /\ pp_root' = 0 /\ added' = {} /\ nodes \in Seq(NodeType)
    BY DEF TreeInv, Tree, Pat!pa_pat_open, Pat!NullAtom
  <1>2. Tree(nodes', 0, {}) /\ KeysOf(nodes', {}) = {}
    BY <1>1, EmptyTree
  <1> QED
    BY <1>1, <1>2 DEF TreeInv

\* Every step of the tree keeps the invariant.
LEMMA TreeNext ==
    ASSUME KeysFit, TreeInv, [Pat!Next]_pv
    PROVE  TreeInv'
  <1>1. CASE UNCHANGED pv
    BY <1>1 DEF TreeInv, pv
  <1>2. CASE Pat!pa_pat_open
    BY <1>2, TreeOpened
  <1>3. ASSUME NEW key \in Keys, Pat!pa_pat_add(key) PROVE TreeInv'
    <2>1. key \in Fit
      BY DEF KeysFit
    <2>2. PICK M : Tree(nodes, pp_root, M) /\ added = KeysOf(nodes, M)
      BY DEF TreeInv
    <2>3. \E N : Tree(nodes', pp_root', N) /\ added' = KeysOf(nodes', N)
      BY <1>3, <2>1, <2>2, AddKeepsTree
    <2> QED
      BY <2>3 DEF TreeInv
  <1> QED
    BY <1>1, <1>2, <1>3 DEF Pat!Next

\* It holds of a new tree.
LEMMA TreeInit == Pat!Init => TreeInv
  <1> SUFFICES ASSUME Pat!Init PROVE TreeInv
    OBVIOUS
  <1>1. nodes = << >> /\ pp_root = 0 /\ added = {} /\ nodes \in Seq(NodeType)
    BY DEF Pat!Init, Pat!NullAtom
  <1>2. Tree(nodes, 0, {}) /\ KeysOf(nodes, {}) = {}
    BY <1>1, EmptyTree
  <1> QED
    BY <1>1, <1>2 DEF TreeInv

\* It implies the promise.
LEMMA TreeInvAnswers ==
    ASSUME PdbAssumption, KeysFit, TreeInv
    PROVE  Pat!TreeAnswers
  <1>1. PICK M : Tree(nodes, pp_root, M) /\ added = KeysOf(nodes, M)
    BY DEF TreeInv
  <1>2. Keys \subseteq Fit /\ \A p \in Heads : p.bytes \in Fit /\ p.plen \in 1 .. 8 * Len(p.bytes)
    BY DEF PdbAssumption, Pat!PatAssumption, KeysFit
  <1>3. Pat!KeysFound
    BY <1>1, <1>2, KeysAreFound
  <1>4. Pat!WalksInOrder
    BY <1>1, WalksAreInOrder
  <1>5. Pat!SubtreeIsPrefix
    BY <1>1, <1>2, SubtreesArePrefixes
  <1> QED
    BY <1>3, <1>4, <1>5 DEF Pat!TreeAnswers

\* However the additions reshaped the tree, pa_pat_get finds exactly the keys that were
\* added, pa_pat_find_next and pa_pat_find_prev go from each to its neighbour in order,
\* pa_pat_compare_nodes tells their order, and pa_pat_subtree_match and
\* pa_pat_subtree_next visit the keys that have a prefix of some bits, in order.
THEOREM TreeAlwaysAnswers ==
    ASSUME KeysFit
    PROVE  Spec => []TreeAnswers
  <1>1. Init => TreeInv
    BY TreeInit DEF Init
  <1>2. TreeInv /\ [Next]_<<what, hv, av, iv, pv>> => TreeInv'
    <2> SUFFICES ASSUME TreeInv, [Next]_<<what, hv, av, iv, pv>> PROVE TreeInv'
      OBVIOUS
    <2>1. [Pat!Next]_pv
      BY DEF Next
    <2> QED
      BY <2>1, TreeNext
  <1>3. TreeInv => TreeAnswers
    BY PdbAssumption, TreeInvAnswers DEF TreeAnswers
  <1> QED
    BY <1>1, <1>2, <1>3, PTL DEF Spec

\* pa_pat_add refuses a key exactly if it is in the tree, begins a key that is, or
\* begins with one.
THEOREM OverlapsAlwaysRefused ==
    ASSUME KeysFit
    PROVE  Spec => OverlapsRefused
  <1> DEFINE Refuses ==
                \A key \in Keys : Pat!pa_pat_add(key) =>
                    (key \in added' <=> key \in added \/ \A k \in added : ~Pat!Overlap(k, key))
  <1>1. Init => TreeInv
    BY TreeInit DEF Init
  <1>2. TreeInv /\ [Next]_<<what, hv, av, iv, pv>> => TreeInv'
    <2> SUFFICES ASSUME TreeInv, [Next]_<<what, hv, av, iv, pv>> PROVE TreeInv'
      OBVIOUS
    <2>1. [Pat!Next]_pv
      BY DEF Next
    <2> QED
      BY <2>1, TreeNext
  <1>3. TreeInv => [Refuses]_<<nodes, pp_root, patOpens, added>>
    <2> SUFFICES ASSUME TreeInv, NEW key \in Keys, Pat!pa_pat_add(key)
                 PROVE  key \in added' <=> key \in added \/ \A k \in added : ~Pat!Overlap(k, key)
      OBVIOUS
    <2>1. PICK M : Tree(nodes, pp_root, M) /\ added = KeysOf(nodes, M)
      BY DEF TreeInv
    <2> QED
      BY <2>1, AddKeepsTree DEF KeysFit
  <1> QED
    BY <1>1, <1>2, <1>3, PTL DEF Spec, OverlapsRefused, Pat!OverlapsRefused, Pat!patVars
=============================================================================
