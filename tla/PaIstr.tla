------------------------------- MODULE PaIstr -------------------------------
(***************************************************************************)
(* Immutable strings (parrotdb/paistr.h, paistr.c).                        *)
(*                                                                         *)
(* A string of two bytes and more is written into pages of string data,    *)
(* from the end of what is left of the last page, and its place is entered *)
(* in an index (a PaFixed table that never releases, so its atoms come in  *)
(* order); callers get the number of the index entry.  Shorter strings     *)
(* have fixed numbers below those.                                         *)
(*                                                                         *)
(* Pages come from the page allocator, as blocks that nobody else has.     *)
(***************************************************************************)
EXTENDS PaCommon, Sequences, FiniteSets

CONSTANTS
    AtomBytes,  \* 1 << pi_atom_shift
    PerPage,    \* 1 << pi_shift
    Slots,      \* entries of the page table: pi_max_atoms >> pi_shift
    MaxIndex,   \* entries of the index
    ByteValues, \* values of a byte; also PA_SHORT_STRINGS_MAX
    Word,       \* values of an atom number (2^32)
    Lengths,    \* lengths of the strings that callers store
    ShortBytes, \* one-byte strings that callers store (0: the empty string)
    MaxOpens    \* bound of the model on how often the table is opened

\* What the constants are.
IstrAssumption ==
    /\ {AtomBytes, PerPage, Slots, ByteValues, Word} \subseteq Nat \ {0}
    /\ {MaxIndex, MaxOpens} \subseteq Nat
    /\ Lengths \subseteq Nat \ {0, 1}
    /\ ShortBytes \subseteq 0 .. (ByteValues - 1)

VARIABLES
    handle, \* "closed", "open", or "nobase": without page table
    opens,  \* how often the table was opened
    block,  \* sizes, in atoms, of the blocks of string data
    page,   \* the page table: for every slot a block, or 0
    pi_free,
    pi_left,
    text,   \* the strings in memory: block, offset, atoms, length
    index,  \* the data atom of every index entry
    given   \* the atoms callers hold, and what they stand for

istrVars == <<handle, opens, block, page, pi_free, pi_left, text, index, given>>

PA_SHORT_STRINGS_MAX == ByteValues

MaxAtoms == Slots * PerPage

\* Strings that are alike but for their length; a short one by its byte.
Text(len) == <<"long", len>>

Short(byte) == <<"short", byte>>

Unread == <<"none", 0>>

-----------------------------------------------------------------------------
(* Addresses *)

\* pa_istr_data_atom_addr: the block and offset of a data atom.
DataHasAddr(atom) ==
    /\ handle = "open" /\ atom # NullAtom /\ atom < MaxAtoms
    /\ page[atom \div PerPage] # 0

DataAt(atom) == [block |-> page[atom \div PerPage], off |-> atom % PerPage]

\* Strings are written where they will be found: at the start of their atoms.
ReadData(atom) ==
    IF ~DataHasAddr(atom) THEN Unread
    ELSE LET here == {t \in text : /\ t.block = DataAt(atom).block
                                   /\ t.off = DataAt(atom).off}
         IN  IF here = {} THEN Unread ELSE Text((CHOOSE t \in here : TRUE).len)

\* pa_short_string_atom: a char is signed, an atom is not.
pa_short_string_atom(byte) ==
    (1 + (IF byte >= ByteValues \div 2 THEN byte - ByteValues ELSE byte)) % Word

\* pa_istr_atom_string
pa_istr_atom_string(iatom) ==
    LET entry == iatom - PA_SHORT_STRINGS_MAX IN
    IF iatom = NullAtom THEN Unread
    ELSE IF iatom < PA_SHORT_STRINGS_MAX THEN Short(iatom - 1)
    ELSE IF entry \in 1 .. Len(index) THEN ReadData(index[entry])
    ELSE Unread

-----------------------------------------------------------------------------
(* Storing a string *)

\* Wrong: the numbers of the short strings are not skipped.
ToIndexUnskipped(atom, len) ==
    /\ Len(index) < MaxIndex
    /\ index' = Append(index, atom)
    /\ given' = Append(given, <<Len(index) + 1, Text(len)>>)

\* pa_istr_atom_to_index: an entry for atom, unless the index is full or its
\* next page cannot be had.
ToIndex(atom, len) ==
    \/ /\ Len(index) < MaxIndex
       /\ index' = Append(index, atom)
       /\ given' = Append(given, <<Len(index) + 1 + PA_SHORT_STRINGS_MAX, Text(len)>>)
    \/ UNCHANGED <<index, given>>

Written(atom, len) ==
    IF DataHasAddr(atom)
    THEN text \cup {[block |-> DataAt(atom).block, off |-> DataAt(atom).off,
                     atoms |-> pa_items(len + 1, AtomBytes), len |-> len]}
    ELSE text

StoreShort(byte) ==
    /\ given' = IF pa_short_string_atom(byte) = NullAtom THEN given
                ELSE Append(given, <<pa_short_string_atom(byte), Short(byte)>>)
    /\ UNCHANGED <<block, page, pi_free, pi_left, text, index>>

\* Wrong: what is left is not reduced.
StoreInPageUncounted(len) ==
    LET atom == pi_free + pi_left - pa_items(len + 1, AtomBytes) IN
    /\ pa_items(len + 1, AtomBytes) <= pi_left
    /\ text' = Written(atom, len)
    /\ ToIndex(atom, len)
    /\ UNCHANGED <<block, page, pi_free, pi_left>>

\* "Easy case": the string goes to the end of what is left of the page.
StoreInPage(len) ==
    LET count == pa_items(len + 1, AtomBytes)
        atom == pi_free + pi_left - count
    IN
    /\ count <= pi_left
    /\ pi_left' = pi_left - count
    /\ text' = Written(atom, len)
    /\ ToIndex(atom, len)
    /\ UNCHANGED <<block, page, pi_free>>

FreeSlots == {s \in 1 .. (Slots - 1) : page[s] = 0}

\* Wrong: a string of several pages also leaves its remainder.
StoreInNewKeepTail(len) ==
    LET count == pa_items(len + 1, AtomBytes)
        size == pa_roundup(count, PerPage)
        new == Len(block) + 1
    IN
    /\ count > pi_left
    /\ \E s \in FreeSlots :
          /\ \A r \in FreeSlots : s <= r
          /\ block' = Append(block, size)
          /\ page' = [page EXCEPT ![s] = new]
          /\ pi_left' = size - count
          /\ pi_free' = s * PerPage + count
          /\ text' = text \cup {[block |-> new, off |-> 0, atoms |-> count, len |-> len]}
          /\ ToIndex(s * PerPage, len)

\* pa_istr_nstring_alloc: the string gets pages of its own.  What is left of
\* a single page is used for later strings, and what was left before is
\* forgotten.
StoreInNew(len) ==
    LET count == pa_items(len + 1, AtomBytes)
        size == pa_roundup(count, PerPage)
        new == Len(block) + 1
    IN
    /\ count > pi_left
    /\ \E s \in FreeSlots :
          /\ \A r \in FreeSlots : s <= r
          /\ block' = Append(block, size)
          /\ page' = [page EXCEPT ![s] = new]
          /\ IF size <= PerPage /\ count < size
             THEN pi_left' = PerPage - count /\ pi_free' = s * PerPage + count
             ELSE UNCHANGED <<pi_left, pi_free>>
          /\ text' = text \cup {[block |-> new, off |-> 0, atoms |-> count, len |-> len]}
          /\ ToIndex(s * PerPage, len)

\* No slot, or no pages.
StoreNothing(len) ==
    /\ pa_items(len + 1, AtomBytes) > pi_left
    /\ UNCHANGED <<block, page, pi_free, pi_left, text, index, given>>

\* pa_istr_nstring.  A handle without page table gets as far as the index if
\* an earlier process left something in pi_left; otherwise it stops at a
\* pi_max_atoms of zero, or, if an earlier process set that, dies.
pa_istr_nstring(len) ==
    /\ handle # "closed"
    /\ \/ StoreInPage(len) /\ UNCHANGED handle
       \/ handle = "open" /\ StoreInNew(len) /\ UNCHANGED handle
       \/ /\ StoreNothing(len)
          /\ \/ UNCHANGED handle
             \/ handle = "nobase" /\ opens > 1 /\ handle' = "closed"
    /\ UNCHANGED opens

pa_istr_nshort(byte) ==
    /\ handle # "closed"
    /\ StoreShort(byte)
    /\ UNCHANGED <<handle, opens>>

-----------------------------------------------------------------------------
\* pa_istr_open: page table and index are new in every handle, pi_left is not.
pa_istr_open ==
    /\ handle = "closed" /\ opens < MaxOpens
    /\ opens' = opens + 1
    /\ \/ /\ handle' = "open"
          /\ page' = [s \in 0 .. (Slots - 1) |-> 0]
          /\ pi_free' = NullAtom
       \/ /\ handle' = "nobase"
          /\ UNCHANGED <<page, pi_free>>
    /\ index' = <<>> /\ given' = <<>>
    /\ UNCHANGED <<block, pi_left, text>>

\* pa_istr_close, or the end of the process.
pa_istr_close ==
    /\ handle # "closed"
    /\ handle' = "closed"
    /\ UNCHANGED <<opens, block, page, pi_free, pi_left, text, index, given>>

Init ==
    /\ handle = "closed" /\ opens = 0
    /\ block = <<>> /\ page = [s \in 0 .. (Slots - 1) |-> 0]
    /\ pi_free = NullAtom /\ pi_left = 0
    /\ text = {} /\ index = <<>> /\ given = <<>>

Next ==
    \/ \E len \in Lengths : pa_istr_nstring(len)
    \/ \E byte \in ShortBytes : Len(given) < MaxIndex /\ pa_istr_nshort(byte)
    \/ pa_istr_open
    \/ pa_istr_close

Spec == Init /\ [][Next]_istrVars

-----------------------------------------------------------------------------
(* Properties *)

\* The types of page table, remainder and index; what is left of a page is
\* always less than a page.
TypeOK ==
    /\ handle \in {"closed", "open", "nobase"} /\ opens \in 0 .. MaxOpens
    /\ \A b \in DOMAIN block : block[b] \in Nat \ {0}
    /\ page \in [0 .. (Slots - 1) -> 0 .. Len(block)]
    /\ pi_free \in 0 .. (MaxAtoms - 1) /\ pi_left \in 0 .. (PerPage - 1)
    /\ \A i \in DOMAIN index : index[i] \in 0 .. (MaxAtoms - 1)

\* Every string lies inside its block, and no string is written over another
\* or into what is left for later ones.
StringsApart ==
    /\ \A t \in text : t.off + t.atoms <= block[t.block]
    /\ \A t, u \in text : t = u \/ t.block # u.block
                            \/ t.off + t.atoms <= u.off \/ u.off + u.atoms <= t.off
    /\ (handle = "open" /\ DataHasAddr(pi_free)) =>
          LET f == DataAt(pi_free) IN
          /\ f.off + pi_left <= block[f.block]
          /\ \A t \in text : t.block = f.block =>
                t.off + t.atoms <= f.off \/ f.off + pi_left <= t.off

\* Every atom that callers were given reads back as the string they stored,
\* however many were stored since.
ReadsBack ==
    handle # "closed" =>
        \A i \in DOMAIN given : pa_istr_atom_string(given[i][1]) = given[i][2]

\* Different strings have different atoms.
AtomsTellApart ==
    \A i, j \in DOMAIN given : given[i][1] = given[j][1] => given[i][2] = given[j][2]

\* Strings stay what and where they were stored, whatever is stored after them
\* and whichever of pages and index fails (pa_istr_string).
StringsKept == TypeOK /\ StringsApart /\ ReadsBack /\ AtomsTellApart
=============================================================================
