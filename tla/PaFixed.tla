------------------------------ MODULE PaFixed ------------------------------
(***************************************************************************)
(* The paged array of fixed-size atoms (parrotdb/pafixed.h, pafixed.c).    *)
(*                                                                         *)
(* A page table maps page numbers to pages of PerPage atoms; a page is     *)
(* taken from the page allocator when an atom of it is first needed.  The  *)
(* idle atoms are chained through their own first word, and the last atom  *)
(* of the youngest page points to the first atom of a page that does not   *)
(* exist yet.  The same table also serves as a plain array, whose elements *)
(* are addressed by number and never allocated (style "array").            *)
(*                                                                         *)
(* Callers overwrite the first word of the atoms they hold, and the page   *)
(* allocator may fail.                                                     *)
(***************************************************************************)
EXTENDS PaCommon, FiniteSets

CONSTANTS
    PerPage,    \* 1 << pf_shift
    AskedAtoms  \* the max_atoms argument (or "max-atoms" configuration value)

ASSUME FixedAssumption ==
    /\ PerPage \in Nat \ {0}
    /\ AskedAtoms \in Nat \ {0, 1}

VARIABLES
    style,   \* "list": pa_fixed_alloc_atom; "array": pa_fixed_element
    handle,  \* pa_fixed_t: closed, open, or without a page table
    zero,    \* PFF_INIT_ZERO
    table,   \* the pages that the page table maps
    word,    \* the first word of every atom
    pf_free, \* pfi_free
    used     \* the atoms callers hold

fixedVars == <<style, handle, zero, table, word, pf_free, used>>

\* pf_max_atoms: rounded up to whole pages.
MaxAtoms == pa_roundup(AskedAtoms, PerPage)

Atoms == 0 .. (MaxAtoms - 1)

PageNumbers == 0 .. ((MaxAtoms \div PerPage) - 1)

PageOf(atom) == atom \div PerPage

\* What an earlier user of the memory left there, and what a caller stores.
Junk == -1

Data == -2

\* pa_fixed_atom_addr finds an address.
HasAddr(atom) == atom # NullAtom /\ atom < MaxAtoms /\ PageOf(atom) \in table

-----------------------------------------------------------------------------
(* Pages *)

\* next is the first atom of the first page after page that the table lacks,
\* and null if there is none.
NextFresh(page, next) ==
    LET missing == {q \in PageNumbers : q > page /\ q \notin table}
    IN  \/ missing = {} /\ next = NullAtom
        \/ /\ next % PerPage = 0 /\ PageOf(next) \in missing
           /\ \A q \in missing : PageOf(next) <= q

\* Wrong: the chain through a new page stops at its last atom.
NewPageWordsShort(page, next) ==
    [a \in Atoms |->
        IF PageOf(a) # page THEN word[a]
        ELSE IF PageOf(a + 1) = page THEN a + 1
        ELSE NullAtom]

\* pa_fixed_alloc_setup_page: the words after the page is chained up.
NewPageWords(page, next) ==
    [a \in Atoms |->
        IF PageOf(a) # page THEN word[a]
        ELSE IF PageOf(a + 1) = page THEN a + 1
        ELSE next]

-----------------------------------------------------------------------------
(* The free list *)

\* Wrong: the successor is read before the page was chained up.
PopStale(w) ==
    /\ pf_free' = word[pf_free]
    /\ word' = IF zero THEN [w EXCEPT ![pf_free] = 0] ELSE w
    /\ used' = used \cup {pf_free}

\* The atom at the head is handed out; w are the words at that time.
Pop(w) ==
    /\ pf_free' = w[pf_free]
    /\ word' = IF zero THEN [w EXCEPT ![pf_free] = 0] ELSE w
    /\ used' = used \cup {pf_free}

\* pa_fixed_alloc_atom, by whether there is an idle atom, whether its page
\* exists and whether a page could be had.
pa_fixed_alloc_atom ==
    /\ style = "list" /\ handle # "closed"
    /\ \/ /\ handle = "nobase" \/ pf_free = NullAtom
          /\ UNCHANGED <<table, word, pf_free, used>>
       \/ /\ handle = "open" /\ pf_free # NullAtom /\ HasAddr(pf_free)
          /\ Pop(word)
          /\ UNCHANGED table
       \/ /\ handle = "open" /\ pf_free # NullAtom /\ ~HasAddr(pf_free)
          /\ \/ UNCHANGED <<table, word, pf_free, used>>
             \/ /\ table' = table \cup {PageOf(pf_free)}
                /\ \E next \in Atoms :
                      /\ NextFresh(PageOf(pf_free), next)
                      /\ Pop(NewPageWords(PageOf(pf_free), next))
    /\ UNCHANGED <<style, handle, zero>>

\* Wrong: the atom becomes the head and is not linked to the old one.
FreeUnlinked(atom) ==
    /\ style = "list" /\ handle = "open"
    /\ atom \in used
    /\ pf_free' = atom
    /\ used' = used \ {atom}
    /\ UNCHANGED <<style, handle, zero, table, word>>

\* pa_fixed_free_atom of an atom that the caller holds.
pa_fixed_free_atom(atom) ==
    /\ style = "list" /\ handle = "open"
    /\ atom \in used
    /\ IF HasAddr(atom)
       THEN /\ word' = [word EXCEPT ![atom] = pf_free]
            /\ pf_free' = atom
       ELSE UNCHANGED <<word, pf_free>>
    /\ used' = used \ {atom}
    /\ UNCHANGED <<style, handle, zero, table>>

\* A caller stores into an atom it holds (in an array: one whose address it
\* was given).
Store(atom) ==
    /\ handle = "open"
    /\ atom \in used
    /\ word' = [word EXCEPT ![atom] = Data]
    /\ UNCHANGED <<style, handle, zero, table, pf_free, used>>

-----------------------------------------------------------------------------
(* The array *)

\* pa_fixed_element_setup_page: a new page is cleared if the table asks for
\* it, and holds anything otherwise.
NewElements(page) ==
    [a \in Atoms |-> IF PageOf(a) # page THEN word[a]
                     ELSE IF zero THEN 0 ELSE Junk]

\* Wrong: the page is made without looking whether there is one.
ElementAnew(num) ==
    /\ style = "array" /\ handle # "closed"
    /\ \/ UNCHANGED <<table, word, used>>
       \/ /\ handle = "open"
          /\ table' = table \cup {PageOf(num)}
          /\ word' = NewElements(PageOf(num))
          /\ used' = used \cup {num}
    /\ UNCHANGED <<style, handle, zero, pf_free>>

\* pa_fixed_element: the address of an element, whose page is made if need
\* be.  A handle without page table has no page allocator either (pa_fixed_init
\* returned before it set pf_mmap), and the process dies here.
pa_fixed_element(num) ==
    /\ style = "array" /\ handle # "closed"
    /\ \/ /\ handle = "nobase" /\ handle' = "closed"
          /\ UNCHANGED <<table, word, used>>
       \/ /\ handle = "open" /\ HasAddr(num)
          /\ used' = used \cup {num}
          /\ UNCHANGED <<handle, table, word>>
       \/ /\ handle = "open" /\ ~HasAddr(num)
          /\ \/ UNCHANGED <<table, word, used>>
             \/ /\ table' = table \cup {PageOf(num)}
                /\ word' = NewElements(PageOf(num))
                /\ used' = used \cup {num}
          /\ UNCHANGED handle
    /\ UNCHANGED <<style, zero, pf_free>>

-----------------------------------------------------------------------------
(* Open and close *)

\* pa_fixed_open: the handle is new, so pf_base is NULL and pa_fixed_init
\* makes an empty page table, also when the header was there before.  Without
\* a page for the table the handle stays without one.
pa_fixed_open ==
    /\ handle = "closed"
    /\ \/ /\ handle' = "open"
          /\ table' = {}
          /\ word' = [a \in Atoms |-> Junk]
          /\ pf_free' = 1
          /\ used' = {}
       \/ /\ handle' = "nobase"
          /\ UNCHANGED <<table, word, pf_free, used>>
    /\ UNCHANGED <<style, zero>>

pa_fixed_set_flags ==
    /\ handle # "closed"
    /\ zero' = TRUE
    /\ UNCHANGED <<style, handle, table, word, pf_free, used>>

pa_fixed_clear_flags ==
    /\ handle # "closed"
    /\ zero' = FALSE
    /\ UNCHANGED <<style, handle, table, word, pf_free, used>>

\* pa_fixed_close, or the end of the process: the segment stays.
pa_fixed_close ==
    /\ handle # "closed"
    /\ handle' = "closed"
    /\ UNCHANGED <<style, zero, table, word, pf_free, used>>

-----------------------------------------------------------------------------
Init ==
    /\ style \in {"list", "array"}
    /\ handle = "closed"
    /\ zero = FALSE
    /\ table = {} /\ word = [a \in Atoms |-> Junk]
    /\ pf_free = NullAtom
    /\ used = {}

Next ==
    \/ pa_fixed_alloc_atom
    \/ \E atom \in Atoms : pa_fixed_free_atom(atom)
    \/ \E atom \in Atoms : Store(atom)
    \/ \E num \in Atoms \ {0} : pa_fixed_element(num)
    \/ pa_fixed_open
    \/ pa_fixed_set_flags
    \/ pa_fixed_clear_flags
    \/ pa_fixed_close

Spec == Init /\ [][Next]_fixedVars

-----------------------------------------------------------------------------
(* Properties *)

\* The state of the handle, the page table and the words; in particular the
\* head that pa_fixed_alloc_atom follows is always an atom of the table.
TypeOK ==
    /\ style \in {"list", "array"}
    /\ handle \in {"closed", "open", "nobase"}
    /\ zero \in BOOLEAN
    /\ table \subseteq PageNumbers
    /\ word \in [Atoms -> Atoms \cup {Junk, Data}]
    /\ pf_free \in Atoms
    /\ used \subseteq Atoms \ {0}

Idle == {a \in Atoms \ {0} : PageOf(a) \in table /\ a \notin used}

\* The first atoms of the pages that do not exist yet.
Fresh == {a \in Atoms \ {0} : PageOf(a) \notin table /\ (a % PerPage = 0 \/ a = 1)}

\* The chain can only lead to atoms that may be handed out, and to each from
\* one place: the head and the word of every idle atom is 0, an idle atom or
\* the first atom of a page still to come, no two of them are the same atom,
\* and only one leads to a page still to come.  So no atom is handed out twice
\* and no release makes the chain merge with itself, whatever callers store in
\* the atoms they hold.
ChainSound ==
    style = "list" =>
        /\ \A a \in Idle : word[a] \in {NullAtom} \cup Idle \cup Fresh
        /\ pf_free \in {NullAtom} \cup Idle \cup Fresh
        /\ \A a \in Idle : word[a] = pf_free => pf_free = NullAtom
        /\ \A a, b \in Idle : word[a] = word[b] => a = b \/ word[a] = NullAtom
        /\ \A a \in Idle : word[a] \in Fresh => pf_free \notin Fresh
        /\ \A a, b \in Idle : word[a] \in Fresh /\ word[b] \in Fresh => a = b
        /\ \A a \in used : PageOf(a) \in table

\* The atoms reached from the head in at most n steps.
Reach(n) ==
    LET reach[i \in 0 .. n] ==
            IF i = 0 THEN {pf_free}
            ELSE reach[i - 1] \cup {word[a] : a \in reach[i - 1] \cap Idle}
    IN  reach[n]

\* No atom is lost: every idle atom is on the chain, and so is a page still to
\* come, if there is one.  In particular pa_fixed_alloc_atom reports that
\* nothing is available only when every atom is held by a caller.
NothingLost ==
    (style = "list" /\ handle = "open") =>
        LET reached == Reach(MaxAtoms) IN
        /\ Idle \subseteq reached
        /\ Fresh # {} => reached \cap Fresh # {}
        /\ pf_free = NullAtom => used = Atoms \ {0}

\* An element of the array keeps what was stored in it, whichever other
\* elements are asked for in between, until the table is opened again.
ElementsKept ==
    [][\A a \in Atoms :
          (style = "array" /\ handle' = handle /\ word[a] = Data)
             => word'[a] = Data]_fixedVars

\* The inductive invariant.
IndInv == TypeOK /\ ChainSound

\* The atoms in use when a table was closed are in use when it is open again.
Persistent ==
    [][(handle = "closed" /\ handle' = "open") => used \subseteq used']_fixedVars
=============================================================================
