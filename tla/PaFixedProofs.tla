--------------------------- MODULE PaFixedProofs ---------------------------
(***************************************************************************)
(* Proofs about PaFixed for every page size and number of atoms.           *)
(***************************************************************************)
EXTENDS PaFixed, ProofFacts, FiniteSetTheorems

-----------------------------------------------------------------------------
(* Atoms and pages *)

\* An atom lies between the first of its page and the first of the next one.
LEMMA Pageful ==
    ASSUME NEW n \in Nat, NEW m \in Nat \ {0}
    PROVE  /\ n \div m \in Nat
           /\ m * (n \div m) <= n /\ n < m * (n \div m) + m
  <1> DEFINE q == n \div m
             r == n % m
  <1>1. q \in Nat /\ r \in 0 .. (m - 1) /\ n = m * q + r
    BY DivisionFacts
  <1> HIDE DEF q, r
  <1>2. m * q \in Nat
    BY <1>1
  <1> QED
    BY <1>1, <1>2 DEF q

LEMMA MaxAtomsFacts ==
    /\ MaxAtoms \in Nat /\ MaxAtoms >= 2
    /\ MaxAtoms = PerPage * (MaxAtoms \div PerPage)
    /\ MaxAtoms \div PerPage \in Nat
  <1> DEFINE k == (AskedAtoms + PerPage - 1) \div PerPage
  <1>1. /\ PerPage \in Nat \ {0} /\ AskedAtoms \in Nat \ {0, 1}
        /\ AskedAtoms + PerPage - 1 \in Nat
    BY FixedAssumption
  <1>2. k \in Nat /\ PerPage * k >= AskedAtoms
    BY <1>1, DivisionFacts
  <1>3. MaxAtoms = k * PerPage
    BY DEF MaxAtoms, pa_roundup
  <1> HIDE DEF k
  <1>4. k * PerPage \in Nat /\ k * PerPage = PerPage * k
    BY <1>1, <1>2
  <1>5. (k * PerPage) \div PerPage = k
    BY <1>1, <1>2
  <1> QED
    BY <1>1, <1>2, <1>3, <1>4, <1>5

\* An atom whose page exists in the table's range is in the range itself.
LEMMA AtomInRange ==
    ASSUME NEW a \in Nat, PageOf(a) \in PageNumbers
    PROVE  a \in Atoms
  <1> DEFINE k == MaxAtoms \div PerPage
             q == a \div PerPage
  <1>1. /\ PerPage \in Nat \ {0} /\ k \in Nat /\ q \in Nat
        /\ MaxAtoms = PerPage * k /\ MaxAtoms \in Nat
        /\ a < PerPage * q + PerPage
    BY FixedAssumption, MaxAtomsFacts, DivisionFacts
  <1>2. q + 1 <= k
    BY <1>1 DEF PageOf, PageNumbers
  <1> HIDE DEF k, q
  <1>3. PerPage * (q + 1) <= PerPage * k
    BY <1>1, <1>2
  <1>4. PerPage * (q + 1) = PerPage * q + PerPage
    BY <1>1
  <1> QED
    BY <1>1, <1>3, <1>4 DEF Atoms

\* Every atom's page is in the table's range.
LEMMA PageInRange ==
    ASSUME NEW a \in Atoms
    PROVE  PageOf(a) \in PageNumbers
  <1> DEFINE k == MaxAtoms \div PerPage
             q == a \div PerPage
  <1>1. /\ PerPage \in Nat \ {0} /\ k \in Nat /\ q \in Nat /\ a \in Nat
        /\ MaxAtoms = PerPage * k /\ a < MaxAtoms /\ PerPage * q <= a
    BY FixedAssumption, MaxAtomsFacts, DivisionFacts DEF Atoms
  <1> HIDE DEF k, q
  <1>2. ~ (k <= q)
    <2> SUFFICES ASSUME k <= q PROVE FALSE
      OBVIOUS
    <2>1. PerPage * k <= PerPage * q
      BY <1>1
    <2> QED
      BY <1>1, <2>1
  <1> QED
    BY <1>1, <1>2 DEF PageOf, PageNumbers, k, q

\* The successor of an atom inside its page is not the first of a page.
LEMMA NotFirst ==
    ASSUME NEW a \in Nat, PageOf(a + 1) = PageOf(a)
    PROVE  (a + 1) % PerPage # 0
  <1> DEFINE q == a \div PerPage
             r == (a + 1) \div PerPage
             m == (a + 1) % PerPage
  <1>1. PerPage \in Nat \ {0} /\ a + 1 \in Nat
    BY FixedAssumption
  <1>2. q \in Nat /\ PerPage * q <= a
    BY <1>1, Pageful
  <1>3. a + 1 = PerPage * r + m /\ m \in Nat
    BY <1>1, DivisionFacts
  <1>4. r = q
    BY DEF PageOf
  <1> HIDE DEF q, r
  <1>5. a + 1 = PerPage * q + m
    BY <1>3, <1>4
  <1> HIDE DEF m
  <1>6. PerPage * q \in Nat
    BY <1>1, <1>2
  <1>7. m # 0
    BY <1>2, <1>3, <1>5, <1>6
  <1> QED
    BY <1>7 DEF m

LEMMA PageType ==
    ASSUME NEW a \in Nat
    PROVE  PageOf(a) \in Nat
  BY FixedAssumption, Pageful DEF PageOf

LEMMA PageMonotone ==
    ASSUME NEW a \in Nat, NEW b \in Nat, a <= b
    PROVE  PageOf(a) <= PageOf(b)
  <1> DEFINE q == a \div PerPage
             r == b \div PerPage
  <1>1. /\ PerPage \in Nat \ {0} /\ q \in Nat /\ r \in Nat
        /\ PerPage * q <= a /\ b < PerPage * r + PerPage
    BY FixedAssumption, Pageful
  <1> HIDE DEF q, r
  <1>2. ~ (r + 1 <= q)
    <2> SUFFICES ASSUME r + 1 <= q PROVE FALSE
      OBVIOUS
    <2>1. PerPage * (r + 1) <= PerPage * q
      BY <1>1
    <2>2. PerPage * (r + 1) = PerPage * r + PerPage
      BY <1>1
    <2>3. PerPage * r \in Nat /\ PerPage * q \in Nat
      BY <1>1
    <2> QED
      BY <1>1, <2>1, <2>2, <2>3
  <1> QED
    BY <1>1, <1>2 DEF PageOf, q, r

\* A page has one last atom.
LEMMA LastUnique ==
    ASSUME NEW a \in Nat, NEW b \in Nat, PageOf(a) = PageOf(b),
           PageOf(a + 1) # PageOf(a), PageOf(b + 1) # PageOf(b)
    PROVE  a = b
  <1>0. /\ PageOf(a) \in Nat /\ PageOf(b) \in Nat
        /\ PageOf(a + 1) \in Nat /\ PageOf(b + 1) \in Nat
    BY PageType
  <1>1. CASE a < b
    <2>1. PageOf(a) <= PageOf(a + 1) /\ PageOf(a + 1) <= PageOf(b)
      BY <1>1, PageMonotone
    <2> QED
      BY <1>0, <2>1
  <1>2. CASE b < a
    <2>1. PageOf(b) <= PageOf(b + 1) /\ PageOf(b + 1) <= PageOf(a)
      BY <1>2, PageMonotone
    <2> QED
      BY <1>0, <2>1
  <1> QED
    BY <1>1, <1>2

-----------------------------------------------------------------------------
(* The invariant is inductive *)

LEMMA InitInd == Init => IndInv
  <1> SUFFICES ASSUME Init PROVE IndInv
    OBVIOUS
  <1>1. 0 \in Atoms
    BY MaxAtomsFacts DEF Atoms
  <1>2. TypeOK
    BY <1>1 DEF Init, TypeOK, NullAtom
  <1>3. ChainSound
    BY DEF Init, ChainSound, Idle
  <1> QED
    BY <1>2, <1>3 DEF IndInv

\* Handing out the head when its page exists.
LEMMA PopInd ==
    ASSUME IndInv, style = "list", handle = "open", pf_free # NullAtom,
           HasAddr(pf_free), Pop(word), UNCHANGED <<style, handle, zero, table>>
    PROVE  IndInv'
  <1>1. /\ pf_free \in Idle
        /\ pf_free' = word[pf_free]
        /\ used' = used \cup {pf_free}
        /\ word' = IF zero THEN [word EXCEPT ![pf_free] = 0] ELSE word
    BY DEF Pop, HasAddr, IndInv, ChainSound, Fresh
  <1>2. /\ word \in [Atoms -> Atoms \cup {Junk, Data}] /\ pf_free \in Atoms \ {0}
        /\ 0 \in Atoms
    BY MaxAtomsFacts DEF IndInv, TypeOK, NullAtom, Atoms
  <1>3. /\ Idle' = Idle \ {pf_free} /\ Fresh' = Fresh
        /\ \A a \in Idle' : word'[a] = word[a]
    BY <1>1, <1>2 DEF Idle, Fresh
  <1>4. word[pf_free] \in {NullAtom} \cup Idle \cup Fresh
    BY <1>1 DEF IndInv, ChainSound
  <1>5. word[pf_free] \in Atoms
    BY <1>2, <1>4 DEF NullAtom, Idle, Fresh
  <1>6. TypeOK'
    BY <1>1, <1>2, <1>5 DEF IndInv, TypeOK
  <1>7. ChainSound'
    <2>1. \A a \in Idle' : word'[a] \in {NullAtom} \cup Idle' \cup Fresh'
      BY <1>1, <1>3 DEF IndInv, ChainSound
    <2>2. pf_free' \in {NullAtom} \cup Idle' \cup Fresh'
      BY <1>1, <1>3, <1>4 DEF IndInv, ChainSound
    <2>3. \A a \in Idle' : word'[a] = pf_free' => pf_free' = NullAtom
      BY <1>1, <1>3 DEF IndInv, ChainSound
    <2>4. \A a, b \in Idle' : word'[a] = word'[b] => a = b \/ word'[a] = NullAtom
      BY <1>3 DEF IndInv, ChainSound
    <2>5. \A a \in Idle' : word'[a] \in Fresh' => pf_free' \notin Fresh'
      BY <1>1, <1>3 DEF IndInv, ChainSound
    <2>6. \A a, b \in Idle' : word'[a] \in Fresh' /\ word'[b] \in Fresh' => a = b
      BY <1>3 DEF IndInv, ChainSound
    <2>7. \A a \in used' : PageOf(a) \in table'
      BY <1>1 DEF IndInv, ChainSound, Idle
    <2> QED
      BY <2>1, <2>2, <2>3, <2>4, <2>5, <2>6, <2>7 DEF ChainSound
  <1> QED
    BY <1>6, <1>7 DEF IndInv

\* Handing out the head when its page has to be made first.
LEMMA SetupInd ==
    ASSUME IndInv, style = "list", handle = "open", pf_free # NullAtom,
           ~HasAddr(pf_free), NEW next \in Atoms,
           NextFresh(PageOf(pf_free), next),
           table' = table \cup {PageOf(pf_free)},
           Pop(NewPageWords(PageOf(pf_free), next)),
           UNCHANGED <<style, handle, zero>>
    PROVE  IndInv'
  <1> DEFINE p == PageOf(pf_free)
             w == NewPageWords(p, next)
  <1>1. /\ pf_free' = w[pf_free] /\ used' = used \cup {pf_free}
        /\ word' = IF zero THEN [w EXCEPT ![pf_free] = 0] ELSE w
        /\ table' = table \cup {p}
    BY DEF Pop
  <1>2. pf_free \in Fresh /\ pf_free \in Atoms \ {0} /\ p \notin table
    BY MaxAtomsFacts DEF IndInv, TypeOK, ChainSound, HasAddr, Idle, Fresh, NullAtom, Atoms
  <1>3. p \in PageNumbers
    BY <1>2, PageInRange
  <1>4. \A a \in Atoms : w[a] = IF PageOf(a) # p THEN word[a]
                                ELSE IF PageOf(a + 1) = p THEN a + 1 ELSE next
    BY DEF NewPageWords
  <1>5. \A a \in Atoms : PageOf(a + 1) = p => a + 1 \in Atoms
    BY <1>3, AtomInRange DEF Atoms
  <1>6. w \in [Atoms -> Atoms \cup {Junk, Data}]
    BY <1>4, <1>5 DEF NewPageWords, IndInv, TypeOK
  <1>7. next = NullAtom \/ (/\ next \in Fresh /\ PageOf(next) \in PageNumbers
                            /\ PageOf(next) > p /\ PageOf(next) # p)
    BY <1>3 DEF NextFresh, Fresh, NullAtom, PageNumbers
  <1> HIDE DEF w, p
  <1>8. w[pf_free] \in Atoms
    BY <1>2, <1>4, <1>5 DEF p
  <1>9. /\ \A a \in Idle' : a \in Atoms \ {0} /\ a # pf_free /\ word'[a] = w[a]
        /\ \A a \in Idle' : a \in Idle \/ PageOf(a) = p
        /\ \A a \in Idle : a \in Idle' /\ PageOf(a) # p
        /\ \A a \in Atoms \ {0} : PageOf(a) = p /\ a # pf_free => a \in Idle'
    BY <1>1, <1>2, <1>6 DEF Idle, IndInv, ChainSound
  <1>10. Fresh' = {a \in Fresh : PageOf(a) # p}
    BY <1>1 DEF Fresh
  <1>11. TypeOK'
    BY <1>1, <1>2, <1>3, <1>6, <1>8, MaxAtomsFacts DEF IndInv, TypeOK, Atoms
  <1>12. \A a \in Idle : /\ word[a] \in {NullAtom} \cup Idle
                          /\ word[a] \notin Fresh
    BY <1>2 DEF IndInv, ChainSound
  \* The new page: an atom leads to its neighbour or, the last one, to next.
  <1>13. ASSUME NEW a \in Atoms \ {0}, PageOf(a) = p
         PROVE  \/ /\ w[a] = a + 1 /\ w[a] # NullAtom
                   /\ w[a] \in Idle' /\ PageOf(w[a]) = p
                \/ /\ w[a] = next /\ PageOf(a + 1) # p
    <2>1. CASE PageOf(a + 1) = p
      <3>1. a \in Nat /\ a # 0 /\ a + 1 \in Atoms \ {0} /\ w[a] = a + 1
        BY <1>4, <1>5, <1>13, <2>1 DEF Atoms
      <3>2. (a + 1) % PerPage # 0
        BY <1>13, <2>1, <3>1, NotFirst
      <3>3. a + 1 # pf_free
        BY <1>2, <3>1, <3>2 DEF Fresh
      <3>4. a + 1 \in Idle'
        BY <1>9, <2>1, <3>1, <3>3
      <3> QED
        BY <2>1, <3>1, <3>4 DEF NullAtom
    <2>2. CASE PageOf(a + 1) # p
      BY <1>4, <1>13, <2>2
    <2> QED
      BY <2>1, <2>2
  <1>14. next \in {NullAtom} \cup Fresh'
    BY <1>7, <1>10
  <1>15. ASSUME NEW a \in Atoms \ {0}, NEW b \in Atoms \ {0},
                PageOf(a) = p, PageOf(b) = p, w[a] = w[b]
         PROVE  a = b \/ w[a] = NullAtom
    <2>1. a \in Nat /\ b \in Nat
      BY DEF Atoms
    <2>2. CASE w[a] = a + 1 /\ w[b] = b + 1
      <3>1. a + 1 = b + 1
        BY <1>15, <2>2
      <3> QED
        BY <2>1, <3>1
    <2>3. CASE PageOf(a + 1) # p /\ PageOf(b + 1) # p
      BY <1>15, <2>1, <2>3, LastUnique
    <2>4. CASE w[a] = next \/ w[b] = next
      BY <1>7, <1>13, <1>15, <2>3, <2>4
    <2> QED
      BY <1>13, <1>15, <2>2, <2>4
  <1>16. /\ PageOf(pf_free) = p /\ Idle \cap Fresh = {} /\ Idle' \cap Fresh' = {}
         /\ NullAtom \notin Fresh /\ NullAtom \notin Fresh'
    BY DEF p, Idle, Fresh, NullAtom
  \* A word of an old idle atom and one of the new page differ.
  <1>17. ASSUME NEW a \in Idle, NEW b \in Atoms \ {0}, PageOf(b) = p,
                word[a] = w[b]
         PROVE  w[b] = NullAtom
    BY <1>7, <1>9, <1>12, <1>13, <1>16, <1>17
  <1>18. \A a \in Idle' : (a \in Idle /\ w[a] = word[a] /\ PageOf(a) # p)
                           \/ (a \in Atoms \ {0} /\ PageOf(a) = p)
    BY <1>4, <1>9
  <1>19. ChainSound'
    <2>1. \A a \in Idle' : word'[a] \in {NullAtom} \cup Idle' \cup Fresh'
      BY <1>9, <1>12, <1>13, <1>14, <1>18
    <2>2. pf_free' \in {NullAtom} \cup Idle' \cup Fresh'
      BY <1>1, <1>2, <1>13, <1>14, <1>16
    <2>3. \A a \in Idle' : word'[a] = pf_free' => pf_free' = NullAtom
      BY <1>1, <1>2, <1>9, <1>15, <1>16, <1>17, <1>18
    <2>4. \A a, b \in Idle' : word'[a] = word'[b] => a = b \/ word'[a] = NullAtom
      <3> SUFFICES ASSUME NEW a \in Idle', NEW b \in Idle', word'[a] = word'[b]
                   PROVE  a = b \/ word'[a] = NullAtom
        OBVIOUS
      <3>1. w[a] = w[b] /\ word'[a] = w[a]
        BY <1>9
      <3>2. CASE a \in Idle /\ b \in Idle
        BY <1>9, <1>18, <3>1, <3>2 DEF IndInv, ChainSound
      <3> QED
        BY <1>15, <1>17, <1>18, <3>1, <3>2
    <2>5. \A a \in Idle' : word'[a] \in Fresh' => a \notin Idle /\ w[a] = next
                                                 /\ PageOf(a + 1) # p
      BY <1>9, <1>10, <1>12, <1>13, <1>16, <1>18
    <2>6. pf_free' \in Fresh' => w[pf_free] = next /\ PageOf(pf_free + 1) # p
      BY <1>1, <1>2, <1>13, <1>16
    <2>7. \A a \in Idle' : word'[a] \in Fresh' => pf_free' \notin Fresh'
      BY <1>1, <1>2, <1>9, <1>15, <1>16, <1>18, <2>5, <2>6
    <2>8. \A a, b \in Idle' : word'[a] \in Fresh' /\ word'[b] \in Fresh' => a = b
      BY <1>9, <1>15, <1>16, <1>18, <2>5
    <2>9. \A a \in used' : PageOf(a) \in table'
      BY <1>1, <1>16 DEF IndInv, ChainSound
    <2> QED
      BY <2>1, <2>2, <2>3, <2>4, <2>7, <2>8, <2>9 DEF ChainSound
  <1> QED
    BY <1>11, <1>19 DEF IndInv

\* A release puts the atom in front of the chain.
LEMMA FreeInd ==
    ASSUME IndInv, NEW atom \in Atoms, pa_fixed_free_atom(atom)
    PROVE  IndInv'
  <1>1. /\ style = "list" /\ atom \in used /\ used' = used \ {atom}
        /\ UNCHANGED <<style, handle, zero, table>>
    BY DEF pa_fixed_free_atom
  <1>2. atom # 0 /\ PageOf(atom) \in table
    BY <1>1 DEF IndInv, TypeOK, ChainSound
  <1>3. HasAddr(atom)
    BY <1>2, MaxAtomsFacts DEF HasAddr, NullAtom, Atoms
  <1>4. word' = [word EXCEPT ![atom] = pf_free] /\ pf_free' = atom
    BY <1>3 DEF pa_fixed_free_atom
  <1>5. /\ word \in [Atoms -> Atoms \cup {Junk, Data}] /\ pf_free \in Atoms
        /\ word'[atom] = pf_free
    BY <1>4 DEF IndInv, TypeOK
  <1>6. /\ Idle' = Idle \cup {atom} /\ Fresh' = Fresh
        /\ atom \notin Idle /\ atom \notin Fresh
        /\ \A a \in Idle : word'[a] = word[a]
    BY <1>1, <1>2, <1>4, <1>5 DEF Idle, Fresh
  <1>7. TypeOK'
    BY <1>1, <1>4, <1>5 DEF IndInv, TypeOK
  <1>8. /\ \A a \in Idle : word[a] \in {NullAtom} \cup Idle \cup Fresh
        /\ pf_free \in {NullAtom} \cup Idle \cup Fresh
        /\ \A a \in Idle : word[a] = pf_free => pf_free = NullAtom
        /\ \A a, b \in Idle : word[a] = word[b] => a = b \/ word[a] = NullAtom
        /\ \A a \in Idle : word[a] \in Fresh => pf_free \notin Fresh
        /\ \A a, b \in Idle : word[a] \in Fresh /\ word[b] \in Fresh => a = b
        /\ \A a \in used : PageOf(a) \in table
    BY <1>1 DEF IndInv, ChainSound
  <1>9. ChainSound'
    <2>1. /\ \A a \in Idle' : word'[a] \in {NullAtom} \cup Idle' \cup Fresh'
          /\ pf_free' \in {NullAtom} \cup Idle' \cup Fresh'
      BY <1>4, <1>5, <1>6, <1>8
    <2>2. \A a \in Idle' : word'[a] = pf_free' => pf_free' = NullAtom
      BY <1>2, <1>4, <1>5, <1>6, <1>8 DEF NullAtom
    <2>3. \A a, b \in Idle' : word'[a] = word'[b] => a = b \/ word'[a] = NullAtom
      BY <1>5, <1>6, <1>8
    <2>4. \A a \in Idle' : word'[a] \in Fresh' => pf_free' \notin Fresh'
      BY <1>4, <1>6
    <2>5. \A a, b \in Idle' : word'[a] \in Fresh' /\ word'[b] \in Fresh' => a = b
      BY <1>5, <1>6, <1>8
    <2>6. \A a \in used' : PageOf(a) \in table'
      BY <1>1, <1>8
    <2> QED
      BY <2>1, <2>2, <2>3, <2>4, <2>5, <2>6 DEF ChainSound
  <1> QED
    BY <1>7, <1>9 DEF IndInv

\* What callers store stays inside the atoms they hold.
LEMMA StoreInd ==
    ASSUME IndInv, NEW atom \in Atoms, Store(atom)
    PROVE  IndInv'
  <1>1. /\ atom \in used /\ word' = [word EXCEPT ![atom] = Data]
        /\ UNCHANGED <<style, handle, zero, table, pf_free, used>>
    BY DEF Store
  <1>2. TypeOK'
    BY <1>1 DEF IndInv, TypeOK
  <1>3. /\ Idle' = Idle /\ Fresh' = Fresh
        /\ \A a \in Idle : word'[a] = word[a]
    BY <1>1 DEF Idle, Fresh, IndInv, TypeOK
  <1>4. ChainSound'
    BY <1>1, <1>3 DEF IndInv, ChainSound
  <1> QED
    BY <1>2, <1>4 DEF IndInv

LEMMA ElementInd ==
    ASSUME IndInv, NEW num \in Atoms \ {0}, pa_fixed_element(num)
    PROVE  IndInv'
  <1>1. /\ style = "array" /\ UNCHANGED <<style, zero, pf_free>>
        /\ handle' \in {handle, "closed"}
        /\ used' \in {used, used \cup {num}}
        /\ table' \in {table, table \cup {PageOf(num)}}
        /\ word' \in {word, NewElements(PageOf(num))}
    BY DEF pa_fixed_element
  <1>2. PageOf(num) \in PageNumbers /\ 0 \in Atoms
    BY PageInRange, MaxAtomsFacts DEF Atoms
  <1>3. NewElements(PageOf(num)) \in [Atoms -> Atoms \cup {Junk, Data}]
    BY <1>2 DEF NewElements, IndInv, TypeOK
  <1>4. TypeOK'
    BY <1>1, <1>2, <1>3 DEF IndInv, TypeOK
  <1>5. ChainSound'
    BY <1>1 DEF ChainSound
  <1> QED
    BY <1>4, <1>5 DEF IndInv

LEMMA OpenInd == ASSUME IndInv, pa_fixed_open PROVE IndInv'
  <1>1. CASE /\ handle' = "open" /\ table' = {}
             /\ word' = [a \in Atoms |-> Junk]
             /\ pf_free' = 1 /\ used' = {}
             /\ UNCHANGED <<style, zero>>
    <2>1. 1 \in Atoms \ {0}
      BY MaxAtomsFacts DEF Atoms
    <2>2. TypeOK'
      BY <1>1, <2>1 DEF IndInv, TypeOK
    <2>3. Idle' = {} /\ 1 \in Fresh'
      BY <1>1, <2>1 DEF Idle, Fresh
    <2>4. ChainSound'
      BY <1>1, <2>3 DEF ChainSound
    <2> QED
      BY <2>2, <2>4 DEF IndInv
  <1>2. CASE handle' = "nobase" /\ UNCHANGED <<style, zero, table, word, pf_free, used>>
    BY <1>2 DEF IndInv, TypeOK, ChainSound, Idle, Fresh
  <1> QED
    BY <1>1, <1>2 DEF pa_fixed_open

LEMMA NextInd == ASSUME IndInv, [Next]_fixedVars PROVE IndInv'
  <1>1. CASE pa_fixed_alloc_atom
    <2>1. /\ style = "list" /\ UNCHANGED <<style, handle, zero>>
      BY <1>1 DEF pa_fixed_alloc_atom
    <2>2. CASE UNCHANGED <<table, word, pf_free, used>>
      BY <2>1, <2>2 DEF IndInv, TypeOK, ChainSound, Idle, Fresh
    <2>3. CASE /\ handle = "open" /\ pf_free # NullAtom /\ HasAddr(pf_free)
               /\ Pop(word) /\ UNCHANGED table
      BY <2>1, <2>3, PopInd
    <2>4. CASE /\ handle = "open" /\ pf_free # NullAtom /\ ~HasAddr(pf_free)
               /\ table' = table \cup {PageOf(pf_free)}
               /\ \E next \in Atoms :
                     /\ NextFresh(PageOf(pf_free), next)
                     /\ Pop(NewPageWords(PageOf(pf_free), next))
      BY <2>1, <2>4, SetupInd
    <2> QED
      BY <1>1, <2>2, <2>3, <2>4 DEF pa_fixed_alloc_atom
  <1>2. CASE pa_fixed_set_flags \/ pa_fixed_clear_flags \/ pa_fixed_close
    <2>1. /\ UNCHANGED <<style, table, word, pf_free, used>>
          /\ handle' \in {handle, "closed"} /\ zero' \in {zero, TRUE, FALSE}
      BY <1>2 DEF pa_fixed_set_flags, pa_fixed_clear_flags, pa_fixed_close
    <2>2. zero' \in BOOLEAN /\ handle' \in {"closed", "open", "nobase"}
      BY <2>1 DEF IndInv, TypeOK
    <2>3. TypeOK'
      BY <2>1, <2>2 DEF IndInv, TypeOK
    <2>4. ChainSound'
      BY <2>1 DEF IndInv, ChainSound, Idle, Fresh
    <2> QED
      BY <2>3, <2>4 DEF IndInv
  <1>3. CASE UNCHANGED fixedVars
    BY <1>3 DEF fixedVars, IndInv, TypeOK, ChainSound, Idle, Fresh
  <1> QED
    BY <1>1, <1>2, <1>3, FreeInd, StoreInd, ElementInd, OpenInd DEF Next

-----------------------------------------------------------------------------
(* The array keeps what is stored in it *)

\* Callers hold atoms of pages that exist, and what they stored is in one.
Mapped ==
    /\ \A a \in used : PageOf(a) \in table
    /\ \A a \in Atoms : word[a] = Data => PageOf(a) \in table

LEMMA MappedInit == Init => Mapped
  BY DEF Init, Mapped, Junk, Data

\* What chaining up a new page, or clearing it, does to the words of others.
LEMMA OtherPages ==
    ASSUME NEW a \in Atoms, NEW page, PageOf(a) # page
    PROVE  /\ \A next : NewPageWords(page, next)[a] = word[a]
           /\ NewElements(page)[a] = word[a]
  BY DEF NewPageWords, NewElements

LEMMA MappedStep ==
    ASSUME IndInv, Mapped, [Next]_fixedVars
    PROVE  Mapped'
  <1> USE DEF Mapped
  <1>1. /\ word \in [Atoms -> Atoms \cup {Junk, Data}] /\ used \subseteq Atoms
        /\ pf_free \in Atoms
    BY DEF IndInv, TypeOK
  <1>2. CASE pa_fixed_alloc_atom
    <2>1. CASE UNCHANGED <<table, word, pf_free, used>>
      BY <2>1
    <2>2. CASE HasAddr(pf_free) /\ Pop(word) /\ UNCHANGED table
      <3>1. \A a \in Atoms : word'[a] \in {word[a], 0}
        BY <1>1, <2>2 DEF Pop
      <3> QED
        BY <1>1, <2>2, <3>1 DEF Pop, HasAddr, Data
    <2>3. CASE \E next \in Atoms :
                 /\ table' = table \cup {PageOf(pf_free)}
                 /\ Pop(NewPageWords(PageOf(pf_free), next))
      <3> PICK next \in Atoms :
                 /\ table' = table \cup {PageOf(pf_free)}
                 /\ Pop(NewPageWords(PageOf(pf_free), next))
        BY <2>3
      <3> DEFINE w == NewPageWords(PageOf(pf_free), next)
      <3>1. w = [a \in Atoms |-> w[a]]
        BY DEF NewPageWords
      <3>2. \A a \in Atoms : PageOf(a) # PageOf(pf_free) => w[a] = word[a]
        BY OtherPages
      <3> HIDE DEF w
      <3>3. /\ used' = used \cup {pf_free}
            /\ word' = IF zero THEN [w EXCEPT ![pf_free] = 0] ELSE w
        BY DEF Pop, w
      <3>4. \A a \in Atoms : word'[a] = w[a] \/ a = pf_free
        BY <3>1, <3>3
      <3> QED
        BY <1>1, <3>2, <3>3, <3>4
    <2> QED
      BY <1>2, <2>1, <2>2, <2>3 DEF pa_fixed_alloc_atom
  <1>3. ASSUME NEW atom \in Atoms, pa_fixed_free_atom(atom)
        PROVE  Mapped'
    <2>1. /\ used' \subseteq used /\ table' = table
          /\ \/ word' = word
             \/ word' = [word EXCEPT ![atom] = pf_free] /\ PageOf(atom) \in table
      BY <1>3 DEF pa_fixed_free_atom, HasAddr
    <2> QED
      BY <1>1, <2>1
  <1>4. ASSUME NEW atom \in Atoms, Store(atom)
        PROVE  Mapped'
    BY <1>1, <1>4 DEF Store
  <1>5. ASSUME NEW num \in Atoms \ {0}, pa_fixed_element(num)
        PROVE  Mapped'
    <2>1. CASE UNCHANGED <<table, word, used>>
      BY <2>1
    <2>2. CASE HasAddr(num) /\ used' = used \cup {num} /\ UNCHANGED <<table, word>>
      BY <2>2 DEF HasAddr
    <2>3. CASE /\ table' = table \cup {PageOf(num)}
               /\ word' = NewElements(PageOf(num)) /\ used' = used \cup {num}
      BY <1>1, <2>3, OtherPages
    <2> QED
      BY <1>5, <2>1, <2>2, <2>3 DEF pa_fixed_element
  <1>6. CASE pa_fixed_open
    <2>1. CASE table' = {} /\ word' = [a \in Atoms |-> Junk] /\ used' = {}
      BY <2>1 DEF Junk, Data
    <2> QED
      BY <1>6, <2>1 DEF pa_fixed_open
  <1>7. CASE UNCHANGED <<table, word, used>>
    BY <1>7
  <1> QED
    BY <1>2, <1>3, <1>4, <1>5, <1>6, <1>7
    DEF Next, fixedVars, pa_fixed_set_flags, pa_fixed_clear_flags, pa_fixed_close

\* No step but another opening of the table changes a stored element.
LEMMA KeptStep ==
    ASSUME IndInv, Mapped, [Next]_fixedVars,
           NEW a \in Atoms, style = "array", handle' = handle, word[a] = Data
    PROVE  word'[a] = Data
  <1>1. word \in [Atoms -> Atoms \cup {Junk, Data}] /\ PageOf(a) \in table
    BY DEF IndInv, TypeOK, Mapped
  <1>2. ASSUME NEW num \in Atoms \ {0}, pa_fixed_element(num)
        PROVE  word'[a] = Data
    <2>1. ~HasAddr(num) => PageOf(num) # PageOf(a)
      BY <1>1, MaxAtomsFacts DEF HasAddr, NullAtom, Atoms
    <2>2. word' = word \/ (~HasAddr(num) /\ word' = NewElements(PageOf(num)))
      BY <1>2 DEF pa_fixed_element
    <2> QED
      BY <2>1, <2>2, OtherPages
  <1>3. ASSUME NEW atom \in Atoms, Store(atom)
        PROVE  word'[a] = Data
    BY <1>1, <1>3 DEF Store
  <1>4. CASE UNCHANGED word
    BY <1>4
  <1>5. ~pa_fixed_alloc_atom /\ \A atom \in Atoms : ~pa_fixed_free_atom(atom)
    BY DEF pa_fixed_alloc_atom, pa_fixed_free_atom
  <1>6. ~pa_fixed_open
    BY DEF pa_fixed_open
  <1> QED
    BY <1>2, <1>3, <1>4, <1>5, <1>6
    DEF Next, fixedVars, pa_fixed_set_flags, pa_fixed_clear_flags, pa_fixed_close

-----------------------------------------------------------------------------
(* No atom is lost *)

\* The sets that hold the head and, with an idle atom, its successor: whatever
\* lies in all of them is reached by following the chain.
Closed(S) == pf_free \in S /\ \A a \in S \cap Idle : word[a] \in S

\* The chain reaches every idle atom, and a page still to come if there is one.
Complete ==
    (style = "list" /\ handle = "open") =>
        \A S \in SUBSET Atoms :
            Closed(S) => Idle \subseteq S /\ (Fresh # {} => S \cap Fresh # {})

\* The page the chain leads to is the lowest of those still to come, so that
\* pa_fixed_alloc_setup_page, which looks at later pages only, misses none.
LowestFirst ==
    style = "list" =>
        \A f \in Fresh :
            /\ pf_free \in Fresh => PageOf(pf_free) <= PageOf(f)
            /\ \A a \in Idle : word[a] \in Fresh => PageOf(word[a]) <= PageOf(f)

NoLoss == IndInv /\ Complete /\ LowestFirst

LEMMA NoLossInit == Init => NoLoss
  <1> SUFFICES ASSUME Init PROVE NoLoss
    OBVIOUS
  <1>1. IndInv
    BY InitInd
  <1>2. Complete
    BY DEF Init, Complete
  <1>3. LowestFirst
    BY DEF Init, LowestFirst, Idle, Fresh, NullAtom
  <1> QED
    BY <1>1, <1>2, <1>3 DEF NoLoss

\* Handing out the head when its page exists.
LEMMA PopNoLoss ==
    ASSUME NoLoss, style = "list", handle = "open", pf_free # NullAtom,
           HasAddr(pf_free), Pop(word), UNCHANGED <<style, handle, zero, table>>
    PROVE  Complete' /\ LowestFirst'
  <1>1. /\ pf_free \in Idle
        /\ pf_free' = word[pf_free]
        /\ used' = used \cup {pf_free}
        /\ word' = IF zero THEN [word EXCEPT ![pf_free] = 0] ELSE word
    BY DEF Pop, HasAddr, NoLoss, IndInv, ChainSound, Fresh
  <1>2. word \in [Atoms -> Atoms \cup {Junk, Data}] /\ pf_free \in Atoms
    BY DEF NoLoss, IndInv, TypeOK
  <1>3. /\ Idle' = Idle \ {pf_free} /\ Fresh' = Fresh
        /\ \A a \in Idle' : word'[a] = word[a]
        /\ pf_free \notin Fresh
    BY <1>1, <1>2 DEF Idle, Fresh
  <1>4. LowestFirst'
    BY <1>1, <1>3 DEF NoLoss, LowestFirst
  <1>5. ASSUME NEW S \in SUBSET Atoms, Closed(S)'
        PROVE  Idle' \subseteq S /\ (Fresh' # {} => S \cap Fresh' # {})
    <2> DEFINE T == S \cup {pf_free}
    <2>1. T \in SUBSET Atoms /\ pf_free \in T
      BY <1>2
    <2>2. pf_free' \in S /\ \A a \in S \cap Idle' : word'[a] \in S
      BY <1>5 DEF Closed
    <2>3. \A a \in T \cap Idle : word[a] \in T
      BY <1>1, <1>3, <2>2
    <2>4. Idle \subseteq T /\ (Fresh # {} => T \cap Fresh # {})
      BY <2>1, <2>3 DEF NoLoss, Complete, Closed
    <2> QED
      BY <1>3, <2>4
  <1> QED
    BY <1>4, <1>5 DEF Complete

\* The head is the first atom of its page, but for the null atom.
LEMMA FreshIsFirst ==
    ASSUME NEW h \in Fresh, NEW a \in Atoms \ {0}, PageOf(a) = PageOf(h)
    PROVE  h <= a
  <1>1. h \in Nat /\ a \in Nat /\ PerPage \in Nat \ {0}
    BY FixedAssumption DEF Fresh, Atoms
  <1>2. CASE h = 1
    BY <1>1, <1>2
  <1>3. CASE h % PerPage = 0
    <2>1. h = PerPage * (h \div PerPage) + (h % PerPage)
      BY <1>1, DivisionFacts
    <2>2. PerPage * (a \div PerPage) <= a
      BY <1>1, Pageful
    <2>3. a \div PerPage = h \div PerPage
      BY DEF PageOf
    <2>4. h = PerPage * (h \div PerPage)
      <3> DEFINE q == h \div PerPage
      <3>1. q \in Nat
        BY <1>1, DivisionFacts
      <3>2. h = PerPage * q + 0
        BY <1>3, <2>1
      <3> HIDE DEF q
      <3>3. PerPage * q \in Nat
        BY <1>1, <3>1
      <3>4. h = PerPage * q
        BY <3>2, <3>3
      <3> QED
        BY <3>4 DEF q
    <2> QED
      BY <2>2, <2>3, <2>4
  <1> QED
    BY <1>2, <1>3 DEF Fresh

\* Every page has a last atom; it is the null atom only if it has no other.
LEMMA LastExists ==
    ASSUME NEW h \in Atoms
    PROVE  \E l \in Atoms : /\ l >= h /\ PageOf(l) = PageOf(h)
                            /\ PageOf(l + 1) # PageOf(h)
  <1> DEFINE q == h \div PerPage
             l == PerPage * q + PerPage - 1
  <1>1. /\ PerPage \in Nat \ {0} /\ h \in Nat /\ q \in Nat
        /\ PerPage * q <= h /\ h < PerPage * q + PerPage
    BY FixedAssumption, Pageful DEF Atoms
  <1>2. PerPage * q \in Nat /\ PerPage * (q + 1) = PerPage * q + PerPage
    BY <1>1
  <1>3. (PerPage * (q + 1)) \div PerPage = q + 1
    BY <1>1
  <1>4. l \in Nat /\ l >= h /\ l + 1 = PerPage * (q + 1)
    BY <1>1, <1>2
  <1>5. PageOf(h) = q /\ PageOf(l + 1) = q + 1
    BY <1>3, <1>4 DEF PageOf
  <1>6. PageOf(h) <= PageOf(l) /\ PageOf(l) \in Nat
    BY <1>1, <1>4, PageMonotone, PageType
  <1>7. PageOf(l) <= q
    <2> DEFINE r == l \div PerPage
    <2>1. r \in Nat /\ PerPage * r <= l
      BY <1>1, <1>4, Pageful
    <2>2. ~(q + 1 <= r)
      <3> SUFFICES ASSUME q + 1 <= r PROVE FALSE
        OBVIOUS
      <3> HIDE DEF q, r
      <3>1. PerPage * (q + 1) <= PerPage * r
        BY <1>1, <2>1
      <3>2. PerPage * (q + 1) \in Nat /\ PerPage * r \in Nat
        BY <1>1, <2>1
      <3> QED
        BY <1>4, <2>1, <3>1, <3>2
    <2> QED
      BY <1>1, <2>1, <2>2 DEF PageOf
  <1>8. PageOf(l) = PageOf(h) /\ PageOf(l + 1) # PageOf(h)
    BY <1>1, <1>5, <1>6, <1>7
  <1>9. l \in Atoms
    BY <1>4, <1>8, PageInRange, AtomInRange
  <1> HIDE DEF l
  <1> QED
    BY <1>4, <1>8, <1>9

\* Handing out the head when its page has to be made first: nothing else was
\* idle, and the new page is chained from the head to the next one to come.
LEMMA SetupNoLoss ==
    ASSUME NoLoss, style = "list", handle = "open", pf_free # NullAtom,
           ~HasAddr(pf_free), NEW next \in Atoms,
           NextFresh(PageOf(pf_free), next),
           table' = table \cup {PageOf(pf_free)},
           Pop(NewPageWords(PageOf(pf_free), next)),
           UNCHANGED <<style, handle, zero>>
    PROVE  Complete' /\ LowestFirst'
  <1> DEFINE p == PageOf(pf_free)
             w == NewPageWords(p, next)
  <1>1. /\ pf_free' = w[pf_free] /\ used' = used \cup {pf_free}
        /\ word' = IF zero THEN [w EXCEPT ![pf_free] = 0] ELSE w
        /\ table' = table \cup {p}
    BY DEF Pop
  <1>2. pf_free \in Fresh /\ pf_free \in Atoms \ {0} /\ p \notin table
    BY MaxAtomsFacts
    DEF NoLoss, IndInv, TypeOK, ChainSound, HasAddr, Idle, Fresh, NullAtom, Atoms
  <1>3. \A a \in Atoms : w[a] = IF PageOf(a) # p THEN word[a]
                                ELSE IF PageOf(a + 1) = p THEN a + 1 ELSE next
    BY DEF NewPageWords
  <1>4. w = [a \in Atoms |-> w[a]]
    BY DEF NewPageWords
  <1>5. \A a \in Atoms : PageOf(a) \in PageNumbers
    BY PageInRange
  <1>6. p \in Nat /\ \A a \in Atoms : PageOf(a) \in Nat
    BY <1>2, PageType DEF Atoms
  <1>7. /\ \A q \in PageNumbers : q > p /\ q \notin table => PageOf(next) <= q
        /\ next = NullAtom \/ (/\ next % PerPage = 0 /\ PageOf(next) > p
                               /\ PageOf(next) \notin table)
        /\ next = NullAtom => \A q \in PageNumbers : ~(q > p /\ q \notin table)
    <2> DEFINE missing == {q \in PageNumbers : q > p /\ q \notin table}
    <2>1. \/ missing = {} /\ next = NullAtom
          \/ /\ next % PerPage = 0 /\ PageOf(next) \in missing
             /\ \A q \in missing : PageOf(next) <= q
      BY DEF NextFresh
    <2>2. PageOf(next) > p => next # NullAtom
      <3>1. 0 <= pf_free /\ 0 \in Nat /\ pf_free \in Nat
        BY <1>2 DEF Atoms
      <3>2. PageOf(0) <= p /\ PageOf(0) \in Nat
        BY <3>1, PageMonotone, PageType
      <3> QED
        BY <1>6, <3>2 DEF NullAtom
    <2>3. missing = {} => \A q \in PageNumbers : ~(q > p /\ q \notin table)
      OBVIOUS
    <2>4. \A q \in PageNumbers : q > p /\ q \notin table => q \in missing
      OBVIOUS
    <2>5. PageOf(next) \in missing => PageOf(next) > p /\ PageOf(next) \notin table
      OBVIOUS
    <2> HIDE DEF missing
    <2> QED
      BY <2>1, <2>2, <2>3, <2>4, <2>5
  <1> HIDE DEF w, p
  <1>8. Idle = {}
    <2>1. {pf_free} \in SUBSET Atoms /\ {pf_free} \cap Idle = {}
      BY <1>2 DEF Idle, Fresh
    <2>2. Closed({pf_free})
      BY <2>1 DEF Closed
    <2> QED
      BY <2>1, <2>2 DEF NoLoss, Complete
  <1>9. \A f \in Fresh : p <= PageOf(f)
    BY <1>2 DEF NoLoss, LowestFirst, p
  <1>10. PageOf(pf_free) = p
    BY DEF p
  <1>11. /\ Idle' = {a \in Atoms \ {0} : PageOf(a) = p /\ a # pf_free}
         /\ \A a \in Idle' : word'[a] = w[a]
    <2>1. used \cap {a \in Atoms : PageOf(a) = p} = {}
      BY <1>2 DEF NoLoss, IndInv, ChainSound
    <2>2. Idle' = {a \in Atoms \ {0} : PageOf(a) \in table' /\ a \notin used'}
      BY DEF Idle
    <2> QED
      BY <1>1, <1>2, <1>4, <1>8, <2>1, <2>2 DEF Idle
  <1>12. Fresh' = {a \in Fresh : PageOf(a) # p}
    BY <1>1 DEF Fresh
  <1>13. \A f \in Fresh' : /\ PageOf(f) \in PageNumbers /\ PageOf(f) > p
                           /\ PageOf(f) \notin table /\ f \in Atoms
    BY <1>5, <1>6, <1>9, <1>12 DEF Fresh
  <1>14. Fresh' # {} => next \in Fresh'
    BY <1>6, <1>7, <1>12, <1>13 DEF Fresh, NullAtom
  <1>15. \A f \in Fresh' : PageOf(next) <= PageOf(f)
    BY <1>7, <1>13
  <1>16. ASSUME NEW S \in SUBSET Atoms, Closed(S)'
         PROVE  Idle' \subseteq S /\ (Fresh' # {} => S \cap Fresh' # {})
    <2>1. w[pf_free] \in S /\ \A a \in S \cap Idle' : w[a] \in S
      BY <1>1, <1>11, <1>16 DEF Closed
    \* The first of the page's atoms that were not reached would have a
    \* neighbour before it that was.
    <2>2. Idle' \subseteq S
      <3> SUFFICES ASSUME Idle' \ S # {} PROVE FALSE
        OBVIOUS
      <3>1. Idle' \ S \subseteq Nat
        BY <1>11 DEF Atoms
      <3>2. PICK a \in Idle' \ S : \A b \in Idle' \ S : a <= b
        BY <3>1, LeastNatural
      <3>3. /\ a \in Atoms \ {0} /\ PageOf(a) = p /\ a # pf_free /\ a \in Nat
            /\ pf_free \in Nat
        BY <1>2, <1>11, <3>2 DEF Atoms
      <3>4. pf_free <= a
        BY <1>2, <1>10, <3>3, FreshIsFirst
      <3> DEFINE c == a - 1
      <3>5. c \in Nat /\ pf_free <= c /\ c <= a /\ c \in Atoms /\ c + 1 = a
        BY <3>3, <3>4, MaxAtomsFacts DEF Atoms
      <3>6. PageOf(c) = p
        <4>1. PageOf(pf_free) <= PageOf(c) /\ PageOf(c) <= PageOf(a)
          BY <3>3, <3>5, PageMonotone
        <4> QED
          BY <1>6, <1>10, <3>3, <3>5, <4>1
      <3>7. w[c] = a
        BY <1>3, <3>3, <3>5, <3>6
      <3>8. CASE c = pf_free
        BY <2>1, <3>2, <3>7, <3>8
      <3>9. CASE c # pf_free
        <4>1. c \in Idle'
          BY <1>2, <1>11, <3>3, <3>5, <3>6, <3>9
        <4>2. ~(a <= c)
          BY <3>3
        <4>3. c \in S
          BY <3>2, <4>1, <4>2
        <4> QED
          BY <2>1, <3>2, <3>7, <4>1, <4>3
      <3> QED
        BY <3>8, <3>9
    <2>3. next \in S
      <3>1. PICK l \in Atoms : /\ l >= pf_free /\ PageOf(l) = p
                               /\ PageOf(l + 1) # p
        BY <1>2, <1>10, LastExists
      <3>2. w[l] = next
        BY <1>3, <3>1
      <3>3. l = pf_free \/ l \in Idle'
        BY <1>2, <1>11, <3>1 DEF Atoms
      <3> QED
        BY <2>1, <2>2, <3>2, <3>3
    <2> QED
      BY <1>14, <2>2, <2>3
  <1>17. LowestFirst'
    <2>1. ASSUME NEW a \in Atoms \ {0}, PageOf(a) = p, NEW f \in Fresh', w[a] \in Fresh'
          PROVE  PageOf(w[a]) <= PageOf(f)
      <3>1. PageOf(w[a]) # p
        BY <1>12, <2>1
      <3>2. w[a] = next
        BY <1>3, <2>1, <3>1
      <3> QED
        BY <1>15, <3>2
    <2>2. ASSUME NEW f \in Fresh'
          PROVE  /\ pf_free' \in Fresh' => PageOf(pf_free') <= PageOf(f)
                 /\ \A a \in Idle' : word'[a] \in Fresh' => PageOf(word'[a]) <= PageOf(f)
      BY <1>1, <1>2, <1>10, <1>11, <2>1
    <2> QED
      BY <2>2 DEF LowestFirst, PageOf
  <1> QED
    BY <1>16, <1>17 DEF Complete

\* A release puts the atom in front of the chain.
LEMMA FreeNoLoss ==
    ASSUME NoLoss, handle = "open", NEW atom \in Atoms, pa_fixed_free_atom(atom)
    PROVE  Complete' /\ LowestFirst'
  <1>1. /\ style = "list" /\ atom \in used /\ used' = used \ {atom}
        /\ UNCHANGED <<style, handle, zero, table>>
    BY DEF pa_fixed_free_atom
  <1>2. atom # 0 /\ PageOf(atom) \in table
    BY <1>1 DEF NoLoss, IndInv, TypeOK, ChainSound
  <1>3. HasAddr(atom)
    BY <1>2, MaxAtomsFacts DEF HasAddr, NullAtom, Atoms
  <1>4. word' = [word EXCEPT ![atom] = pf_free] /\ pf_free' = atom
    BY <1>3 DEF pa_fixed_free_atom
  <1>5. word \in [Atoms -> Atoms \cup {Junk, Data}]
    BY DEF NoLoss, IndInv, TypeOK
  <1>6. /\ Idle' = Idle \cup {atom} /\ Fresh' = Fresh
        /\ atom \notin Idle /\ atom \notin Fresh
        /\ word'[atom] = pf_free /\ \A a \in Idle : word'[a] = word[a]
    BY <1>1, <1>2, <1>4, <1>5 DEF Idle, Fresh
  <1>7. LowestFirst'
    BY <1>1, <1>4, <1>6 DEF NoLoss, LowestFirst
  <1>8. ASSUME NEW S \in SUBSET Atoms, Closed(S)'
        PROVE  Idle' \subseteq S /\ (Fresh' # {} => S \cap Fresh' # {})
    <2>1. atom \in S /\ pf_free \in S /\ \A a \in S \cap Idle : word[a] \in S
      BY <1>4, <1>6, <1>8 DEF Closed
    <2>2. Closed(S)
      BY <2>1 DEF Closed
    <2> QED
      BY <1>1, <1>6, <2>1, <2>2 DEF NoLoss, Complete
  <1> QED
    BY <1>7, <1>8 DEF Complete

LEMMA OpenNoLoss == ASSUME NoLoss, pa_fixed_open PROVE Complete' /\ LowestFirst'
  <1>1. CASE /\ handle' = "open" /\ table' = {} /\ pf_free' = 1 /\ used' = {}
    <2>1. 1 \in Atoms \ {0}
      BY MaxAtomsFacts DEF Atoms
    <2>2. Idle' = {} /\ 1 \in Fresh'
      BY <1>1, <2>1 DEF Idle, Fresh
    <2>3. Complete'
      BY <1>1, <2>2 DEF Complete, Closed
    <2>4. \A f \in Fresh' : PageOf(1) <= PageOf(f)
      <3> SUFFICES ASSUME NEW f \in Fresh' PROVE PageOf(1) <= PageOf(f)
        OBVIOUS
      <3>1. f \in Nat /\ 1 \in Nat /\ 1 <= f
        BY DEF Fresh, Atoms
      <3> QED
        BY <3>1, PageMonotone
    <2>5. LowestFirst'
      BY <1>1, <2>2, <2>4 DEF LowestFirst, PageOf
    <2> QED
      BY <2>3, <2>5
  <1>2. CASE /\ handle' = "nobase" /\ UNCHANGED <<style, table, word, pf_free, used>>
    <2>1. Complete'
      BY <1>2 DEF Complete
    <2>2. LowestFirst'
      BY <1>2 DEF NoLoss, LowestFirst, Idle, Fresh
    <2> QED
      BY <2>1, <2>2
  <1> QED
    BY <1>1, <1>2 DEF pa_fixed_open

LEMMA NoLossStep == ASSUME NoLoss, [Next]_fixedVars PROVE NoLoss'
  <1>1. IndInv'
    BY NextInd DEF NoLoss
  <1> SUFFICES Complete' /\ LowestFirst'
    BY <1>1 DEF NoLoss
  <1>2. ASSUME UNCHANGED <<style, table, word, pf_free, used>>,
               handle' \in {handle, "closed"}
        PROVE  Complete' /\ LowestFirst'
    <2>1. Idle' = Idle /\ Fresh' = Fresh /\ \A S : Closed(S)' = Closed(S)
      BY <1>2 DEF Idle, Fresh, Closed
    <2>2. Complete'
      BY <1>2, <2>1 DEF NoLoss, Complete
    <2>3. LowestFirst'
      BY <1>2, <2>1 DEF NoLoss, LowestFirst
    <2> QED
      BY <2>2, <2>3
  <1>3. CASE pa_fixed_alloc_atom
    <2>1. style = "list" /\ UNCHANGED <<style, handle, zero>>
      BY <1>3 DEF pa_fixed_alloc_atom
    <2>2. CASE UNCHANGED <<table, word, pf_free, used>>
      BY <1>2, <2>1, <2>2
    <2>3. CASE /\ handle = "open" /\ pf_free # NullAtom /\ HasAddr(pf_free)
               /\ Pop(word) /\ UNCHANGED table
      BY <2>1, <2>3, PopNoLoss
    <2>4. CASE /\ handle = "open" /\ pf_free # NullAtom /\ ~HasAddr(pf_free)
               /\ table' = table \cup {PageOf(pf_free)}
               /\ \E next \in Atoms :
                     /\ NextFresh(PageOf(pf_free), next)
                     /\ Pop(NewPageWords(PageOf(pf_free), next))
      BY <2>1, <2>4, SetupNoLoss
    <2> QED
      BY <1>3, <2>2, <2>3, <2>4 DEF pa_fixed_alloc_atom
  <1>4. ASSUME NEW atom \in Atoms, pa_fixed_free_atom(atom)
        PROVE  Complete' /\ LowestFirst'
    BY <1>4, FreeNoLoss DEF pa_fixed_free_atom
  <1>5. ASSUME NEW atom \in Atoms, Store(atom)
        PROVE  Complete' /\ LowestFirst'
    <2>1. /\ atom \in used /\ word' = [word EXCEPT ![atom] = Data]
          /\ UNCHANGED <<style, handle, zero, table, pf_free, used>>
      BY <1>5 DEF Store
    <2>2. word \in [Atoms -> Atoms \cup {Junk, Data}]
      BY DEF NoLoss, IndInv, TypeOK
    <2>3. Idle' = Idle /\ Fresh' = Fresh /\ \A a \in Idle : word'[a] = word[a]
      BY <2>1, <2>2 DEF Idle, Fresh
    <2>4. \A S : Closed(S)' = Closed(S)
      BY <2>1, <2>3 DEF Closed
    <2>5. Complete'
      BY <2>1, <2>3, <2>4 DEF NoLoss, Complete
    <2>6. LowestFirst'
      BY <2>1, <2>3 DEF NoLoss, LowestFirst
    <2> QED
      BY <2>5, <2>6
  <1>6. ASSUME NEW num \in Atoms \ {0}, pa_fixed_element(num)
        PROVE  Complete' /\ LowestFirst'
    BY <1>6 DEF pa_fixed_element, Complete, LowestFirst
  <1>7. CASE pa_fixed_open
    BY <1>7, OpenNoLoss
  <1>8. CASE \/ pa_fixed_set_flags \/ pa_fixed_clear_flags \/ pa_fixed_close
             \/ UNCHANGED fixedVars
    BY <1>2, <1>8
    DEF pa_fixed_set_flags, pa_fixed_clear_flags, pa_fixed_close, fixedVars
  <1> QED
    BY <1>3, <1>4, <1>5, <1>6, <1>7, <1>8 DEF Next

\* Following the chain n steps, written without the recursion of Reach.
Grown(S) == S \cup {word[a] : a \in S \cap Idle}

ReachFun(r, n) ==
    r = [i \in 0 .. n |-> IF i = 0 THEN {pf_free} ELSE Grown(r[i - 1])]

LEMMA ReachFunExists == \A n \in Nat : \E r : ReachFun(r, n)
  <1> DEFINE T == {n \in Nat : \E r : ReachFun(r, n)}
  <1>1. 0 \in T
    <2> DEFINE r == [i \in 0 .. 0 |-> {pf_free}]
    <2>1. r = [i \in 0 .. 0 |-> IF i = 0 THEN {pf_free} ELSE Grown(r[i - 1])]
      OBVIOUS
    <2> QED
      BY <2>1 DEF ReachFun
  <1>2. ASSUME NEW n \in Nat, n \in T
        PROVE  n + 1 \in T
    <2>1. PICK r : ReachFun(r, n)
      BY <1>2
    <2> DEFINE s == [i \in 0 .. (n + 1) |-> IF i = n + 1 THEN Grown(r[n]) ELSE r[i]]
    <2>0. \A i \in 0 .. n : s[i] = r[i]
      OBVIOUS
    <2>2. \A i \in 0 .. n : /\ s[i] = r[i]
                            /\ r[i] = IF i = 0 THEN {pf_free} ELSE Grown(r[i - 1])
      <3> HIDE DEF s
      <3> QED
        BY <2>0, <2>1 DEF ReachFun
    <2>3. ASSUME NEW i \in 0 .. (n + 1)
          PROVE  s[i] = IF i = 0 THEN {pf_free} ELSE Grown(s[i - 1])
      <3>1. CASE i = n + 1
        <4>1. i # 0 /\ i - 1 = n /\ n \in 0 .. n
          BY <3>1
        <4>2. s[i] = Grown(r[n]) /\ s[n] = r[n]
          BY <2>2, <3>1, <4>1
        <4> HIDE DEF s
        <4> QED
          BY <4>1, <4>2
      <3>2. CASE i \in 1 .. n
        <4>1. i \in 0 .. n /\ i - 1 \in 0 .. n /\ i # 0
          BY <3>2
        <4> HIDE DEF s
        <4> QED
          BY <2>2, <4>1
      <3>3. CASE i = 0
        <4>1. 0 \in 0 .. n
          OBVIOUS
        <4> HIDE DEF s
        <4> QED
          BY <2>2, <3>3, <4>1
      <3> QED
        BY <3>1, <3>2, <3>3
    <2>4. s = [i \in 0 .. (n + 1) |-> s[i]]
      OBVIOUS
    <2> HIDE DEF s
    <2>5. ReachFun(s, n + 1)
      BY <2>3, <2>4 DEF ReachFun
    <2> QED
      BY <2>5
  <1> HIDE DEF T
  <1>3. Nat \subseteq T
    BY <1>1, <1>2, SetInduction
  <1> QED
    BY <1>3 DEF T

LEMMA ReachUnfolds ==
    ASSUME NEW n \in Nat
    PROVE  \E r : ReachFun(r, n) /\ Reach(n) = r[n]
  <1> DEFINE r == CHOOSE f : ReachFun(f, n)
  <1>1. ReachFun(r, n)
    BY ReachFunExists
  <1>2. Reach(n) = r[n]
    BY DEF Reach, ReachFun, Grown
  <1> QED
    BY <1>1, <1>2

\* In as many steps as there are atoms nothing more is found: a step that finds
\* nothing is followed by none that does, and every other finds an atom.
LEMMA ReachClosed ==
    ASSUME IndInv, style = "list"
    PROVE  Closed(Reach(MaxAtoms)) /\ Reach(MaxAtoms) \in SUBSET Atoms
  <1> DEFINE N == MaxAtoms
  <1>1. N \in Nat /\ 0 \in Atoms /\ Idle \subseteq Atoms /\ Fresh \subseteq Atoms
    BY MaxAtomsFacts DEF Idle, Fresh, Atoms
  <1>2. PICK r : ReachFun(r, N) /\ Reach(N) = r[N]
    BY <1>1, ReachUnfolds
  <1>3. r[0] = {pf_free} /\ \A i \in 0 .. (N - 1) : r[i + 1] = Grown(r[i])
    <2>1. r[0] = {pf_free}
      BY <1>1, <1>2 DEF ReachFun
    <2>2. ASSUME NEW i \in 0 .. (N - 1) PROVE r[i + 1] = Grown(r[i])
      <3>1. i + 1 \in 0 .. N /\ i + 1 # 0 /\ (i + 1) - 1 = i
        BY <1>1
      <3> QED
        BY <1>1, <1>2, <3>1 DEF ReachFun
    <2> QED
      BY <2>1, <2>2
  <1>4. pf_free \in Atoms /\ \A a \in Idle : word[a] \in Atoms
    BY <1>1 DEF IndInv, TypeOK, ChainSound, NullAtom
  <1>5. \A S \in SUBSET Atoms : Grown(S) \in SUBSET Atoms /\ S \subseteq Grown(S)
    BY <1>4 DEF Grown
  <1>6. IsFiniteSet(Atoms) /\ Cardinality(Atoms) = N
    BY <1>1, MaxAtomsFacts, FS_Interval DEF Atoms
  <1> HIDE DEF N
  <1> DEFINE Settled(i) == Grown(r[i]) = r[i]
             T == {i \in Nat : i <= N =>
                     /\ r[i] \in SUBSET Atoms /\ pf_free \in r[i]
                     /\ Settled(i) \/ Cardinality(r[i]) >= i + 1}
  <1>7. 0 \in T
    <2>1. Cardinality(r[0]) = 1
      BY <1>3, FS_Singleton
    <2> QED
      BY <1>3, <1>4, <2>1
  <1>8. ASSUME NEW i \in Nat, i \in T
        PROVE  i + 1 \in T
    <2> SUFFICES ASSUME i + 1 <= N
                 PROVE  /\ r[i + 1] \in SUBSET Atoms /\ pf_free \in r[i + 1]
                        /\ Settled(i + 1) \/ Cardinality(r[i + 1]) >= (i + 1) + 1
      OBVIOUS
    <2>1. i <= N /\ i \in 0 .. (N - 1)
      BY <1>1
    <2>2. /\ r[i] \in SUBSET Atoms /\ pf_free \in r[i]
          /\ Settled(i) \/ Cardinality(r[i]) >= i + 1
      BY <1>8, <2>1
    <2>3. r[i + 1] = Grown(r[i])
      BY <1>3, <2>1
    <2>4. r[i + 1] \in SUBSET Atoms /\ r[i] \subseteq r[i + 1] /\ pf_free \in r[i + 1]
      BY <1>5, <2>2, <2>3
    <2>5. CASE Settled(i)
      BY <2>3, <2>4, <2>5
    <2>6. CASE ~Settled(i)
      <3>1. PICK x \in r[i + 1] : x \notin r[i]
        BY <2>3, <2>4, <2>6
      <3>2. IsFiniteSet(r[i + 1]) /\ IsFiniteSet(r[i])
        BY <1>6, <2>2, <2>4, FS_Subset
      <3>3. /\ Cardinality(r[i] \cup {x}) = Cardinality(r[i]) + 1
            /\ r[i] \cup {x} \in SUBSET r[i + 1]
        BY <2>4, <3>1, <3>2, FS_AddElement
      <3>4. Cardinality(r[i] \cup {x}) <= Cardinality(r[i + 1])
        BY <3>2, <3>3, FS_Subset
      <3>5. Cardinality(r[i]) \in Nat /\ Cardinality(r[i + 1]) \in Nat
        BY <3>2, FS_CardinalityType
      <3>6. Cardinality(r[i]) >= i + 1
        BY <2>2, <2>6
      <3>7. Cardinality(r[i + 1]) >= (i + 1) + 1
        BY <3>3, <3>4, <3>5, <3>6
      <3> QED
        BY <2>4, <3>7
    <2> QED
      BY <2>5, <2>6
  <1> HIDE DEF T
  <1>9. N \in T
    BY <1>1, <1>7, <1>8, SetInduction
  <1>10. /\ r[N] \in SUBSET Atoms /\ pf_free \in r[N]
         /\ Settled(N) \/ Cardinality(r[N]) >= N + 1
    BY <1>1, <1>9 DEF T
  <1>11. Settled(N)
    <2>1. Cardinality(r[N]) <= N /\ Cardinality(r[N]) \in Nat
      BY <1>6, <1>10, FS_Subset, FS_CardinalityType
    <2> QED
      BY <1>1, <1>10, <2>1
  <1>12. \A a \in r[N] \cap Idle : word[a] \in r[N]
    BY <1>11 DEF Grown
  <1> QED
    BY <1>2, <1>10, <1>12 DEF Closed, N

\* A page still to come has a first atom.
LEMMA MissingIsFresh ==
    ASSUME NEW a \in Atoms \ {0}, PageOf(a) \notin table
    PROVE  Fresh # {}
  <1> DEFINE q == a \div PerPage
             f == PerPage * q
  <1>1. /\ PerPage \in Nat \ {0} /\ a \in Nat /\ a # 0 /\ q \in Nat
        /\ f <= a /\ a \in Atoms
    BY FixedAssumption, Pageful DEF Atoms
  <1>2. f \in Nat /\ f \div PerPage = q /\ f % PerPage = 0
    <2> HIDE DEF q
    <2> QED
      BY <1>1
  <1>3. CASE f # 0
    <2>1. f \in Atoms \ {0}
      BY <1>1, <1>2, <1>3, MaxAtomsFacts DEF Atoms
    <2>2. PageOf(f) = PageOf(a)
      BY <1>2 DEF PageOf
    <2> HIDE DEF f
    <2> QED
      BY <1>2, <2>1, <2>2 DEF Fresh
  <1>4. CASE f = 0
    <2>1. PageOf(a) = 0
      BY <1>1, <1>2, <1>4 DEF PageOf
    <2>2. 1 \in Atoms \ {0} /\ PageOf(1) <= PageOf(a) /\ PageOf(1) \in Nat
      BY <1>1, MaxAtomsFacts, PageMonotone, PageType DEF Atoms
    <2>3. PageOf(1) = PageOf(a)
      BY <2>1, <2>2
    <2> QED
      BY <2>2, <2>3 DEF Fresh
  <1> QED
    BY <1>3, <1>4

LEMMA NoLossImplies == NoLoss => NothingLost
  <1> SUFFICES ASSUME NoLoss, style = "list", handle = "open"
               PROVE  LET reached == Reach(MaxAtoms) IN
                      /\ Idle \subseteq reached
                      /\ Fresh # {} => reached \cap Fresh # {}
                      /\ pf_free = NullAtom => used = Atoms \ {0}
    BY DEF NothingLost
  <1>1. Idle \subseteq Reach(MaxAtoms) /\ (Fresh # {} => Reach(MaxAtoms) \cap Fresh # {})
    BY ReachClosed DEF NoLoss, Complete
  <1>2. ASSUME pf_free = NullAtom
        PROVE  used = Atoms \ {0}
    <2>1. {0} \in SUBSET Atoms /\ {0} \cap Idle = {} /\ {0} \cap Fresh = {}
      BY MaxAtomsFacts DEF Idle, Fresh, Atoms
    <2>2. Closed({0})
      BY <1>2, <2>1 DEF Closed, NullAtom
    <2>3. Idle = {} /\ Fresh = {}
      BY <2>1, <2>2 DEF NoLoss, Complete
    <2>4. \A a \in Atoms \ {0} : PageOf(a) \in table
      BY <2>3, MissingIsFresh
    <2>5. Atoms \ {0} \subseteq used
      BY <2>3, <2>4 DEF Idle
    <2> QED
      BY <2>5 DEF NoLoss, IndInv, TypeOK
  <1> QED
    BY <1>1, <1>2

-----------------------------------------------------------------------------
(* The theorems *)

LEMMA Invariance == Spec => []IndInv
  <1>1. Init => IndInv
    BY InitInd
  <1>2. IndInv /\ [Next]_fixedVars => IndInv'
    BY NextInd
  <1> QED
    BY <1>1, <1>2, PTL DEF Spec

\* The chain of pa_fixed_alloc_atom and pa_fixed_free_atom leads only to atoms
\* that nobody holds, and to each from one place.
THEOREM ChainAlwaysSound == Spec => []ChainSound
  <1>1. IndInv => ChainSound
    BY DEF IndInv
  <1> QED
    BY <1>1, Invariance, PTL

\* The atom that pa_fixed_alloc_atom hands out next is held by nobody, whatever
\* callers stored in theirs and however often a page could not be had.
THEOREM NoDoubleHandOut == Spec => [](style = "list" => pf_free \notin used)
  <1>1. IndInv => (style = "list" => pf_free \notin used)
    BY DEF IndInv, TypeOK, ChainSound, Idle, Fresh, NullAtom
  <1> QED
    BY <1>1, Invariance, PTL

\* What a caller stored in an element of the array stays there, whichever other
\* elements are asked for (pa_fixed_element makes pages that were missing and
\* clears no page that exists), until the table is opened again.
THEOREM ElementsStay == Spec => ElementsKept
  <1>1. Init => IndInv /\ Mapped
    BY InitInd, MappedInit
  <1>2. IndInv /\ Mapped /\ [Next]_fixedVars => (IndInv /\ Mapped)'
    BY NextInd, MappedStep
  <1> DEFINE Keeps == \A a \in Atoms :
                        (style = "array" /\ handle' = handle /\ word[a] = Data)
                           => word'[a] = Data
  <1>3. IndInv /\ Mapped /\ [Next]_fixedVars => [Keeps]_fixedVars
    BY KeptStep
  <1> HIDE DEF Keeps
  <1>4. Spec => [][Keeps]_fixedVars
    BY <1>1, <1>2, <1>3, PTL DEF Spec
  <1> QED
    BY <1>4 DEF Keeps, ElementsKept

\* The chain reaches every idle atom and, while a page is still to come, its
\* first atom: neither chaining up a page nor taking from or releasing to the
\* chain loses any, and when pa_fixed_alloc_atom finds the chain empty every
\* atom is held by a caller.
THEOREM NothingEverLost == Spec => []NothingLost
  <1>1. Init => NoLoss
    BY NoLossInit
  <1>2. NoLoss /\ [Next]_fixedVars => NoLoss'
    BY NoLossStep
  <1>3. NoLoss => NothingLost
    BY NoLossImplies
  <1> QED
    BY <1>1, <1>2, <1>3, PTL DEF Spec
=============================================================================
