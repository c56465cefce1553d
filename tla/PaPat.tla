-------------------------------- MODULE PaPat --------------------------------
(***************************************************************************)
(* Patricia trees (parrotdb/papat.c and papat.h): an ordered index of keys *)
(* over nodes in a PaFixed table.                                          *)
(*                                                                         *)
(* A key is a sequence of bytes.  A bit of a key is named by a number that *)
(* grows from left to right, the byte's index above the complement of the  *)
(* bit's mask; a node tests the bit at which it was put between the others *)
(* and a link to a node that does not test a later bit leads to a leaf.    *)
(***************************************************************************)
EXTENDS PaCommon, SequencesExt

CONSTANTS
    Keys,       \* keys that callers add and look for
    Heads,   \* prefixes they look for: a length in bits, and bytes
    MaxNodes,   \* nodes the table has room for
    MaxOpens    \* bound of the model on how often the tree is opened

\* What the constants are.
PatAssumption ==
    /\ Keys \subseteq Seq(0 .. 255) /\ << >> \notin Keys
    /\ \A p \in Heads : p.bytes \in Seq(0 .. 255) /\ p.plen \in 1 .. 8 * Len(p.bytes)
    /\ {MaxNodes, MaxOpens} \subseteq Nat

VARIABLES
    nodes,      \* the nodes of the table that are allocated
    pp_root,    \* the root's atom
    opens,      \* how often the tree was opened
    added       \* the keys whose addition succeeded since

patVars == <<nodes, pp_root, opens, added>>

PA_PAT_NOBIT == 0

\* The number of a bit has this many values.
BitWrap == 65536
Bits == 0 .. BitWrap - 1

-----------------------------------------------------------------------------
(* Bits of keys *)

pa_pat_length_to_bit(length) ==
    IF length = 0 THEN PA_PAT_NOBIT ELSE ((length - 1) * 256 + 255) % BitWrap

\* The masks of the bits of a byte.
Masks == {128, 64, 32, 16, 8, 4, 2, 1}

\* What is left of a bit's number in its byte, from left to right.
pa_pat_bit_masks == <<127, 191, 223, 239, 247, 251, 253, 254>>

\* The number of the first bit past a prefix.
pa_pat_plen_to_bit(plen) ==
    IF plen % 8 = 0 THEN (plen \div 8) * 256 - 1
    ELSE (plen \div 8) * 256 + pa_pat_bit_masks[(plen % 8) + 1]

\* pat_key_test: the last number of a byte names no bit.
pat_key_test(key, bit) ==
    LET mask == 255 - (bit % 256)
    IN mask # 0 /\ (key[bit \div 256 + 1] \div mask) % 2 = 1

\* The first bit in which two bytes differ.
pa_pat_makebit(offset, b1, b2) ==
    LET mask == CHOOSE m \in Masks :
                    b1 \div m # b2 \div m /\ b1 \div (2 * m) = b2 \div (2 * m)
    IN offset * 256 + 255 - mask

\* The first bit in which two keys of that length differ, or the length.
pa_pat_mismatch(k1, k2, bitlen) ==
    LET differ == {i \in 1 .. bitlen \div 256 + 1 : k1[i] # k2[i]}
    IN IF differ = {} THEN bitlen
       ELSE LET i == CHOOSE j \in differ : \A k \in differ : j <= k
            IN pa_pat_makebit(i - 1, k1[i], k2[i])

-----------------------------------------------------------------------------
(* Walks down the tree.  A walk remembers the bit tested last, the node it *)
(* is at and the link that led there, and where it last went left and      *)
(* right.  It ends where bits do not grow, or at a bit that is not wanted. *)

pa_pat_node_init_length(key) ==
    [key |-> key, ppn_length |-> pa_pat_length_to_bit(Len(key)),
     ppn_bit |-> PA_PAT_NOBIT, ppn_left |-> NullAtom, ppn_right |-> NullAtom]

Length(atom) == nodes[atom].ppn_length
Key(atom) == nodes[atom].key

Begin(at) ==
    [bit |-> PA_PAT_NOBIT, node |-> at, at |-> pp_root, link |-> <<NullAtom, "root">>,
     lastleft |-> NullAtom, lastright |-> NullAtom]

\* One step: to the right at some bits, to the left at others.
Step(w, right, wanted) ==
    LET node == nodes[w.node]
        goes == right[node.ppn_bit]
        next == IF goes THEN node.ppn_right ELSE node.ppn_left
    IN IF ~(w.bit < node.ppn_bit /\ node.ppn_bit \in wanted) THEN w
       ELSE [bit |-> node.ppn_bit, node |-> next, at |-> next,
             link |-> <<w.at, IF goes THEN "right" ELSE "left">>,
             lastleft |-> IF goes THEN w.lastleft ELSE w.at,
             lastright |-> IF goes THEN w.at ELSE w.lastright]

Walk(from, right, wanted) ==
    LET step[n \in 0 .. Len(nodes)] ==
            IF n = 0 THEN from ELSE Step(step[n - 1], right, wanted)
    IN step[Len(nodes)]

\* Which of the bits below one are set in a key.
SetBits(key, bit) == [b \in Bits |-> b < bit /\ pat_key_test(key, b)]

\* The walk that a key of that length takes, to a leaf.
Descend(key, keylen) == Walk(Begin(pp_root), SetBits(key, keylen), Bits)

pa_pat_search(keylen, key) == Descend(key, keylen).node

\* The leaf at the end of left, or of right, links from a node.
Outmost(bit, at, right) ==
    Walk([Begin(at) EXCEPT !.bit = bit], [b \in Bits |-> right], Bits).node

pa_pat_find_leftmost(bit, at) == Outmost(bit, at, FALSE)
pa_pat_find_rightmost(bit, at) == Outmost(bit, at, TRUE)

RightOf(lastleft) ==
    IF lastleft = NullAtom THEN NullAtom
    ELSE pa_pat_find_leftmost(nodes[lastleft].ppn_bit, nodes[lastleft].ppn_right)

LeftOf(lastright) ==
    IF lastright = NullAtom THEN NullAtom
    ELSE pa_pat_find_rightmost(nodes[lastright].ppn_bit, nodes[lastright].ppn_left)

-----------------------------------------------------------------------------
(* Looking for keys.  Node 0 is no node. *)

pa_pat_get(key) ==
    IF pp_root = NullAtom THEN NullAtom
    ELSE LET node == Descend(key, pa_pat_length_to_bit(Len(key))).node
         IN IF Length(node) = pa_pat_length_to_bit(Len(key)) /\ Key(node) = key
            THEN node ELSE NullAtom

\* Wrong: from the place of the last turn to the right.
NextAfterRight(atom) ==
    IF pp_root = NullAtom THEN NullAtom
    ELSE IF atom = NullAtom THEN pa_pat_find_leftmost(PA_PAT_NOBIT, pp_root)
    ELSE RightOf(Descend(Key(atom), Length(atom)).lastright)

pa_pat_find_next(atom) ==
    IF pp_root = NullAtom THEN NullAtom
    ELSE IF atom = NullAtom THEN pa_pat_find_leftmost(PA_PAT_NOBIT, pp_root)
    ELSE RightOf(Descend(Key(atom), Length(atom)).lastleft)

pa_pat_find_prev(atom) ==
    IF pp_root = NullAtom THEN NullAtom
    ELSE IF atom = NullAtom THEN pa_pat_find_rightmost(PA_PAT_NOBIT, pp_root)
    ELSE LeftOf(Descend(Key(atom), Length(atom)).lastright)

\* The first node whose key has the prefix.
pa_pat_subtree_match(plen, prefix) ==
    IF pp_root = NullAtom THEN NullAtom
    ELSE LET p_bit == pa_pat_plen_to_bit(plen)
             node == pa_pat_search(p_bit, prefix)
         IN IF p_bit <= Length(node) /\ pa_pat_mismatch(prefix, Key(node), p_bit) >= p_bit
            THEN node ELSE NullAtom

\* Wrong: a turn at the last bit of the prefix stays in the subtree.
SubtreeNextWide(atom, plen) ==
    LET lastleft == Descend(Key(atom), Length(atom)).lastleft
    IN IF lastleft = NullAtom \/ nodes[lastleft].ppn_bit < pa_pat_plen_to_bit(plen - 1)
       THEN NullAtom ELSE RightOf(lastleft)

\* The node after a node, in the subtree of the nodes that share a prefix.
pa_pat_subtree_next(atom, plen) ==
    LET lastleft == Descend(Key(atom), Length(atom)).lastleft
    IN IF lastleft = NullAtom \/ nodes[lastleft].ppn_bit < pa_pat_plen_to_bit(plen)
       THEN NullAtom ELSE RightOf(lastleft)

\* pa_pat_getnext, when the key and the leaf found differ at diff_bit and
\* the key is larger: the search for a turn before that bit takes up at the
\* leaf, with the root for its place.
LargerThan(key, found, diff_bit) ==
    LET before == 0 .. diff_bit - 1
        again == Walk(Begin(found.node), SetBits(key, diff_bit), before)
    IN IF found.lastleft # NullAtom /\ nodes[found.lastleft].ppn_bit > diff_bit
       THEN RightOf(again.lastleft) ELSE RightOf(found.lastleft)

\* ... and the key is smaller.
SmallerThan(key, found, diff_bit) ==
    IF found.lastright # NullAtom /\ nodes[found.lastright].ppn_bit >= diff_bit
    THEN pa_pat_search(diff_bit, key) ELSE found.node

pa_pat_getnext(key, eq) ==
    IF pp_root = NullAtom THEN NullAtom
    ELSE LET bit_len == pa_pat_length_to_bit(Len(key))
             found == Descend(key, bit_len)
             length == Length(found.node)
             bit == IF length > bit_len THEN bit_len ELSE length
             diff_bit == pa_pat_mismatch(key, Key(found.node), bit)
         IN IF diff_bit >= bit
            THEN IF bit_len < length \/ (eq /\ bit_len = length)
                 THEN found.node ELSE RightOf(found.lastleft)
            ELSE IF pat_key_test(key, diff_bit) THEN LargerThan(key, found, diff_bit)
            ELSE SmallerThan(key, found, diff_bit)

pa_pat_compare_nodes(a, b) ==
    LET bit == IF Length(a) < Length(b) THEN Length(a) ELSE Length(b)
        diff_bit == pa_pat_mismatch(Key(a), Key(b), bit)
    IN IF diff_bit >= bit THEN 0 ELSE IF pat_key_test(Key(a), diff_bit) THEN 1 ELSE -1

\* "only a syntactic check"
pa_pat_node_in_tree(atom) ==
    \/ nodes[atom].ppn_bit # PA_PAT_NOBIT
    \/ nodes[atom].ppn_right = NullAtom
    \/ nodes[atom].ppn_left = NullAtom

-----------------------------------------------------------------------------
(* Adding keys *)

\* The first node is its own leaf on both sides, and tests no bit.
FirstNode(node) ==
    /\ nodes' = Append(nodes, [node EXCEPT !.ppn_left = Len(nodes) + 1,
                                           !.ppn_right = Len(nodes) + 1])
    /\ pp_root' = Len(nodes) + 1

\* Wrong: the length itself counts as a bit in which they differ.
PartingLate(key) ==
    LET length == pa_pat_length_to_bit(Len(key))
        found == pa_pat_search(length, key)
        bit == IF length < Length(found) THEN length ELSE Length(found)
        diff_bit == pa_pat_mismatch(key, Key(found), bit)
    IN IF diff_bit > bit THEN {} ELSE {diff_bit}

\* The bit at which a key leaves the one found, or nothing: one of them is
\* the beginning of the other.
Parting(key) ==
    LET length == pa_pat_length_to_bit(Len(key))
        found == pa_pat_search(length, key)
        bit == IF length < Length(found) THEN length ELSE Length(found)
        diff_bit == pa_pat_mismatch(key, Key(found), bit)
    IN IF diff_bit >= bit THEN {} ELSE {diff_bit}

\* Wrong: the node goes where the walk to the leaf ended.
InsertionAtLeaf(key, diff_bit) == Descend(key, pa_pat_length_to_bit(Len(key)))

\* Where the bit is in the branch of a key.
InsertionPoint(key, diff_bit) ==
    Walk(Begin(pp_root), SetBits(key, diff_bit), 0 .. diff_bit - 1)

Inserted(node, diff_bit) ==
    LET atom == Len(nodes) + 1
        place == InsertionPoint(node.key, diff_bit)
        right == pat_key_test(node.key, diff_bit)
        new == [node EXCEPT !.ppn_bit = diff_bit,
                            !.ppn_left = IF right THEN place.at ELSE atom,
                            !.ppn_right = IF right THEN atom ELSE place.at]
        above == place.link[1]
        all == Append(nodes, new)
    IN /\ nodes' = CASE place.link[2] = "root" -> all
                     [] place.link[2] = "left" -> [all EXCEPT ![above].ppn_left = atom]
                     [] place.link[2] = "right" -> [all EXCEPT ![above].ppn_right = atom]
       /\ pp_root' = IF place.link[2] = "root" THEN atom ELSE pp_root

\* pa_pat_add: the node is allocated first; one whose key is refused stays.
pa_pat_add(key) ==
    /\ Len(nodes) < MaxNodes
    /\ LET node == pa_pat_node_init_length(key)
       IN IF pp_root = NullAtom
          THEN FirstNode(node) /\ added' = added \cup {key}
          ELSE IF Parting(key) = {}
          THEN nodes' = Append(nodes, node) /\ UNCHANGED <<pp_root, added>>
          ELSE /\ \E bit \in Parting(key) : Inserted(node, bit)
               /\ added' = added \cup {key}
    /\ UNCHANGED opens

\* pa_pat_close and pa_pat_open: pa_pat_root_init sets the root to null in
\* the file as well as in memory, so the tree is empty and its nodes are lost.
pa_pat_open ==
    /\ opens < MaxOpens
    /\ opens' = opens + 1
    /\ pp_root' = NullAtom
    /\ added' = {}
    /\ UNCHANGED nodes

Init == nodes = << >> /\ pp_root = NullAtom /\ opens = 1 /\ added = {}

Next == pa_pat_open \/ \E key \in Keys : pa_pat_add(key)

Spec == Init /\ [][Next]_patVars

-----------------------------------------------------------------------------
(* Properties *)

\* The order of keys, none of which begins another.
Before(k, m) ==
    \E i \in 1 .. (IF Len(k) < Len(m) THEN Len(k) ELSE Len(m)) :
        k[i] < m[i] /\ \A j \in 1 .. i - 1 : k[j] = m[j]

Overlap(k, m) == IsPrefix(k, m) \/ IsPrefix(m, k)

KeyOf(atom) == IF atom = NullAtom THEN << >> ELSE Key(atom)

\* The least key of a set, or none.
LeastKey(keys) ==
    IF keys = {} THEN << >>
    ELSE CHOOSE k \in keys : \A m \in keys \ {k} : Before(k, m)

GreatestKey(keys) ==
    IF keys = {} THEN << >>
    ELSE CHOOSE k \in keys : \A m \in keys \ {k} : Before(m, k)

\* Every key that was added is found, and no other, however the additions
\* reshaped the tree.
KeysFound ==
    \A key \in Keys : IF key \in added THEN KeyOf(pa_pat_get(key)) = key
                      ELSE pa_pat_get(key) = NullAtom

\* Walks forward and backward go from each key to its neighbour in order.
WalksInOrder ==
    /\ KeyOf(pa_pat_find_next(NullAtom)) = LeastKey(added)
    /\ KeyOf(pa_pat_find_prev(NullAtom)) = GreatestKey(added)
    /\ \A k \in added :
          /\ KeyOf(pa_pat_find_next(pa_pat_get(k))) = LeastKey({m \in added : Before(k, m)})
          /\ KeyOf(pa_pat_find_prev(pa_pat_get(k))) = GreatestKey({m \in added : Before(m, k)})
          /\ \A m \in added \ {k} :
                pa_pat_compare_nodes(pa_pat_get(k), pa_pat_get(m)) = (IF Before(k, m) THEN -1 ELSE 1)

HasPrefix(key, p) ==
    /\ Len(key) * 8 >= p.plen
    /\ \A i \in 0 .. p.plen - 1 :
          LET mask == <<128, 64, 32, 16, 8, 4, 2, 1>>[(i % 8) + 1]
          IN (key[i \div 8 + 1] \div mask) % 2 = (p.bytes[i \div 8 + 1] \div mask) % 2

\* A subtree is all the keys that have a prefix of some bits, in order.
SubtreeIsPrefix ==
    \A p \in Heads :
        LET in == {k \in added : HasPrefix(k, p)}
        IN /\ KeyOf(pa_pat_subtree_match(p.plen, p.bytes)) = LeastKey(in)
           /\ \A k \in in :
                 KeyOf(pa_pat_subtree_next(pa_pat_get(k), p.plen)) = LeastKey({m \in in : Before(k, m)})

\* The tree answers each question as the set of its keys would, whatever
\* order they came in (pa_pat_get, pa_pat_find_next, pa_pat_subtree_match).
TreeAnswers == KeysFound /\ WalksInOrder /\ SubtreeIsPrefix

\* A key is refused exactly if it is one that is there, begins one or begins
\* with one.
OverlapsRefused ==
    [][\A key \in Keys :
          pa_pat_add(key) =>
              (key \in added' <=> key \in added \/ \A k \in added : ~Overlap(k, key))]_patVars

\* "return a node in the tree which is at least as large as the key": the
\* least such node.
GetnextIsNext ==
    \A key \in Keys :
        (\A k \in added : ~Overlap(k, key)) =>
            KeyOf(pa_pat_getnext(key, TRUE)) = LeastKey({m \in added : Before(key, m)})
=============================================================================
