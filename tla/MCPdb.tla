------------------------------- MODULE MCPdb -------------------------------
(* Values for the constants of Pdb. *)
EXTENDS Pdb

\* Six names of two sizes, one of them not aligned; room for four to five.
MCStems == 1 .. 6
MCSizeOf == [p \in MCStems |-> IF p < 3 THEN 3 ELSE 8]
MCLongNames == {FALSE}

\* Atoms of 4 bytes, pages of 2 atoms, 4 pages.  Slot 0 has two chunks to the
\* page, slot 1 one, slot 2 takes two pages.  3 is the last size of slot 0, 4
\* the first of slot 1, 15 the last of slot 2, 16 the first large one; 40 is
\* over the limit.
MCReqSizes == {3, 4, 15, 16, 40}

\* Atoms of 2 bytes, pages of 4 atoms, 4 slots, bytes of 8 values.  Lengths of
\* half a page, exactly one page, just more; the empty string and a character
\* of the lower half.
MCLengths == {2, 7, 8}
MCShortBytes == {0, 3}

\* Strings of up to two characters with their end, whose bytes differ in the
\* first, a middle and the last bit, and keys that lack the end.
Chars == {1, 3, 130}
MCKeys ==
    {<<c, 0>> : c \in Chars} \cup {<<0>>, <<1>>, <<130, 1>>}
        \cup {<<1, 1, 0>>, <<1, 130, 0>>, <<130, 1, 0>>}
MCHeads ==
    {[plen |-> n, bytes |-> <<c>>] : n \in {1, 6, 7, 8}, c \in {1, 130}}
        \cup {[plen |-> n, bytes |-> <<1, 130>>] : n \in {9, 16}}
=============================================================================
