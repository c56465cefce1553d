------------------------------ MODULE PaStore ------------------------------
(***************************************************************************)
(* What a page allocator promises the tables built on it: a block that it  *)
(* hands out overlaps no block in use and lies inside the store behind the *)
(* header page; only its holder's release ends a block's life, unless the  *)
(* whole store goes away.                                                  *)
(***************************************************************************)
EXTENDS PaCommon

VARIABLES
    used,  \* the blocks in use
    len    \* the atoms the store consists of, its header page included

storeVars == <<used, len>>

Init == used = {} /\ len = 0

\* The store may have to grow to satisfy a request.
HandOut(b) ==
    /\ b.atom >= 1 /\ b.size >= 1
    /\ \A c \in used : Apart(b, c)
    /\ len' >= len
    /\ b.atom + b.size <= len'
    /\ used' = used \cup {b}

TakeBack(b) ==
    /\ b \in used
    /\ used' = used \ {b}
    /\ UNCHANGED len

Extend == len' >= len /\ UNCHANGED used

Vanish == used' = {} /\ len' = 0

Next ==
    \/ \E b \in used' \ used : HandOut(b)
    \/ \E b \in used : TakeBack(b)
    \/ Extend
    \/ Vanish

Spec == Init /\ [][Next]_storeVars
=============================================================================
