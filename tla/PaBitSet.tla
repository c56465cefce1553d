------------------------------ MODULE PaBitSet ------------------------------
(***************************************************************************)
(* What the bitmaps of PaBitmap promise: sets of numbers.                  *)
(***************************************************************************)
EXTENDS Naturals

CONSTANTS
    Nums,  \* the numbers that callers add
    MaxIds \* the most sets there can be

VARIABLE members \* of every set that was made, its members

Create ==
    \E id \in (1 .. MaxIds) \ DOMAIN members :
        members' = [i \in DOMAIN members \cup {id} |->
                      IF i = id THEN {} ELSE members[i]]

Add == \E id \in DOMAIN members, n \in Nums :
          members' = [members EXCEPT ![id] = @ \cup {n}]

Remove == \E id \in DOMAIN members, n \in Nums :
             members' = [members EXCEPT ![id] = @ \ {n}]

Spec == members = <<>> /\ [][Create \/ Add \/ Remove]_members
=============================================================================
