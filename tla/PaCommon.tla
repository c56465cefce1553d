----------------------------- MODULE PaCommon -----------------------------
(***************************************************************************)
(* Arithmetic shared by the ParrotDB allocators (parrotdb/pacommon.h).     *)
(*                                                                         *)
(* Every unit the C code reaches by shifting is a power of two, so a shift *)
(* is a division by the unit and masking off the low bits is rounding to a *)
(* multiple of it.                                                         *)
(***************************************************************************)
EXTENDS Integers

\* PA_NULL_ATOM: atom 0 of every allocator is the failure result.
NullAtom == 0

\* How many units of size unit hold val (pa_items_shift32, and the
\* open-coded form at the head of pa_mmap_alloc).
pa_items(val, unit) == (val + unit - 1) \div unit

\* val rounded up to a multiple of rnd (pa_roundup32, pa_roundup_shift32).
pa_roundup(val, rnd) == ((val + rnd - 1) \div rnd) * rnd

\* 1 << n
Pow2[n \in Nat] == IF n = 0 THEN 1 ELSE 2 * Pow2[n - 1]

\* A run of consecutive atoms, and the atoms it is made of.
Block(a, n) == [atom |-> a, size |-> n]

Pages(b) == b.atom .. (b.atom + b.size - 1)

Apart(b, c) == \/ b.atom + b.size <= c.atom
               \/ c.atom + c.size <= b.atom
=============================================================================
