-------------------------------- MODULE Pdb --------------------------------
(***************************************************************************)
(* The users of ParrotDB's pages, one in each behaviour: named headers,    *)
(* arbitrary-size pool, immutable strings, patricia trees.  What they      *)
(* share, the page allocator, is in each of them by its promise.           *)
(***************************************************************************)
EXTENDS Integers, Sequences

\* Those of PaHeader, of PaArb, of PaIstr and of PaPat.  TextBytes and PageSlots are
\* the AtomBytes and the Slots of the strings; those of the pool are computed.
CONSTANTS Room, PmhBytes, Align, Stems, LongNames, SizeOf,
          AtomShift, OffsetShift, MaxPow2, HeaderBytes, LogWrap, SizeWrap, ReqSizes, MaxPages,
          TextBytes, PerPage, PageSlots, MaxIndex, ByteValues, Word, Lengths, ShortBytes, MaxOpens,
          Keys, Heads, MaxNodes, MaxPatOpens

VARIABLES what,   \* the user of this behaviour
          headers, known,
          pool, pri_free, header, held, need,
          istr, opens, block, page, pi_free, pi_left, text, index, given,
          nodes, pp_root, patOpens, added

Header == INSTANCE PaHeader
Arb == INSTANCE PaArb WITH handle <- pool
Istr == INSTANCE PaIstr
    WITH handle <- istr, AtomBytes <- TextBytes, Slots <- PageSlots
Pat == INSTANCE PaPat WITH MaxOpens <- MaxPatOpens, opens <- patOpens

ASSUME PdbAssumption ==
    /\ Header!HeaderAssumption /\ Arb!ArbAssumption
    /\ Istr!IstrAssumption /\ Pat!PatAssumption

hv == <<headers, known>>
av == <<pool, pri_free, header, held, need>>
iv == <<istr, opens, block, page, pi_free, pi_left, text, index, given>>
pv == <<nodes, pp_root, patOpens, added>>

Init ==
    /\ what \in {"header", "arb", "istr", "pat"}
    /\ Header!Init /\ Arb!Init /\ Istr!Init /\ Pat!Init

Next ==
    /\ \/ what = "header" /\ Header!Next /\ UNCHANGED <<av, iv, pv>>
       \/ what = "arb" /\ Arb!Next /\ UNCHANGED <<hv, iv, pv>>
       \/ what = "istr" /\ Istr!Next /\ UNCHANGED <<hv, av, pv>>
       \/ what = "pat" /\ Pat!Next /\ UNCHANGED <<hv, av, iv>>
    /\ UNCHANGED what

Spec == Init /\ [][Next]_<<what, hv, av, iv, pv>>

-----------------------------------------------------------------------------
\* The promises of the users (see each module).
HeadersSound == what = "header" => Header!HeadersSound
PoolSound == what = "arb" => Arb!PoolSound
StringsKept == what = "istr" => Istr!StringsKept
TreeAnswers == what = "pat" => Pat!TreeAnswers
OverlapsRefused == Pat!OverlapsRefused
=============================================================================
