------------------------------ MODULE PaHeader ------------------------------
(***************************************************************************)
(* The named headers in page 0 of a segment (pa_mmap_header).              *)
(*                                                                         *)
(* Every table of a segment keeps its information in a header, found again *)
(* by its name when the segment is opened again.  Headers are appended in  *)
(* the first page behind the segment's own and never removed; closing and  *)
(* reopening the segment changes nothing here.                             *)
(***************************************************************************)
EXTENDS PaCommon, Sequences

CONSTANTS
    Room,      \* bytes of page 0 behind the segment's own header
    PmhBytes,  \* sizeof(pa_mmap_header_t)
    Align,     \* sizeof(long long)
    Stems,  \* what a header can keep of a name: its first 63 bytes
    LongNames, \* whether callers use names longer than that
    SizeOf     \* the size that callers want for a name, by its prefix

\* What the constants are.
HeaderAssumption ==
    /\ {Room, PmhBytes} \subseteq Nat /\ Align \in Nat \ {0} /\ PmhBytes % Align = 0
    /\ LongNames \subseteq BOOLEAN
    /\ SizeOf \in [Stems -> Nat \ {0}]

VARIABLES
    headers, \* the headers, in their order in the page
    known    \* what the callers of all processes were given so far: the name
             \* asked for and the offset

headerVars == <<headers, known>>

Names == [prefix : Stems, long : LongNames]

\* Where the header after hs starts.
OffsetAfter(hs) ==
    LET off[i \in 0 .. Len(hs)] == IF i = 0 THEN 0 ELSE off[i - 1] + PmhBytes + hs[i].size
    IN  off[Len(hs)]

\* strncmp over the whole field, whose last byte is always the NUL: a name of
\* 64 bytes or more equals no stored name.
Matches(name, h) == ~name.long /\ name.prefix = h.prefix

\* The first header that matches, if there is one.
Hits(name) == {i \in DOMAIN headers : Matches(name, headers[i])}

Note(name, offset) == known' = known \cup {<<name, offset>>}

\* Wrong: the header behind the one that matches.
FoundBehind(name) ==
    \E i \in Hits(name) :
        /\ \A j \in Hits(name) : i <= j
        /\ Note(name, OffsetAfter(SubSeq(headers, 1, i)))
        /\ UNCHANGED headers

\* An existing header is returned as it is.
Found(name) ==
    \E i \in Hits(name) :
        /\ \A j \in Hits(name) : i <= j
        /\ Note(name, OffsetAfter(SubSeq(headers, 1, i - 1)))
        /\ UNCHANGED headers

\* Wrong: the space check forgets the header's own structure.
AppendedOver(name, size) ==
    LET full == pa_roundup(size, Align) IN
    /\ Hits(name) = {} /\ full > 0
    /\ OffsetAfter(headers) + full <= Room
    /\ headers' = Append(headers, [prefix |-> name.prefix, size |-> full])
    /\ Note(name, OffsetAfter(headers))

\* A new header is appended if it fits; strlcpy keeps the prefix.
Appended(name, size) ==
    LET full == pa_roundup(size, Align) IN
    /\ Hits(name) = {} /\ full > 0
    /\ OffsetAfter(headers) + PmhBytes + full <= Room
    /\ headers' = Append(headers, [prefix |-> name.prefix, size |-> full])
    /\ Note(name, OffsetAfter(headers))

\* Out of header space, or a caller that only looks (size 0).
NotMade(name, size) ==
    LET full == pa_roundup(size, Align) IN
    /\ Hits(name) = {}
    /\ full = 0 \/ OffsetAfter(headers) + PmhBytes + full > Room
    /\ UNCHANGED headerVars

pa_mmap_header(name, size) ==
    Found(name) \/ Appended(name, size) \/ NotMade(name, size)

Init == headers = <<>> /\ known = {}

Next ==
    \/ \E name \in Names : pa_mmap_header(name, SizeOf[name.prefix])
    \/ \E name \in Names : pa_mmap_header(name, 0)

Spec == Init /\ [][Next]_headerVars

-----------------------------------------------------------------------------
(* Properties *)

\* The headers stay inside page 0 and are aligned, whatever is asked for in
\* whatever order.
InPageAligned ==
    /\ OffsetAfter(headers) <= Room
    /\ \A i \in DOMAIN headers : OffsetAfter(SubSeq(headers, 1, i - 1)) % Align = 0

\* A name stands for one header and a header for one name, in every process
\* that opens the segment and however many names came before.
NameIsHeader ==
    \A k, m \in known : k[1] = m[1] <=> k[2] = m[2]

\* "If we find an existing header with the given name, we return it, otherwise
\* we add the new one": one header to a name.
OneHeaderPerName ==
    \A k, m \in known : k[1] = m[1] => k[2] = m[2]

\* Both: no name gets memory of another name or of the page after, and none
\* loses its header to a later one (pa_mmap_header).
HeadersSound == InPageAligned /\ NameIsHeader
=============================================================================
