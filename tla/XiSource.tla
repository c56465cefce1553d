------------------------------ MODULE XiSource ------------------------------
(***************************************************************************)
(* The tokenizer of libxi (libxi/xisource.c).  The fields of xi_source_t   *)
(* are a record s, named as in the code without their prefix; bufp is      *)
(* memory indexed from 0, and curp an index into it.  Three fields are not *)
(* in the code: file is what the descriptor has not given yet, chunk the   *)
(* most one read gives, and base the offset in the file of bufp[0].        *)
(***************************************************************************)
EXTENDS Integers, Sequences, FiniteSets

CONSTANTS
    XI_BUFSIZ, XI_BUFSIZ_COPY_WHEN, XI_BUFSIZ_MIN,
    Setups      \* [text, flags, chunk]: what is read, and how

VARIABLES
    setup,          \* what is read
    s, tok,         \* the source and the last token
    whole, wtok     \* those of a reader with the whole file in memory

vars == <<setup, s, tok, whole, wtok>>

NUL == "NUL"
NULL == <<"NULL">>
xi_isspace(ch) == ch \in {" ", "\n"}
isalpha(ch) == ch \in {"a", "b", "DOCTYPE"}

MinOf(S) == CHOOSE n \in S : \A m \in S : n <= m
MaxOf(S) == CHOOSE n \in S : \A m \in S : n >= m

Flag(src, f) == f \in src.flags
At(src, i) == IF i \in DOMAIN src.bufp THEN src.bufp[i] ELSE NUL

\* The bytes from index i up to index j.
Span(src, i, j) == IF i >= j THEN << >> ELSE [k \in 1 .. j - i |-> At(src, i + k - 1)]

(* Text, once it has been taken out of the buffer. *)

Inked(str) == {i \in 1 .. Len(str) : ~ xi_isspace(str[i])}

\* xi_skipws over all of a string: NULL when nothing but white space is left.
SkipLeading(str) ==
    IF Inked(str) = {} THEN NULL ELSE SubSeq(str, MinOf(Inked(str)), Len(str))

Trimmed(str) ==
    IF Inked(str) = {} THEN NULL
    ELSE SubSeq(str, MinOf(Inked(str)), MaxOf(Inked(str)))

Blanks(str) == {i \in 1 .. Len(str) : str[i] = " "}

\* A name ends at the first blank, and what follows it is not parsed here.
NameOf(str) == IF Blanks(str) = {} THEN str ELSE SubSeq(str, 1, MinOf(Blanks(str)) - 1)

RestOf(str) ==
    IF Blanks(str) = {} THEN NULL
    ELSE SkipLeading(SubSeq(str, MinOf(Blanks(str)) + 1, Len(str)))

-----------------------------------------------------------------------------
(* The buffer. *)

xi_source_create(set) ==
    [bufp |-> [i \in 0 .. XI_BUFSIZ - 1 |-> NUL], curp |-> 0, len |-> 0,
     size |-> XI_BUFSIZ, eof |-> FALSE, offset |-> 0, lineno |-> 1, last |-> "NONE",
     flags |-> set.flags, chunk |-> set.chunk, file |-> set.text, base |-> 0]

xi_source_left(src) == src.len - src.curp

xi_source_move_curp(src, newp) ==
    [src EXCEPT !.offset = @ + newp - src.curp, !.curp = newp,
                !.lineno = @ + Cardinality({i \in src.curp .. newp - 1 : At(src, i) = "\n"})]

\* Wrong: the data moves and the current point stays.
ReclaimedUnder(src) ==
    LET left == xi_source_left(src)
    IN IF left = 0 THEN [src EXCEPT !.curp = 0, !.len = 0, !.base = @ + src.curp]
       ELSE IF src.curp > XI_BUFSIZ_COPY_WHEN
       THEN [src EXCEPT !.bufp = [i \in DOMAIN @ |-> IF i < left THEN @[i + src.curp] ELSE @[i]],
                        !.len = left, !.base = @ + src.curp]
       ELSE src

\* Room is made by starting over, or by moving the data to the front.
Reclaimed(src) ==
    LET left == xi_source_left(src)
    IN IF left = 0 THEN [src EXCEPT !.curp = 0, !.len = 0, !.base = @ + src.curp]
       ELSE IF src.curp > XI_BUFSIZ_COPY_WHEN
       THEN [src EXCEPT !.bufp = [i \in DOMAIN @ |-> IF i < left THEN @[i + src.curp] ELSE @[i]],
                        !.len = left, !.curp = 0, !.base = @ + src.curp]
       ELSE src

\* Or the buffer is doubled; running out of memory is left out.
Expanded(src) ==
    IF src.size - src.len >= XI_BUFSIZ_MIN THEN src
    ELSE [src EXCEPT !.size = 2 * @,
                     !.bufp = [i \in 0 .. 2 * src.size - 1 |-> At(src, i)]]

Filled(src, rc) ==
    [src EXCEPT !.bufp = [i \in DOMAIN @ |->
                            IF i - src.len \in 0 .. rc - 1 THEN src.file[i - src.len + 1] ELSE @[i]],
                !.len = @ + rc, !.file = SubSeq(@, rc + 1, Len(@))]

\* The result is -1 at the end, and else whether at least min bytes came.
xi_source_read(src, min) ==
    IF src.eof THEN [s |-> src, rc |-> -1]
    ELSE LET Came(r, rc) ==
                 IF rc <= 0 THEN [s |-> [r EXCEPT !.eof = TRUE], rc |-> -1]
                 ELSE [s |-> Filled(r, rc), rc |-> IF rc >= min THEN 1 ELSE 0]
             From(r) == Came(r, MinOf({r.size - r.len, r.chunk, Len(r.file)}))
         IN From(Expanded(Reclaimed(src)))

xi_source_avail(src, min) ==
    IF xi_source_left(src) >= min THEN [s |-> src, rc |-> xi_source_left(src)]
    ELSE xi_source_read(src, min)

\* Wrong: the search goes on at the index where it left off.
RECURSIVE FindOn(_, _, _)
FindOn(src, ch, offset) ==
    LET Among(src1, hits) ==
            IF hits = {} THEN FindOn(src1, ch, src1.len) ELSE [s |-> src1, off |-> MinOf(hits)]
        From(r) ==
            IF r.rc < 0 THEN [s |-> r.s, off |-> -1]
            ELSE Among(r.s, {i \in offset .. r.s.len - 1 : At(r.s, i) = ch})
    IN From(IF offset >= src.len THEN xi_source_read(src, 0) ELSE [s |-> src, rc |-> 0])

\* A search that reads more data starts again at the current point.
RECURSIVE xi_source_find(_, _, _)
xi_source_find(src, ch, offset) ==
    LET Among(src1, hits) ==
            IF hits = {} THEN xi_source_find(src1, ch, src1.len)
            ELSE [s |-> src1, off |-> MinOf(hits)]
        From(src1, from) == Among(src1, {i \in from .. src1.len - 1 : At(src1, i) = ch})
        Again(r) ==
            IF r.rc < 0 THEN [s |-> r.s, off |-> -1] ELSE From(r.s, r.s.curp)
    IN IF offset >= src.len THEN Again(xi_source_read(src, 0)) ELSE From(src, offset)

-----------------------------------------------------------------------------
(* The tokens.  Each function gives the source it leaves and the token. *)

Token(src, type, data, rest) ==
    [s |-> src, type |-> type, data |-> data, rest |-> rest]

Failed(src) == Token(src, "FAIL", NULL, NULL)

\* The first '>' from off on that two of the given bytes precede.
RECURSIVE FindAfterTwo(_, _, _)
FindAfterTwo(src, ch, off) ==
    LET From(f) ==
            IF f.off < 0 \/ (At(f.s, f.off - 1) = ch /\ At(f.s, f.off - 2) = ch) THEN f
            ELSE FindAfterTwo(f.s, ch, f.off + 1)
    IN From(xi_source_find(src, ">", off))

xi_source_token_comment(src) ==
    LET Kept(body) == IF Flag(src, "TRIM_WS") THEN Trimmed(body) ELSE body
        Comment(next, f) ==
            IF Flag(src, "IGNORE_COMMENTS") THEN Token(next, "SKIP", NULL, NULL)
            ELSE Token(next, "COMMENT", Kept(Span(f.s, f.s.curp + 4, f.off - 2)), NULL)
        Ended(f) ==
            IF f.off < 0 THEN Failed(f.s) ELSE Comment(xi_source_move_curp(f.s, f.off + 1), f)
        Opened(a) ==
            IF a.rc <= 0 THEN Failed(a.s) ELSE Ended(FindAfterTwo(a.s, "-", a.s.curp + 4))
    IN Opened(xi_source_avail(src, 4))

\* The first '>' from off on with a bracket before it, white space between
\* them or not; the result is the byte after the bracket.
RECURSIVE xi_source_find_brklt1(_, _)
xi_source_find_brklt1(src, off) ==
    LET Before(f, inked) ==
            IF inked # {} /\ At(f.s, MaxOf(inked)) = "]" THEN [f EXCEPT !.off = MaxOf(inked) + 1]
            ELSE xi_source_find_brklt1(f.s, f.off + 1)
        From(f) ==
            IF f.off < 0 THEN f
            ELSE Before(f, {i \in 1 .. f.off - 1 : ~ xi_isspace(At(f.s, i))})
    IN From(xi_source_find(src, ">", off))

\* Does what follows a DOCTYPE's name hold an internal subset?
OpensSubset(str) ==
    \/ str[1] = "["
    \/ Blanks(str) # {} /\ MinOf(Blanks(str)) < Len(str) /\ str[MinOf(Blanks(str)) + 1] = "["

\* The name and the rest are pointers from before the second search.
xi_source_token_dtd(src) ==
    LET Ended(g, name, rest) ==
            IF g.off < 0 THEN Token(g.s, "CRASH", NULL, NULL)
            ELSE IF Flag(src, "IGNORE_DTD")
            THEN Token(xi_source_move_curp(g.s, g.off + 1), "SKIP", NULL, NULL)
            ELSE Token(xi_source_move_curp(g.s, g.off + 1), "DTD", name, rest)
        EndOf(f, inner) ==
            IF inner # NULL /\ OpensSubset(inner)
            THEN xi_source_find_brklt1(f.s, f.off - Len(inner)) ELSE f
        Named(f, name, rest) ==
            Ended(EndOf(f, IF rest # NULL /\ name = <<"DOCTYPE">> THEN RestOf(rest) ELSE NULL),
                  name, rest)
        Body(f, body) == Named(f, NameOf(body), RestOf(body))
        From(f) == IF f.off < 0 THEN Failed(f.s) ELSE Body(f, Span(f.s, f.s.curp + 2, f.off))
    IN From(xi_source_find(src, ">", src.curp))

\* The start of the data is an index from before the search, and is lost when
\* the search moves the data or the buffer.
xi_source_token_bracket(src) ==
    LET Data(a, f) ==
            IF f.s.size # a.size THEN <<"freed">> ELSE Span(f.s, a.curp + 4, f.off - 2)
        Ended(a, f, next) ==
            IF Span(a, a.curp, a.curp + 4) # <<"<", "!", "[", "CDATA[">>
            THEN Token(next, "SKIP", NULL, NULL)
            ELSE Token(next, "CDATA", Data(a, f), NULL)
        From(a, f) ==
            IF f.off < 0 THEN Failed(f.s) ELSE Ended(a, f, xi_source_move_curp(f.s, f.off + 1))
        Opened(a) ==
            IF a.rc <= 0 THEN Failed(a.s) ELSE From(a.s, FindAfterTwo(a.s, "]", a.s.curp + 3))
    IN Opened(xi_source_avail(src, 4))

xi_source_token_magic(src) ==
    LET Kind(src1, ch) ==
            IF ch = "-" /\ At(src1, src1.curp + 3) = "-" THEN xi_source_token_comment(src1)
            ELSE IF ch = "[" THEN xi_source_token_bracket(src1)
            ELSE IF isalpha(ch) THEN xi_source_token_dtd(src1)
            ELSE Failed(src1)
        From(a) == IF a.rc <= 0 THEN Failed(a.s) ELSE Kind(a.s, At(a.s, a.s.curp + 2))
    IN From(xi_source_avail(src, 4))

xi_source_token_pi(src) ==
    LET Body(next, body) ==
            IF body = NULL THEN Failed(next) ELSE Token(next, "PI", NameOf(body), RestOf(body))
        Ended(f) ==
            IF f.off < f.s.curp + 4 \/ At(f.s, f.off - 1) # "?" THEN Failed(f.s)
            ELSE Body(xi_source_move_curp(f.s, f.off + 1),
                      SkipLeading(Span(f.s, f.s.curp + 2, f.off - 1)))
        Opened(a) ==
            IF a.rc <= 0 THEN Failed(a.s) ELSE Ended(xi_source_find(a.s, ">", a.s.curp))
    IN Opened(xi_source_avail(src, 4))

xi_source_token_open(src) ==
    LET Body(f, type, body) ==
            Token(xi_source_move_curp(f.s, f.off + 1), type, NameOf(body), RestOf(body))
        From(f) ==
            IF f.off < 0 THEN Failed(f.s)
            ELSE IF f.off > f.s.curp + 1 /\ At(f.s, f.off - 1) = "/"
            THEN Body(f, "EMPTY", Span(f.s, f.s.curp + 1, f.off - 1))
            ELSE Body(f, "OPEN", Span(f.s, f.s.curp + 1, f.off))
    IN From(xi_source_find(src, ">", src.curp))

xi_source_token_close(src) ==
    LET From(f) ==
            IF f.off < 0 THEN Failed(f.s)
            ELSE Token(xi_source_move_curp(f.s, f.off + 1), "CLOSE",
                       Span(f.s, f.s.curp + 2, f.off), NULL)
    IN From(xi_source_find(src, ">", src.curp))

\* Wrong: text that the file ends is not taken.
TextKept(src) ==
    LET Text(f, end) ==
            Token(IF f.off < 0 THEN f.s ELSE xi_source_move_curp(f.s, end),
                  "TEXT", Span(f.s, f.s.curp, end), NULL)
        From(f) == Text(f, IF f.off < 0 THEN f.s.len ELSE f.off)
    IN From(xi_source_find(src, "<", src.curp))

\* Text ends at the next tag, or with the file.
xi_source_token_text(src) ==
    LET Kept(body) == IF Flag(src, "TRIM_WS") THEN Trimmed(body) ELSE body
        Text(src1, end) ==
            Token(xi_source_move_curp(src1, end), "TEXT", Kept(Span(src1, src1.curp, end)), NULL)
        From(f) == Text(f.s, IF f.off < 0 THEN f.s.len ELSE f.off)
    IN From(xi_source_find(src, "<", src.curp))

\* The byte is looked at before the index is compared with the data, and the
\* index is kept when a read moves the data.
RECURSIVE IgnoreFrom(_, _)
IgnoreFrom(src, off) ==
    LET On(r) == IF r.rc < 0 THEN r.s ELSE IgnoreFrom(r.s, off + 1)
    IN IF ~ xi_isspace(At(src, off))
       THEN IF At(src, off) = "<" THEN xi_source_move_curp(src, off) ELSE src
       ELSE On(IF off >= src.len THEN xi_source_read(src, 0) ELSE [s |-> src, rc |-> 0])

xi_source_ignorews(src) == IgnoreFrom(src, src.curp)

\* A token that starts with '<', by the byte after it.
TagOf(src, ch) ==
    CASE ch = "/" -> xi_source_token_close(src)
      [] ch = "!" -> xi_source_token_magic(src)
      [] ch = "?" -> xi_source_token_pi(src)
      [] OTHER -> xi_source_token_open(src)

\* Wrong: a tag starts where the data at hand has two bytes of it.
TagHere(src) ==
    IF xi_source_left(src) < 2 THEN Token(src, "EOF", NULL, NULL)
    ELSE TagOf(src, At(src, src.curp + 1))

\* That byte is read first.
Tag(src) ==
    LET From(a) ==
            IF a.rc <= 0 THEN Token(a.s, "EOF", NULL, NULL)
            ELSE TagOf(a.s, At(a.s, a.s.curp + 1))
    IN From(xi_source_avail(src, 2))

\* The next token that is not skipped, and the source with its type recorded.
RECURSIVE xi_source_next_token(_)
xi_source_next_token(src) ==
    LET Unskipped(t) ==
            IF t.type = "SKIP" \/ (t.type = "TEXT" /\ t.data \in {NULL, << >>})
            THEN xi_source_next_token(t.s)
            ELSE [t EXCEPT !.s.last = t.type]
        Here(r) ==
            IF r.rc < 0 THEN Token(r.s, "EOF", NULL, NULL)
            ELSE Unskipped(IF At(r.s, r.s.curp) = "<" THEN Tag(r.s) ELSE xi_source_token_text(r.s))
        From(w) ==
            Here(IF xi_source_left(w) = 0 THEN xi_source_read(w, 0) ELSE [s |-> w, rc |-> 0])
    IN From(IF src.last # "TEXT" /\ Flag(src, "IGNORE_WS") THEN xi_source_ignorews(src) ELSE src)

-----------------------------------------------------------------------------
\* The source as it would be with the whole file in memory.
Whole(set) ==
    [xi_source_create(set) EXCEPT
        !.bufp = [i \in 0 .. Len(set.text) - 1 |-> set.text[i + 1]],
        !.len = Len(set.text), !.eof = TRUE, !.file = << >>]

Init ==
    /\ setup \in Setups
    /\ s = xi_source_create(setup)
    /\ tok = Token(0, "NONE", NULL, NULL)
    /\ whole = Whole(setup)
    /\ wtok = tok

\* A caller asks for tokens until the input ends or one cannot be told.
NextToken ==
    /\ tok.type \notin {"EOF", "FAIL", "CRASH"}
    /\ \E t \in {xi_source_next_token(s)}, w \in {xi_source_next_token(whole)} :
          /\ s' = t.s /\ tok' = [t EXCEPT !.s = 0]
          /\ whole' = w.s /\ wtok' = [w EXCEPT !.s = 0]
    /\ UNCHANGED setup

Next == NextToken

Spec == Init /\ [][Next]_vars

-----------------------------------------------------------------------------
\* What is left in the buffer is what the file has there, and the offset and
\* the line number in messages are those of the current point, however often
\* the data was moved, the buffer doubled or started over (xi_source_read).
WindowHolds ==
    /\ s.offset = s.base + s.curp
    /\ \A i \in s.curp .. s.len - 1 : s.bufp[i] = setup.text[s.base + i + 1]
    /\ s.lineno = 1 + Cardinality({i \in 1 .. s.offset : setup.text[i] = "\n"})

\* A token does not depend on where reads fall: it is the one that is found
\* with the whole file in memory, and ends at the same byte
\* (xi_source_find).  The data of CDATA and DTD tokens is kept by pointers
\* across reads, so only their extent is compared.  A caller is told of an
\* early end only in the last six bytes: fewer than four in the buffer, and
\* fewer than four from the read that asked for four (xi_source_avail).
\* White space that is ignored is left aside: what is ignored does depend on
\* where reads fall (xi_source_ignorews).
TokensAsWhole ==
    /\ WindowHolds
    /\ \/ Flag(s, "IGNORE_WS")
       \/ /\ tok.type = wtok.type
          /\ s.offset = whole.offset
          /\ tok.type \notin {"CDATA", "DTD"} => tok = wtok
       \/ /\ tok.type \in {"EOF", "FAIL"}
          /\ wtok.type \in {"EOF", "FAIL"} \/ Len(setup.text) - s.offset < 7

\* Every call takes something from the input, or tells the caller that it
\* ended or cannot be told, so that a caller that asks for all tokens ends
\* (xi_source_next_token).
TokensAdvance ==
    [][tok'.type \in {"EOF", "FAIL", "CRASH"} \/ s'.offset > s.offset]_vars
=============================================================================
