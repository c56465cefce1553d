----------------------------- MODULE SlaxLexer -----------------------------
(***************************************************************************)
(* The SLAX lexer (libslax/slaxlexer.c): slaxYylex and what it calls, over *)
(* the buffer of SlaxInput.  A step is one call of slaxYylex by the parser *)
(* or one of the parser's actions that the lexer depends on, which turn    *)
(* keywords on or off.  Characters are members of a small alphabet and a   *)
(* keyword is one letter of it; a token is its type and its text.          *)
(***************************************************************************)
EXTENDS SlaxInput, Integers, Sequences, FiniteSets

CONSTANTS
    Inputs,     \* the files, sequences of characters
    Modes       \* of M_PARSE_FULL, M_PARSE_XPATH, M_JSON

VARIABLES
    sd,         \* the buffer
    parse,      \* sd_parse
    flags,      \* of sd_flags, the ones the lexer reads
    flagsNext,  \* sd_flags_next
    ttype,      \* sd_ttype: a token to be returned without lexing, or "none"
    last,       \* sd_last
    tok,        \* the last token: its type, and where in the file it is
    text        \* the whole input

vars == <<sd, parse, flags, flagsNext, ttype, last, tok, text>>

isdigit(ch) == ch \in {"0", "1"}
isalnum(ch) == isdigit(ch) \/ ch \in {"a", "c", "e", "f", "m", "n", "o", "t", "v", "x"}

\* Is the given character valid inside bare word tokens?
slaxIsBareChar(ch) == isalnum(ch) \/ ch \in {":", "_", ".", "-"}

\* Is the given character valid inside variable names?
slaxIsVarChar(ch) == isalnum(ch) \/ ch \in {"-", "_", ".", ":"}

\* The keywords, one of each kind of km_flags (text, call, var, or, null), and
\* template.
keywordMap ==
    [t |-> {"KMF_NODE_TEST"}, c |-> {"KMF_SLAX_KW", "KMF_STMT_KW"},
     v |-> {"KMF_SLAX_KW"}, m |-> {"KMF_SLAX_KW"}, o |-> {"KMF_XPATH_KW"}, n |-> {"KMF_JSON_KW"}]

\* The literal tokens of one and two characters.
singleWide ==
    {"@", "}", "]", ",", ":", ")", ".", ";", "=", ">", "<", "-", "!",
     "{", "[", "(", "+", "?", "/", "*", "_", "|"}

slaxDoubleWide(ch1, ch2) ==
    IF <<ch1, ch2>> = <<":", "=">> THEN ":="
    ELSE IF <<ch1, ch2>> \in {<<"&", "&">>, <<":", ":">>, <<"=", "=">>, <<".", ".">>,
                              <<"/", "/">>, <<"|", "|">>, <<">", "=">>, <<"<", "=">>,
                              <<"!", "=">>, <<"+", "=">>}
    THEN "L_DOUBLE" ELSE "none"

slaxTripleWide(ch1, ch2, ch3) == <<ch1, ch2, ch3>> = <<".", ".", ".">>

\* The tokens that may precede the multiplication operator: the ones after
\* M_MULTIPLICATION_TEST_LAST.
MultiplicationTest ==
    {"L_ASTERISK", "]", ")", ".", "T_AXIS_NAME", "T_BARE", "T_FUNCTION_NAME",
     "T_NUMBER", "T_QUOTED", "T_UNTERMINATED_STRING", "T_VAR", "M_ERROR"}

\* A call first adds to the flags the ones recorded for it.
InForce == flags \cup flagsNext
SLAX_KEYWORDS_ALLOWED == "SDF_NO_SLAX_KEYWORDS" \notin InForce
XPATH_KEYWORDS_ALLOWED == "SDF_NO_XPATH_KEYWORDS" \notin InForce
JSON_KEYWORDS_ALLOWED == "SDF_JSON_KEYWORDS" \in InForce

\* The first index from i on, within the data, whose character is not in P.
Skip(d, i, P(_)) ==
    CHOOSE j \in i .. d.sd_len :
        /\ j = d.sd_len \/ ~P(At(d, j))
        /\ \A k \in i .. j - 1 : P(At(d, k))

\* Where the scan of a loop whose index is already past the data ends.
SkipFrom(d, i, P(_)) == IF i >= d.sd_len THEN i ELSE Skip(d, i, P)

-----------------------------------------------------------------------------
(* Keywords *)

slaxKeywordMatch(d) ==
    /\ d.sd_start < d.sd_len
    /\ At(d, d.sd_start) \in DOMAIN keywordMap
    /\ ~slaxIsBareChar(At(d, d.sd_start + 1))

\* Is the "call" that was matched a statement: is a name, and not the rest of
\* an expression, what follows?
StatementFollows(d) ==
    LET i == SkipFrom(d, d.sd_cur + 1, isspace)
        Ends(ch) == ch \in {NUL, "(", ";"}
        stops == {j \in i + 2 .. d.sd_len + 1 : Ends(At(d, j)) \/ slaxIsBareChar(At(d, j))}
    IN /\ i < d.sd_len
       /\ \/ At(d, i) # "_" /\ slaxIsBareChar(At(d, i))
          \/ /\ At(d, i) = "_"
             /\ \/ slaxIsBareChar(At(d, i + 1)) \/ Ends(At(d, i + 1))
                \/ /\ isspace(At(d, i + 1))
                   /\ stops = {} \/ Ends(At(d, CHOOSE j \in stops : \A k \in stops : j <= k))

\* Is an open parenthesis what follows the node test that was matched?
ParenFollows(d) ==
    LET Blank(ch) == ch = " "
        i == SkipFrom(d, d.sd_cur + 1, Blank)
    IN i < d.sd_len /\ At(d, i) = "("

slaxKeyword(d) ==
    LET ch == At(d, d.sd_start)
        is == keywordMap[ch]
    IN IF ~slaxKeywordMatch(d) THEN "none"
       ELSE IF \/ JSON_KEYWORDS_ALLOWED /\ "KMF_JSON_KW" \in is
               \/ SLAX_KEYWORDS_ALLOWED /\ "KMF_SLAX_KW" \in is
               \/ XPATH_KEYWORDS_ALLOWED /\ "KMF_XPATH_KW" \in is
               \/ last \in {":=", "="} /\ "KMF_STMT_KW" \in is /\ StatementFollows(d)
               \/ "KMF_NODE_TEST" \in is /\ ParenFollows(d)
       THEN ch ELSE "none"

-----------------------------------------------------------------------------
(* Looking ahead; each scan says where it left the buffer and what it found *)

\* Wrong: a name and the "::" after it are on one line.
LookAheadHere(d, cur) ==
    LET i == SkipFrom(d, cur, isspace)
    IN [sd |-> d, found |-> i + 2 <= d.sd_len /\ At(d, i) = ":" /\ At(d, i + 1) = ":"]

\* Look ahead for "::" after white space.  The index cur is the function's
\* own: a read that shifts the buffer does not adjust it.
RECURSIVE slaxLexerLookAhead(_, _)
slaxLexerLookAhead(d, cur) ==
    IF ~isspace(At(d, cur))
    THEN [sd |-> d, found |-> cur + 2 <= d.sd_len /\ At(d, cur) = ":" /\ At(d, cur + 1) = ":"]
    ELSE LET On(got) == IF got.rc THEN [sd |-> got.sd, found |-> FALSE]
                        ELSE slaxLexerLookAhead(got.sd, cur + 1)
         IN On(IF cur + 2 < d.sd_len THEN [sd |-> d, rc |-> FALSE] ELSE slaxGetInput(d, FALSE))

\* Scan forward for the next character that doesn't fit in a bare word, but
\* allow "foo:*"; found says that an axis name ends here.
RECURSIVE BareWord(_)
BareWord(d) ==
    LET Fits(e, ch) ==
            \/ slaxIsBareChar(ch)
            \/ e.sd_cur > e.sd_start /\ ch = "*" /\ At(e, e.sd_cur - 1) = ":"
        Past(ahead) ==
            IF ~ahead.found /\ Fits(ahead.sd, At(ahead.sd, ahead.sd.sd_cur))
            THEN BareWord([ahead.sd EXCEPT !.sd_cur = @ + 1]) ELSE ahead
    IN IF d.sd_cur >= d.sd_len THEN [sd |-> d, found |-> FALSE]
       ELSE Past(slaxLexerLookAhead(d, d.sd_cur))

\* Is an open parenthesis what follows the name?  The index look is another
\* one that a shift leaves behind.
RECURSIVE ParenAhead(_, _)
ParenAhead(d, look) ==
    LET i == SkipFrom(d, look, isspace)
        On(got) == IF got.rc \/ got.sd.sd_len = d.sd_len THEN [sd |-> got.sd, found |-> FALSE]
                   ELSE ParenAhead(got.sd, i)
    IN IF i < d.sd_len THEN [sd |-> d, found |-> At(d, i) = "("]
       ELSE On(slaxGetInput(d, FALSE))

\* Scan for the end of a string from the character after its open quote.
RECURSIVE QuotedEnd(_, _)
QuotedEnd(d, quote) ==
    LET Bump(e, ch) == ch = "\\" /\ parse # "M_PARSE_XPATH" /\ e.sd_cur < e.sd_len
        Past(move, ch) ==
            IF move.rc THEN [sd |-> move.sd, rc |-> "T_UNTERMINATED_STRING"]
            ELSE QuotedEnd([move.sd EXCEPT !.sd_cur = IF Bump(move.sd, ch) THEN @ + 1 ELSE @], quote)
        From(got) ==
            IF got.rc THEN [sd |-> got.sd, rc |-> "T_UNTERMINATED_STRING"]
            ELSE IF At(got.sd, got.sd.sd_cur) = quote
            THEN [sd |-> [got.sd EXCEPT !.sd_cur = IF @ < got.sd.sd_len THEN @ + 1 ELSE @],
                  rc |-> "T_QUOTED"]
            ELSE Past(slaxMoveCur(got.sd), At(got.sd, got.sd.sd_cur))
    IN From(IF d.sd_cur = d.sd_len THEN slaxGetInput(d, FALSE) ELSE [sd |-> d, rc |-> FALSE])

\* Drain (but do not discard) the comment; rc says that the file ended in it.
RECURSIVE slaxDrainComment(_)
slaxDrainComment(d) ==
    LET From(e, rc) ==
            IF rc THEN [sd |-> e, rc |-> TRUE]
            ELSE IF At(e, e.sd_cur) = "*" /\ At(e, e.sd_cur + 1) = "/"
            THEN [sd |-> [e EXCEPT !.sd_cur = @ + 2], rc |-> FALSE]
            ELSE slaxDrainComment([e EXCEPT !.sd_cur = @ + 1,
                     !.sd_line = IF At(e, e.sd_cur) = "\n" THEN @ + 1 ELSE @])
        Got(got) == From(got.sd, got.rc)
    IN IF d.sd_cur < d.sd_len THEN From(d, FALSE) ELSE Got(slaxGetInput(d, TRUE))

\* Move to the start of the next token, past white space and comments; rc
\* says that there is none.
RECURSIVE NextText(_)
NextText(d) ==
    LET fresh == [d EXCEPT !.sd_start = d.sd_cur]
        Comment(e) == SLAX_KEYWORDS_ALLOWED /\ At(e, e.sd_cur) = "/" /\ At(e, e.sd_cur + 1) = "*"
        Drained(got) == IF got.rc THEN got ELSE NextText(got.sd)
        Text(e) == IF Comment(e) THEN Drained(slaxDrainComment(e)) ELSE [sd |-> e, rc |-> FALSE]
        Moved(e, to) ==
            [e EXCEPT !.sd_cur = to,
                !.sd_line = @ + Cardinality({i \in e.sd_cur .. to - 1 : At(e, i) = "\n"})]
        Past(e) ==
            IF e.sd_cur = e.sd_len THEN NextText(e) ELSE Text([e EXCEPT !.sd_start = e.sd_cur])
        From(got) ==
            IF got.rc THEN got
            ELSE Past(Moved(got.sd, SkipFrom(got.sd, got.sd.sd_cur, isspace)))
    IN From(IF d.sd_cur = d.sd_len THEN slaxGetInput(fresh, TRUE) ELSE [sd |-> fresh, rc |-> FALSE])

-----------------------------------------------------------------------------
(* The lexer *)

Ended(d, n, rc) == [sd |-> [d EXCEPT !.sd_cur = @ + n], rc |-> rc]

\* A number, with an exponent's sign only after an exponent.
NumberEnd(d) ==
    LET Part(i) == \/ isdigit(At(d, i)) \/ At(d, i) \in {".", "e"}
                   \/ /\ At(d, i) \in {"+", "-"}
                      /\ \E k \in d.sd_cur .. i - 1 : At(d, k) = "e"
    IN CHOOSE j \in d.sd_cur .. d.sd_len :
         /\ j = d.sd_len \/ ~Part(j)
         /\ \A k \in d.sd_cur .. j - 1 : Part(k)

\* The literals of one character; "none" goes on to what follows them.
SingleWide(d, ch1, ch2) ==
    LET JsonDigit(ch) == isdigit(ch) \/ ch \in {".", "+", "-", "e"}
        next == [d EXCEPT !.sd_cur = @ + 1]
        end == SkipFrom(next, next.sd_cur, JsonDigit)
    IN CASE ch1 = "*" -> Ended(d, 1, IF last \in MultiplicationTest THEN "*" ELSE "L_ASTERISK")
         [] ch1 = "." /\ isdigit(ch2) -> Ended(d, 1, "none")
         [] ch1 = "_" -> Ended(d, 1, IF slaxIsBareChar(ch2) THEN "none" ELSE "_")
         [] parse = "M_JSON" /\ ch1 \in {"+", "-"} ->
                [sd |-> [next EXCEPT !.sd_cur = end],
                 rc |-> IF end > next.sd_cur THEN "T_NUMBER" ELSE ch1]
         [] OTHER -> Ended(d, 1, ch1)

\* The name "#default", here "#f", is a word too.
PastDefault(d) ==
    IF /\ d.sd_cur = d.sd_start /\ At(d, d.sd_cur) = "#"
       /\ d.sd_len - d.sd_cur > 2 /\ At(d, d.sd_cur + 1) = "f"
       /\ ~slaxIsBareChar(At(d, d.sd_cur + 2))
    THEN [d EXCEPT !.sd_cur = @ + 2] ELSE d

\* A word that is no literal, string or variable.
Word(d, ch1, ch2) ==
    LET Hex(ch) == isdigit(ch) \/ ch \in {"a", "c", "e", "f"}
        JsonWord(ch) == isalnum(ch) \/ ch = "_"
        keyword == slaxKeyword(d)
        Ahead(ahead) ==
            IF ahead.found THEN [sd |-> ahead.sd, rc |-> "T_FUNCTION_NAME"]
            ELSE [sd |-> PastDefault(ahead.sd), rc |-> "T_BARE"]
        Bare(bare) ==
            IF bare.found THEN [sd |-> bare.sd, rc |-> "T_AXIS_NAME"]
            ELSE Ahead(ParenAhead(bare.sd, bare.sd.sd_cur))
    IN IF keyword # "none" THEN Ended(d, 1, keyword)
       ELSE IF ch1 = "0" /\ ch2 = "x"
       THEN [sd |-> [d EXCEPT !.sd_cur = SkipFrom(d, d.sd_cur + 2, Hex)], rc |-> "T_NUMBER"]
       ELSE IF isdigit(ch1) \/ (ch1 = "." /\ isdigit(ch2))
       THEN [sd |-> [d EXCEPT !.sd_cur = NumberEnd(d)], rc |-> "T_NUMBER"]
       ELSE IF parse = "M_JSON"
       THEN [sd |-> [d EXCEPT !.sd_cur = SkipFrom(d, d.sd_cur, JsonWord)], rc |-> "T_BARE"]
       ELSE Bare(BareWord(d))

\* The type of the token at the start of the text.
TokenOf(d) ==
    LET Ch(i) == IF d.sd_cur + i < d.sd_len THEN At(d, d.sd_cur + i) ELSE NUL
        ch1 == At(d, d.sd_cur)
        double == slaxDoubleWide(ch1, Ch(1))
        single == SingleWide(d, ch1, Ch(1))
        Quoted(move) ==
            IF move.rc THEN [sd |-> move.sd, rc |-> "EOF"] ELSE QuotedEnd(move.sd, ch1)
    IN IF slaxTripleWide(ch1, Ch(1), Ch(2)) THEN Ended(d, 3, "L_DOTDOTDOT")
       ELSE IF double # "none" THEN Ended(d, 2, double)
       ELSE IF ch1 \in singleWide /\ single.rc # "none" THEN single
       ELSE IF ch1 \in {"'", "\""} THEN Quoted(slaxMoveCur(d))
       ELSE IF ch1 = "$"
       THEN [sd |-> [d EXCEPT !.sd_cur = SkipFrom(d, d.sd_cur + 1, slaxIsVarChar)], rc |-> "T_VAR"]
       ELSE Word(IF ch1 \in singleWide THEN single.sd ELSE d, ch1, Ch(1))

\* The core of the lexer: the type of the first token in the input.
slaxLexer(d) ==
    LET Here(got) == IF got.rc THEN [sd |-> got.sd, rc |-> "EOF"] ELSE TokenOf(got.sd)
    IN Here(NextText(d))

\* Wrong: a token without text is returned again and again.
Stuck(d) == d

\* Nothing fits the next character: go past it.
Unstuck(d) == IF d.sd_cur < d.sd_len THEN [d EXCEPT !.sd_cur = @ + 1] ELSE d

\* What slaxYylex makes of a token: names that are operators, functions or
\* templates, and the token without text.
Classified(lexed) ==
    LET d == lexed.sd
        i == SkipFrom(d, d.sd_cur, isspace)
        rc1 == IF lexed.rc = "o" /\ last \notin MultiplicationTest THEN "T_BARE" ELSE lexed.rc
        rc2 == IF rc1 = "T_BARE" /\ parse # "M_JSON" /\ i < d.sd_len /\ At(d, i) = "("
               THEN "T_FUNCTION_NAME" ELSE rc1
        rc3 == IF rc2 = "T_FUNCTION_NAME" /\ last = "m" THEN "T_BARE" ELSE rc2
        empty == rc3 # "EOF" /\ d.sd_start = d.sd_cur
    IN [sd |-> IF empty THEN Unstuck(d) ELSE d,
        last |-> rc3,
        rc |-> IF empty THEN "M_ERROR" ELSE rc3]

Token(result) ==
    [type |-> result.rc, from |-> result.sd.base + result.sd.sd_start,
     to |-> result.sd.base + result.sd.sd_cur]

Lex(d) == Classified(slaxLexer([d EXCEPT !.sd_start = d.sd_cur]))

\* The flags that stop keywords after a keyword whose operand is a name.
KeywordsOff(rc) ==
    CASE rc \in {"v", "m"} -> {"SDF_NO_SLAX_KEYWORDS"}
      [] rc = "c" -> {"SDF_NO_SLAX_KEYWORDS", "SDF_NO_XPATH_KEYWORDS"}
      [] OTHER -> {}

-----------------------------------------------------------------------------
(* The parser and its lexer *)

\* Where the lexer should start: in a file, past a byte order mark, or a first
\* line of "#!".
Start(mode, txt) ==
    LET n == IF txt # << >> /\ txt[1] = BOM THEN 1 ELSE 0
        ends == {i \in 1 .. Len(txt) : i = Len(txt) \/ txt[i] = "\n"}
    IN IF mode = "M_PARSE_XPATH" THEN 0
       ELSE IF Len(txt) > n + 1 /\ txt[n + 1] = "#" /\ txt[n + 2] = "!"
       THEN CHOOSE i \in ends : \A j \in ends : i <= j
       ELSE n

Init ==
    /\ text \in Inputs
    /\ parse \in Modes
    /\ sd = IF parse = "M_PARSE_XPATH" THEN StringData(text) ELSE NewData(text)
    /\ flags = CASE parse = "M_PARSE_FULL" -> {}
                 [] parse = "M_PARSE_XPATH" -> {"SDF_NO_SLAX_KEYWORDS"}
                 [] OTHER -> {"SDF_JSON_KEYWORDS"}
    /\ flagsNext = {}
    /\ ttype = parse
    /\ last = "none"
    /\ tok = [type |-> "none", from |-> Start(parse, text), to |-> Start(parse, text)]

\* The token a parser was seeded with, to choose its grammar.
Seeded ==
    /\ ttype # "none"
    /\ ttype' = "none"
    /\ tok' = [tok EXCEPT !.type = ttype]
    /\ UNCHANGED <<sd, parse, flags, flagsNext, last, text>>

\* A token is lexed with the flags the last one left behind.
slaxYylex ==
    /\ ttype = "none"
    /\ tok.type # "EOF"
    /\ \E result \in {Lex(sd)} :
          /\ sd' = result.sd
          /\ last' = result.last
          /\ tok' = Token(result)
          /\ flags' = InForce \cup KeywordsOff(result.rc)
          /\ flagsNext' = KeywordsOff(result.rc)
    /\ UNCHANGED <<parse, ttype, text>>

\* The end of a statement, or the start of an expression, in the grammar.
ALL_KEYWORDS_ON ==
    /\ tok.type \in {";", "{", "}"} /\ parse = "M_PARSE_FULL"
    /\ flags' = flags \ {"SDF_NO_SLAX_KEYWORDS", "SDF_NO_XPATH_KEYWORDS"}
    /\ UNCHANGED <<sd, parse, flagsNext, ttype, last, tok, text>>

SLAX_KEYWORDS_OFF ==
    /\ tok.type \in {"=", ":=", "("} /\ parse = "M_PARSE_FULL"
    /\ flags' = flags \cup {"SDF_NO_SLAX_KEYWORDS"}
    /\ UNCHANGED <<sd, parse, flagsNext, ttype, last, tok, text>>

Next == Seeded \/ slaxYylex \/ ALL_KEYWORDS_ON \/ SLAX_KEYWORDS_OFF

Spec == Init /\ [][Next]_vars

-----------------------------------------------------------------------------
(* Properties *)

\* The bytes from the token's start to the end of the data are the ones of
\* the file, in order, and what follows them there is still to be read:
\* no shift, growth or refill of slaxGetInput loses or repeats one.
BufferIsWindow ==
    /\ \A i \in sd.sd_start .. sd.sd_len - 1 : At(sd, i) = text[sd.base + i + 1]
    /\ sd.sd_file => text = SubSeq(text, 1, sd.base + sd.sd_len) \o sd.file
    /\ sd.sd_start <= sd.sd_cur /\ sd.sd_cur <= sd.sd_len

\* The whole file in one buffer that is never shifted, read up to pos.
Whole(pos) ==
    LET d == StringData(text \o [i \in 1 .. SD_BUF_FUDGE |-> NUL])
    IN [d EXCEPT !.sd_len = Len(text), !.sd_cur = pos, !.sd_file = sd.sd_file, !.SDF_EOF = TRUE]

Agrees(result, whole) == Token(result) = Token(whole) /\ result.last = whole.last

\* Text that is white space and comments only.
Blank(from, to) ==
    \A k \in from + 1 .. to :
        \/ isspace(text[k])
        \/ \E i \in from + 1 .. k, j \in k .. to :
             /\ i + 1 < j /\ text[i] = "/" /\ text[i + 1] = "*"
             /\ text[j - 1] = "*" /\ text[j] = "/"

\* The two cases in which what the code makes of a token is known to depend
\* on how much of the file is in the buffer.  Stale: a look-ahead goes on with
\* an index from before a shift.  Unread: slaxKeyword looks for what follows
\* "call" in an initial value no further than the data at hand.
Stale(result) ==
    /\ result.last \in {"T_BARE", "T_FUNCTION_NAME", "T_AXIS_NAME"}
    /\ result.sd.base # NextText(sd).sd.base
Unread(d) ==
    /\ At(d, d.sd_cur) = "c" /\ last \in {"=", ":="}
    /\ SkipFrom(d, d.sd_cur + 1, isspace) >= d.sd_len

\* What the lexer makes of the text, in this buffer and with all of it.
SameAsWhole(result, whole) ==
    Stale(result) \/ Unread(NextText(sd).sd) \/ Agrees(result, whole)

\* A token is the same whatever the buffer holds beyond it: the refills while
\* white space, comments, strings and the look-aheads after a name are read
\* lose nothing of the file and do not show, but for the two cases above.
LexedAsWhole ==
    [][slaxYylex => BufferIsWindow /\ SameAsWhole(Lex(sd), Lex(Whole(tok.to)))]_vars

\* Between a token and the next there is nothing but white space and
\* comments, no text belongs to two tokens, and every call takes something
\* from the file until it ends, even when what is there fits no token: the
\* parser never asks forever.
TextCovered ==
    [][slaxYylex =>
          /\ tok.to <= tok'.from /\ Blank(tok.to, tok'.from)
          /\ tok'.to > tok.to \/ tok'.type = "EOF"]_vars
=============================================================================
