----------------------------- MODULE MCReaders -----------------------------
(***************************************************************************)
(* The readers of input, one in each behaviour: the lexer of SLAX over its *)
(* input buffer, of libxi the source and the parser, the loading of        *)
(* scripts and extension libraries, and JSON with YAML.                    *)
(***************************************************************************)
EXTENDS SlaxLoader, SlaxInput, XiTree, TLC

CONSTANTS
    XI_BUFSIZ, XI_BUFSIZ_COPY_WHEN, XI_BUFSIZ_MIN,
    MaxTokens

VARIABLES
    what,   \* the reader of this behaviour
    sd, parse, flags, flagsNext, ttype, last, tok, text,
    setup, s, xitok, whole, wtok,
    parser, script, read, rulebook, default, seen, kept, open,
    stage, opt, json, count, items, want, opened, doc, lines

-----------------------------------------------------------------------------
(* Files of three and four lines, each shorter than the room that is kept  *)
(* free, and a buffer that grows once and shifts often.                    *)

\* Lines that end in a name, that start with what may follow one, and lines
\* with a string, a comment, a keyword.
Lines ==
    {<<"a", "\n">>, <<":", ":", "a", "(", "\n">>, <<"(", "c", " ", "a", ";", "\n">>,
     <<"'", "a", "\\", "'", ";", "\n">>, <<"/", "*", "#", "\n">>, <<"*", "/", "=", "c", "\n">>}

\* Lines for the rest: a first line to skip, variables, numbers, literals,
\* the other keywords, characters that start no token.
OddLines ==
    {<<"#", "!", ";", "\n">>, <<BOM, "$", "a", ":", "\n">>, <<"0", "x", "e", "g", "1", "\n">>,
     <<"1", ".", "e", "-", "1", "\n">>, <<".", ".", ".", "*", "\n">>, <<"_", "a", " ", "o", "\n">>,
     <<"m", " ", "t", "(", "\n">>, <<"v", " ", "#", "f", " ", "n">>, <<"=", "c", "_", " ", "a", "\n">>}

Inputs ==
    {l1 \o l2 \o l3 \o l4 : l1, l2, l3, l4 \in Lines} \cup {l1 \o l2 \o l3 : l1, l2, l3 \in OddLines}
Modes == {"M_PARSE_FULL", "M_PARSE_XPATH", "M_JSON"}

Lexer == INSTANCE SlaxLexer

-----------------------------------------------------------------------------
(* Documents of three pieces, each shorter than the buffer, read whole and *)
(* in short reads.                                                         *)

Pieces ==
    {<<"<", "a", " ", " ", "b", "=", "c", ">">>, <<"<", "b", "/", ">">>, <<"<", "/", "a", ">">>,
     <<"a", " ", "\n", "b", ">">>, <<" ", "\n">>,
     <<"<", "!", "-", "-", " ", ">", "a", "-", "-", ">">>,
     <<"<", "?", "a", " ", "b", "?", ">">>,
     <<"<", "!", "DOCTYPE", " ", "a", " ", "[", "<", "!", "b", ">", "]", ">">>,
     <<"<", "!", "a", " ", "b", ">">>,
     <<"<", "!", "[", "CDATA[", "a", "]", ">", "]", "]", ">">>,
     <<"<", "a">>}

SourceFlags == {{}, {"TRIM_WS", "IGNORE_COMMENTS"}, {"IGNORE_DTD", "IGNORE_WS"}}

Setups ==
    [text : {p \o q \o r : p, q, r \in Pieces}, flags : SourceFlags, chunk : {5, 100}]

Source == INSTANCE XiSource WITH tok <- xitok

-----------------------------------------------------------------------------
(* Documents of up to five tokens, with and without rules.  Left out are   *)
(* the attributes the parser is known to lose: those before a namespace,   *)
(* and those with a prefix that are kept in nodes.                         *)

Token(type, prefix, name, attribs, data) ==
    [type |-> type, prefix |-> prefix, name |-> name, attribs |-> attribs, data |-> data]
Open(prefix, name, attribs) == Token("OPEN", prefix, name, attribs, None)
Empty(name, attribs) == Token("EMPTY", None, name, attribs, None)
Close(name) == Token("CLOSE", None, name, << >>, None)
Plain(name, value) == Attribute(None, name, value)

Tokens ==
    {Open(None, "a", << >>),
     Open("p", "b", <<Attribute("p", "xmlns", "u"), Plain("x", "1")>>),
     Open("p", "a", <<Plain("x", "1"), Plain("y", "2")>>),
     Token("EMPTY", "p", "d", <<Attribute("p", "xmlns", "v"), Attribute(None, "xmlns", None),
                                Plain("x", "1"), Plain("bad", "")>>, None),
     Close("a"), Close("b"), Token("TEXT", None, None, << >>, "t")}

RuleElement(attribs) == Empty("rule", attribs)
State(id) == Open(None, "state", <<Plain("id", id)>>)

RuleScripts ==
    {<< >>,
     <<Open(None, "script", << >>), State(1),
       RuleElement(<<Plain("tag", "a"), Plain("action", "SAVE"), Plain("use-tag", "b")>>),
       RuleElement(<<Plain("action", "DISCARD")>>),
       RuleElement(<<Plain("tag", "b"), Plain("action", "SAVE_ATTRIB")>>),
       RuleElement(<<Plain("tag", "a"), Plain("action", "DISCARD")>>), Close("state"),
       State(2), RuleElement(<<Plain("tag", "d"), Plain("action", "SAVE")>>), Close("state"),
       Close("script")>>,
     <<Open(None, "script", << >>),
       State(2), RuleElement(<<Plain("tag", "a"), Plain("action", "DISCARD")>>), Close("state"),
       State(1), RuleElement(<<Plain("tag", "b"), Plain("action", "DISCARD")>>), Close("state"),
       State(3), RuleElement(<<Plain("tag", "d"), Plain("action", "SAVE_ATSTR")>>), Close("state"),
       Close("script")>>}

DefaultActions == {"SAVE", "SAVE_ATSTR", "SAVE_ATTRIB"}

Parser == INSTANCE XiParse WITH Scripts <- RuleScripts

-----------------------------------------------------------------------------
(* Libraries for three namespaces in two directories, one of them in both, *)
(* a well-known prefix, and scripts that declare extensions outside and    *)
(* inside and use prefixes, under names with a blank and a percent sign.   *)

Lib(f) == [initializer |-> TRUE, functions |-> f]
MCLibraries ==
    [lib |-> ("curl" :> Lib(TRUE) @@ "os" :> Lib(TRUE)
              @@ "broken" :> [initializer |-> FALSE, functions |-> FALSE]),
     d |-> ("os" :> Lib(TRUE) @@ "bit" :> Lib(FALSE))]
MCPrefixLinks ==
    [lib |-> ("os" :> [uri |-> "os", extension |-> TRUE]
              @@ "exsl" :> [uri |-> "exslt", extension |-> FALSE])]

Script(ns, extensions, uses, inner) ==
    [ns |-> ns, extensions |-> extensions, uses |-> uses, inner |-> inner]
PlainName == << 97, Suffix >>
Blank == << 97, Space, Percent, Suffix >>
Percent20 == << Percent, 50, Zero, Suffix >>
Data == << 97 >>
MCScripts ==
    (<<".", PlainName>> :> Script("c" :> "curl", <<"c">>, <<"c", "os">>, << >>))
    @@ (<<"d", Blank>> :> Script("b" :> "bit", <<"b">>, <<"exsl", "b">>,
            <<[ns |-> ("c" :> "curl"), extensions |-> <<"c">>],
              [ns |-> ("x" :> "broken"), extensions |-> <<"x">>]>>))
    @@ (<<"d", Percent20>> :> Script(<< >>, << >>, <<"os", "nowhere">>, << >>))
    @@ (<<"d", Data>> :> Script(<< >>, << >>, << >>, << >>))
MCEnvironment == <<"d">>

-----------------------------------------------------------------------------
(* Texts of JSON with one name like any other and one that is a keyword.   *)

Names == {"a", "true"}
Class == [n \in Names |-> IF n = "a" THEN "plain" ELSE "keyword"]
Values == {[kind |-> "string", v |-> "s"], [kind |-> "number", v |-> "1"]}
Option(typed, clean, optional) == [typed |-> typed, clean |-> clean, optional |-> optional]
Options == {Option(TRUE, FALSE, FALSE), Option(TRUE, TRUE, TRUE), Option(FALSE, FALSE, TRUE)}
Json == INSTANCE SlaxJson WITH text <- json, open <- opened, MaxItems <- 4, MaxTokens <- 15

-----------------------------------------------------------------------------
lexerVars == <<sd, parse, flags, flagsNext, ttype, last, tok, text>>
sourceVars == <<setup, s, xitok, whole, wtok>>
parserVars == <<parser, script, read, rulebook, default, seen, kept, open>>
jsonVars == <<stage, opt, json, count, items, want, opened, doc, lines>>

\* The readers that are not used stay in one of their initial states.
MCInit ==
    /\ what \in {"lexer", "source", "parser", "loader", "json"}
    /\ Lexer!Init
    /\ what # "lexer" => text = (CHOOSE t \in Inputs : TRUE) /\ parse = "M_JSON"
    /\ IF what = "source" THEN Source!Init
       ELSE /\ setup = CHOOSE t \in Setups : TRUE
            /\ Source!Init
    /\ Parser!Init
    /\ what # "parser" => script = << >> /\ default = "SAVE"
    /\ Init
    /\ Json!Init
    /\ what # "json" => opt = Option(TRUE, FALSE, FALSE)

MCNext ==
    /\ \/ what = "lexer" /\ Lexer!Next /\ UNCHANGED <<sourceVars, parserVars, vars, jsonVars>>
       \/ what = "source" /\ Source!Next /\ UNCHANGED <<lexerVars, parserVars, vars, jsonVars>>
       \/ what = "parser" /\ Parser!Next /\ UNCHANGED <<lexerVars, sourceVars, vars, jsonVars>>
       \/ what = "loader" /\ Next /\ UNCHANGED <<lexerVars, sourceVars, parserVars, jsonVars>>
       \/ what = "json" /\ Json!Next /\ UNCHANGED <<lexerVars, sourceVars, parserVars, vars>>
    /\ UNCHANGED what

MCSpec == MCInit /\ [][MCNext]_<<what, lexerVars, sourceVars, parserVars, vars, jsonVars>>

LexedAsWhole == Lexer!LexedAsWhole
TextCovered == Lexer!TextCovered
TokensAsWhole == what = "source" => Source!TokensAsWhole
TokensAdvance == Source!TokensAdvance
OutputReadsBack == what = "parser" => Parser!OutputReadsBack
StackIsPath == what = "parser" => Parser!StackIsPath
JsonReadsBack == what = "json" => Json!JsonReadsBack
YamlNests == what = "json" => Json!YamlNests
=============================================================================
