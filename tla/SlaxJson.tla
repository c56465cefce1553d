------------------------------ MODULE SlaxJson ------------------------------
(* JSON in and out (src/libslax/jsonlexer.c, jsonwriter.c and the json_    *)
(* rules of slaxparser.y), YAML out (yamlwriter.c), and the functions that *)
(* convert between them (json-to-xml and xml-to-json of ext_xutil.c).      *)
(* The text is any that the grammar accepts, a token at a time; what it    *)
(* builds is written as JSON, which is read again, and as YAML.            *)
(* An element carries its name (the tag, or the attribute name where that  *)
(* is no XML name), the attribute type, its text and its child elements.   *)
EXTENDS Integers, Sequences, SequencesExt, FiniteSetsExt

CONSTANTS Names,      \* member names, each with a class of characters:
          Class,      \* "plain", "keyword", "dashed", "invalid" (no XML name)
          Values,     \* tokens that are values: strings, numbers, keywords
          Options,    \* settings [typed, clean, optional] of types, clean-names, quotes
          MaxTokens,  \* bound: tokens of the text,
          MaxItems    \* and pairs and items among them

None == "none"
Cleaned == "cleaned"  \* what clean-names makes of a name

VARIABLES stage,      \* "read", "write", "again", "done"
          opt,        \* the options given
          text,       \* tokens still to come when a written text is read
          count, items, \* tokens read, pairs and items begun
          want,       \* the grammar: what may come next, innermost last
          open,       \* elements open in the parser's context, root first
          doc, lines  \* the document of the first reading, its YAML

vars == <<stage, opt, text, count, items, want, open, doc, lines>>

Elem(name) == [name |-> name, type |-> None, text |-> None, kids |-> <<>>]
Tok(kind, v) == [kind |-> kind, v |-> v]
Mark(kind) == Tok(kind, None)

Keywords == {"true", "false", "null"}
ClassOf(n) == IF n \in Names THEN Class[n] ELSE "plain"

-----------------------------------------------------------------------------
(* jsonlexer.c *)

slaxJsonElementOpenName(s, n) ==
    Append(s, Elem(IF opt.clean /\ ClassOf(n) \in {"dashed", "invalid"} THEN Cleaned ELSE n))

slaxJsonAddTypeInfo(s, type) ==
    IF opt.typed THEN [s EXCEPT ![Len(s)].type = type] ELSE s

slaxJsonElementValue(s, v) == [s EXCEPT ![Len(s)].text = v]

slaxElementClose(s) ==
    LET up == Front(s) IN [up EXCEPT ![Len(up)].kids = Append(@, Last(s))]

\* Each item of an array is followed by a member for the next one.
NextMember(s) == slaxJsonAddTypeInfo(Append(slaxElementClose(s), Elem("member")), "member")

\* Wrong: the empty member stays.
ClearNever(s) == slaxElementClose(s)

\* The last member, still empty at the closing bracket, is discarded.
slaxJsonClearMember(s) ==
    IF Last(s).kids = <<>> /\ Last(s).text = None THEN Front(s) ELSE slaxElementClose(s)

-----------------------------------------------------------------------------
(* The grammar (slaxparser.y, json_content).                               *)

\* A value that is complete: the pair's element is closed, or the item's.
Complete(s, w) == IF Last(w) = "value" THEN slaxElementClose(s)
                  ELSE IF Last(w) \in {"item", "comma"} THEN NextMember(s) ELSE s
After(w) == LET in == Last(w) IN
    Append(Front(w), CASE in = "value" -> "after"
                       [] in \in {"item", "comma"} -> "comma"
                       [] OTHER -> "end")

\* What a token does in a state: the new grammar state and elements, and
\* an empty grammar state for a syntax error.
Shift(t, w, s) ==
    LET in == Last(w)
        To(next, elems) == [want |-> Append(Front(w), next), open |-> elems]
        Value == in \in {"value", "item", "comma"}
        Scalar(type) ==
            LET with == slaxJsonElementValue(s, t.v)
                as == IF type = None THEN with ELSE slaxJsonAddTypeInfo(with, type)
            IN  [want |-> After(w), open |-> Complete(as, w)]
    IN  CASE t.kind = "{" /\ (Value \/ in = "top") -> [want |-> Append(w, "pair"), open |-> s]
          [] t.kind = "[" /\ (Value \/ in = "top") ->
               [want |-> Append(w, "item"),
                open |-> slaxJsonAddTypeInfo(
                    Append(slaxJsonAddTypeInfo(s, "array"), Elem("member")), "member")]
          [] t.kind = "}" /\ in \in {"pair", "after"} ->
               [want |-> After(Front(w)), open |-> Complete(s, Front(w))]
          [] t.kind = "]" /\ in \in {"item", "comma"} ->
               [want |-> After(Front(w)),
                open |-> Complete(slaxJsonClearMember(s), Front(w))]
          [] t.kind \in {"bare", "string"} /\ in = "pair" ->
               To("colon", slaxJsonElementOpenName(s, t.v))
          [] t.kind = ":" /\ in = "colon" -> To("value", s)
          [] t.kind = "," /\ in = "after" -> To("pair", s)
          [] t.kind = "," /\ in = "comma" -> To("item", s)
          [] t.kind = "string" /\ Value -> Scalar(None)
          [] t.kind = "number" /\ Value -> Scalar("number")
          [] t.kind = "keyword" /\ Value -> Scalar(t.v)
          [] OTHER -> [want |-> <<>>, open |-> s]

-----------------------------------------------------------------------------
(* jsonwriter.c *)

\* How the lexer takes a name without quotes.
Bare(n) == CASE ClassOf(n) = "plain" -> <<Tok("bare", n)>>
             [] ClassOf(n) = "keyword" -> <<Tok("keyword", n)>>
             [] OTHER -> <<Mark("junk")>>
jsonName(n) == IF opt.optional /\ ClassOf(n) # "invalid" THEN Bare(n) ELSE <<Tok("string", n)>>

jsonNeedsComma(kids, i) == IF i < Len(kids) THEN <<Mark(",")>> ELSE <<>>

Scalars == Keywords \cup {"number"}
Literal(type, v) == IF type = "number" THEN Tok("number", v) ELSE Tok("keyword", v)

RECURSIVE jsonWriteChildren(_, _)

jsonWriteNode(n, array) ==
    LET key == IF array \/ n.type = "member" THEN <<>>
               ELSE jsonName(n.name) \o <<Mark(":")>>
    IN  CASE n.type \in Scalars -> key \o <<Literal(n.type, n.text)>>
          [] n.type = "array" ->
               key \o <<Mark("[")>> \o jsonWriteChildren(n.kids, TRUE) \o <<Mark("]")>>
          [] n.type \notin Scalars \cup {"array"} /\ n.kids # <<>> ->
               key \o <<Mark("{")>> \o jsonWriteChildren(n.kids, FALSE) \o <<Mark("}")>>
          [] OTHER -> key \o <<Tok("string", IF n.text = None THEN "" ELSE n.text)>>

jsonWriteChildren(kids, array) ==
    FlattenSeq([i \in 1 .. Len(kids) |->
                    jsonWriteNode(kids[i], array) \o jsonNeedsComma(kids, i)])

slaxJsonWriteNode(n) ==
    IF n.type = "array" THEN <<Mark("[")>> \o jsonWriteChildren(n.kids, TRUE) \o <<Mark("]")>>
    ELSE <<Mark("{")>> \o jsonWriteChildren(n.kids, FALSE) \o <<Mark("}")>>

-----------------------------------------------------------------------------
(* yamlwriter.c: w is the lines so far, the indent and a pending "-   ",   *)
(* which is as wide as one step of the indent.                             *)

YamlLine(w, name, v, delta) ==
    LET out == IF delta < 0 THEN w.indent + delta ELSE w.indent
    IN  [lines |-> Append(w.lines, [at |-> out, dash |-> w.dash, name |-> name, v |-> v]),
         indent |-> w.indent + delta, dash |-> FALSE]
Indent(w, delta) == [w EXCEPT !.indent = @ + delta]

RECURSIVE yamlWriteChildren(_, _), yamlWriteArray(_, _)

yamlWriteNode(w, n) ==
    CASE n.type \in Scalars -> YamlLine(w, n.name, n.text, 0)
      [] n.type = "array" -> yamlWriteArray(w, n)
      [] n.type = "member" -> w
      [] n.type \notin Scalars \cup {"array", "member"} /\ n.kids # <<>> ->
            Indent(yamlWriteChildren(YamlLine(w, n.name, None, 1), n.kids), -1)
      [] OTHER -> YamlLine(w, n.name, n.text, 0)

\* Wrong: the other children are not indented.
MemberFlat(w, member) ==
    IF member.kids = <<>> THEN w
    ELSE yamlWriteChildren([w EXCEPT !.dash = TRUE], member.kids)

\* The first child of a member gets the dash, the others an indent.
yamlWriteMember(w, member) ==
    IF member.kids = <<>> THEN w
    ELSE LET first == yamlWriteNode([w EXCEPT !.dash = TRUE], Head(member.kids))
         IN  Indent(yamlWriteChildren(Indent(first, 1), Tail(member.kids)), -1)
yamlWriteArray(w, n) ==
    YamlLine(FoldLeft(yamlWriteMember, YamlLine(w, n.name, None, 1), n.kids), None, None, -1)

yamlWriteChildren(w, kids) == FoldLeft(yamlWriteNode, w, kids)

slaxYamlWriteNode(n) ==
    LET w == [lines |-> <<>>, indent |-> 0, dash |-> FALSE]
    IN  IF n.type = "array" THEN yamlWriteArray(w, n) ELSE yamlWriteChildren(w, n.kids)

-----------------------------------------------------------------------------
Parser == /\ want = <<"top">> /\ open = <<Elem("json")>>

Init ==
    /\ stage = "read" /\ opt \in Options /\ text = <<>> /\ count = 0 /\ items = 0
    /\ doc = Elem(None) /\ lines = [lines |-> <<>>, indent |-> 0, dash |-> FALSE]
    /\ Parser

Tokens == {Mark(k) : k \in {"{", "}", "[", "]", ":", ","}}
             \cup {Tok("string", n) : n \in Names} \cup Values

Step(t) == LET r == Shift(t, want, open) IN
    /\ want' = r.want /\ open' = r.open /\ count' = count + 1
    /\ items' = items + IF /\ Last(want) \in {"pair", "item", "comma"}
                          /\ Len(want') >= Len(want) /\ t.kind # ","
                       THEN 1 ELSE 0

\* json-to-xml reads a token of a text that has no syntax error.
Read ==
    /\ stage = "read" /\ count < MaxTokens /\ want # <<"end">>
    /\ \E t \in Tokens :
        /\ t.kind = "string" => (t.v \in Names <=> Last(want) = "pair")
        /\ Step(t) /\ want' # <<>> /\ items' <= MaxItems
    /\ UNCHANGED <<stage, opt, text, doc, lines>>

\* xml-to-json writes the tree, and the result is about to be read.
XmlToJson ==
    /\ stage = "read" /\ want = <<"end">>
    /\ doc' = open[1] /\ text' = slaxJsonWriteNode(open[1])
    /\ lines' = slaxYamlWriteNode(open[1])
    /\ stage' = "again" /\ want' = <<"top">> /\ open' = <<Elem("json")>>
    /\ UNCHANGED <<opt, count, items>>

\* json-to-xml reads what was written; it gives up at the first error.
ReadAgain ==
    /\ stage = "again" /\ text # <<>> /\ want # <<>>
    /\ Step(Head(text)) /\ text' = Tail(text)
    /\ UNCHANGED <<stage, opt, doc, lines>>

Finish ==
    /\ stage = "again" /\ (text = <<>> \/ want = <<>>)
    /\ stage' = "done"
    /\ UNCHANGED <<opt, text, count, items, want, open, doc, lines>>

Next == Read \/ XmlToJson \/ ReadAgain \/ Finish

Spec == Init /\ [][Next]_vars

-----------------------------------------------------------------------------
RECURSIVE SubElems(_)
SubElems(n) == {n} \cup UNION {SubElems(n.kids[i]) : i \in 1 .. Len(n.kids)}

\* An element with nothing in it is written as an empty string.
RECURSIVE Filled(_)
Filled(n) == [n EXCEPT
    !.kids = [i \in 1 .. Len(n.kids) |-> Filled(n.kids[i])],
    !.text = IF @ = None /\ n.kids = <<>> /\ n.type # "array" THEN "" ELSE @]

\* What xml-to-json writes is JSON that json-to-xml reads, and it becomes
\* the elements the text came from, whatever the nesting of objects and
\* arrays and the options are.  Unquoted names that JSON's lexer takes for
\* something else are left out, as are quotes and backslashes in a string.
JsonReadsBack ==
    stage = "done" /\ ~(\E e \in SubElems(doc) :
            opt.optional /\ ClassOf(e.name) \in {"keyword", "dashed"}) =>
        /\ want = <<"end">> /\ text = <<>>
        /\ opt.typed /\ doc.kids # <<>> => open[1].kids = Filled(doc).kids
                                       /\ open[1].type = doc.type

\* The names above a line by the columns of the names, and above an
\* element that is no container; the members of an array have none.
Column(l) == IF l.dash THEN l.at + 1 ELSE l.at
YamlUp(i) ==
    Max({0} \cup {j \in 1 .. i - 1 : lines.lines[j].name # None
                                     /\ Column(lines.lines[j]) < Column(lines.lines[i])})
RECURSIVE YamlPath(_)
YamlPath(i) == (IF YamlUp(i) = 0 THEN <<>> ELSE YamlPath(YamlUp(i))) \o <<lines.lines[i].name>>
RECURSIVE TreePaths(_, _)
TreePaths(n, path) ==
    FlattenSeq([i \in 1 .. Len(n.kids) |->
        LET k == n.kids[i]
            here == IF k.type = "member" THEN path ELSE Append(path, k.name)
        IN  (IF k.type = "member" THEN <<>> ELSE <<here>>) \o TreePaths(k, here)])

\* YAML nests as the elements do: each name is under the names it is under in
\* the tree, and in line with its siblings.  Members that are scalars or
\* arrays, or that begin with a container, are left out.
YamlNests ==
    stage \in {"again", "done"} /\ opt.typed /\ doc.type # "array"
    /\ (\A a \in SubElems(doc) : a.type = "array" => \A i \in 1 .. Len(a.kids) :
            /\ a.kids[i].type = "member" /\ a.kids[i].text = None
            /\ a.kids[i].kids # <<>> => Head(a.kids[i].kids).kids = <<>>
                                        /\ Head(a.kids[i].kids).type # "array") =>
        /\ lines.indent = 0
        /\ LET Named == SelectSeq([i \in 1 .. Len(lines.lines) |-> i],
                                  LAMBDA i : lines.lines[i].name # None)
           IN  /\ [k \in 1 .. Len(Named) |-> YamlPath(Named[k])] = TreePaths(doc, <<>>)
               /\ \A i, j \in ToSet(Named) : YamlUp(i) = YamlUp(j) =>
                      Column(lines.lines[i]) = Column(lines.lines[j])
=============================================================================
