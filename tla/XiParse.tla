------------------------------ MODULE XiParse ------------------------------
(***************************************************************************)
(* The parser of libxi (xi_parse in libxi/xiparse.c): tokens are put into  *)
(* a tree as a rulebook, itself made of a parsed script, says.             *)
(*                                                                         *)
(* A token is a record of its type, prefix and name, its attributes and    *)
(* its data.  Beside the parser, kept says in terms of the tokens what     *)
(* should have been kept: a sequence of opened elements, texts and closes; *)
(* and open holds the opened elements that are not closed.                 *)
(***************************************************************************)
EXTENDS XiTree

CONSTANTS
    Tokens,         \* what a document is made of
    Scripts,        \* the scripts that rulebooks are made of
    DefaultActions, \* what xi_parse_set_default_rule is given
    MaxTokens

VARIABLES
    parser,         \* the parser of the document
    script,         \* the tokens of the script; none for no rulebook
    read,           \* how much of the script was read
    rulebook, default,
    seen,           \* tokens of the document taken
    kept, open

vars == <<parser, script, read, rulebook, default, seen, kept, open>>

Token(type, prefix, name, attribs, data) ==
    [type |-> type, prefix |-> prefix, name |-> name, attribs |-> attribs, data |-> data]

DefaultRule(action) == [NoRule EXCEPT !.action = action]

RuleOf(rb, dflt, name) ==
    IF xi_rulebook_find(rb, name) = NoRule THEN DefaultRule(dflt) ELSE xi_rulebook_find(rb, name)

\* One token: an empty element is opened and closed; processing instructions,
\* DTDs, comments and CDATA are only logged.
xi_parse(p, rb, dflt, t) ==
    LET named == xi_namepool_atom(p, t.name)
        opened == xi_parse_handle_rule(named, t.name, t.prefix, t.attribs, RuleOf(rb, dflt, t.name))
    IN CASE t.type = "TEXT" -> xi_insert_text(p, t.data)
         [] t.type = "OPEN" -> opened
         [] t.type = "EMPTY" -> xi_insert_close(opened, t.name)
         [] t.type = "CLOSE" -> xi_insert_close(p, t.name)
         [] OTHER -> p

-----------------------------------------------------------------------------
(* What should be kept. *)

IsState(t) == t.name = "state" /\ t.type \in {"OPEN", "EMPTY"}
Value(t, name) ==
    IF \E i \in DOMAIN t.attribs : t.attribs[i].name = name
    THEN LET i == CHOOSE i \in DOMAIN t.attribs : t.attribs[i].name = name IN t.attribs[i].value
    ELSE None

\* The state a script's rule belongs to: the last one before it.
StateOf(i) ==
    LET before == {j \in 1 .. i - 1 : IsState(script[j]) /\ Value(script[j], "id") <= MaxStates}
    IN CHOOSE j \in before : \A k \in before : k <= j

\* The first of a script's rules for a name, in the last initial state.
RuleInScript(name) ==
    LET initial == {i \in DOMAIN script : IsState(script[i]) /\ Value(script[i], "id") = 1}
        rules == {i \in DOMAIN script :
                    /\ script[i].name = "rule"
                    /\ StateOf(i) \in initial
                    /\ \A j \in initial : j <= StateOf(i)
                    /\ Value(script[i], "tag") = name}
        first == CHOOSE i \in rules : \A j \in rules : i <= j
    IN IF rules = {} THEN [action |-> default, use_tag |-> None]
       ELSE [action |-> Value(script[first], "action"),
             use_tag |-> Value(script[first], "use-tag")]

\* Attributes up to one that cannot be told.
Told(attribs) ==
    IF \E i \in DOMAIN attribs : attribs[i].name = "bad"
    THEN SubSeq(attribs, 1, (CHOOSE i \in DOMAIN attribs : attribs[i].name = "bad") - 1)
    ELSE attribs

Namespaces(attribs) ==
    LET Is(a) == a.name = "xmlns"
        Pair(i) == [prefix |-> SelectSeq(Told(attribs), Is)[i].prefix,
                    uri |-> SelectSeq(Told(attribs), Is)[i].value]
    IN [i \in DOMAIN SelectSeq(Told(attribs), Is) |-> Pair(i)]

Others(attribs) ==
    LET IsNot(a) == a.name # "xmlns" IN SelectSeq(Told(attribs), IsNot)

\* The nearest declaration of a prefix, an element's own before its parent's.
Nearest(prefix, own) ==
    LET scopes == Append([i \in DOMAIN open |-> open[i].namespaces], own)
        has == {i \in DOMAIN scopes : \E j \in DOMAIN scopes[i] : scopes[i][j].prefix = prefix}
        near == CHOOSE i \in has : \A j \in has : j <= i
    IN IF prefix = None \/ has = {} THEN NoNs
       ELSE SelectSeq(scopes[near], LAMBDA ns : ns.prefix = prefix)[1]

KeepOpen(t, rule) ==
    LET own == Namespaces(t.attribs)
        whole == rule.action = "SAVE_ATSTR" /\ ~ HasNamespace(t.attribs)
    IN [ev |-> "open", wanted |-> t.name,
        name |-> IF rule.use_tag # None THEN rule.use_tag ELSE t.name,
        ns |-> Nearest(t.prefix, own), namespaces |-> own,
        attribs |-> IF whole THEN t.attribs
                    ELSE IF rule.action = "SAVE" THEN << >> ELSE Others(t.attribs)]

KeptClose == [ev |-> "close"]

\* The document that is kept, as text: its elements that are still open are
\* closed, and one with nothing in it is written as an empty tag.
Written ==
    LET closed == kept \o [i \in DOMAIN open |-> KeptClose]
        Owner(i) ==     \* the open that the close at i ends
            CHOOSE j \in 1 .. i - 1 :
                /\ closed[j].ev = "open"
                /\ LET between == SubSeq(closed, j + 1, i - 1)
                       Is(e) == e.ev = "open"
                       Ends(e) == e.ev = "close"
                   IN /\ Len(SelectSeq(between, Is)) = Len(SelectSeq(between, Ends))
                      /\ \A k \in 1 .. Len(between) :
                            LET part == SubSeq(between, 1, k)
                            IN Len(SelectSeq(part, Ends)) <= Len(SelectSeq(part, Is))
        Piece1(i) ==
            LET e == closed[i] IN
            CASE e.ev = "open" ->
                    <<[is |-> "<", ns |-> e.ns, name |-> e.name]>>
                    \o [n \in DOMAIN e.namespaces |-> [is |-> "xmlns", pair |-> e.namespaces[n]]]
                    \o e.attribs
                    \o <<[is |-> IF closed[i + 1].ev = "close" THEN "/>" ELSE ">"]>>
              [] e.ev = "text" -> <<[is |-> "text", data |-> e.data]>>
              [] e.ev = "close" ->
                    IF closed[i - 1].ev = "open" THEN << >>
                    ELSE <<[is |-> "</", ns |-> closed[Owner(i)].ns, name |-> closed[Owner(i)].name]>>
    IN FlattenSeq([i \in DOMAIN closed |-> Piece1(i)])

-----------------------------------------------------------------------------
Init ==
    /\ script \in Scripts
    /\ default \in DefaultActions
    /\ read = 0
    /\ rulebook = EmptyRulebook
    /\ parser = xi_parse_open
    /\ seen = 0 /\ kept = << >> /\ open = << >>

\* The script is parsed, with all its attributes.
ReadScript ==
    /\ read < Len(script)
    /\ read' = read + 1
    /\ parser' = xi_parse(parser, EmptyRulebook, "SAVE_ATTRIB", script[read + 1])
    /\ UNCHANGED <<script, rulebook, default, seen, kept, open>>

\* A rulebook is made of it, and a parser of the same workspace is opened.
xi_parse_set_rulebook ==
    /\ read = Len(script)
    /\ read' = read + 1
    /\ rulebook' = xi_rulebook_prep(parser)
    /\ parser' = [xi_parse_open EXCEPT !.names = parser.names, !.ns_map = parser.ns_map]
    /\ UNCHANGED <<script, default, seen, kept, open>>

Take(t) ==
    /\ read > Len(script)
    /\ seen < MaxTokens
    /\ seen' = seen + 1
    /\ parser' = xi_parse(parser, rulebook, default, t)
    /\ UNCHANGED <<script, read, rulebook, default>>

\* Text belongs to the innermost element that was kept.
TextToken(t) ==
    /\ t.type = "TEXT" /\ Take(t)
    /\ kept' = Append(kept, [ev |-> "text", data |-> t.data])
    /\ UNCHANGED open

OpenToken(t) ==
    /\ t.type \in {"OPEN", "EMPTY"} /\ Take(t)
    /\ LET rule == RuleInScript(t.name)
           e == KeepOpen(t, rule)
       IN IF rule.action \notin Saves THEN UNCHANGED <<kept, open>>
          ELSE IF t.type = "EMPTY" THEN kept' = kept \o <<e, KeptClose>> /\ UNCHANGED open
          ELSE kept' = Append(kept, e) /\ open' = Append(open, e)

\* A close that does not match the innermost kept element ends nothing.
CloseToken(t) ==
    /\ t.type = "CLOSE" /\ Take(t)
    /\ IF open # << >> /\ open[Len(open)].wanted = t.name
       THEN kept' = Append(kept, KeptClose) /\ open' = Front(open)
       ELSE UNCHANGED <<kept, open>>

Next ==
    \/ ReadScript
    \/ xi_parse_set_rulebook
    \/ \E t \in Tokens : TextToken(t)
    \/ \E t \in Tokens : OpenToken(t)
    \/ \E t \in Tokens : CloseToken(t)

Spec == Init /\ [][Next]_vars

-----------------------------------------------------------------------------
\* What xi_parse_emit_xml writes is the document the rules say to keep: each
\* element once, where it was, under its name and the nearest namespace of its
\* prefix, with its attributes, and closed where it ended.
OutputReadsBack ==
    read > Len(script) => xi_parse_emit_xml(parser) = Written

\* The insertion points are the elements that are open, from the root on, and
\* each is the parent that xi_node_parent finds for the next, whose last child
\* leads back to it.
StackIsPath ==
    /\ read > Len(script) => Len(parser.stack) = Len(open) + 1
    /\ \A i \in 1 .. Len(parser.stack) :
          LET point == parser.stack[i]
          IN /\ i > 1 => xi_node_parent(parser, point.node) = parser.stack[i - 1].node
             /\ parser.nodes[point.node].contents # NullAtom =>
                    parser.nodes[point.last].next = point.node
=============================================================================
