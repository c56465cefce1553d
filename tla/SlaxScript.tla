---------------------------- MODULE SlaxScript ----------------------------
(***************************************************************************)
(* Statements of SLAX scripts, as the grammar's actions build them into a  *)
(* tree (libslax/slaxparser.y, which is not C and so only the source of    *)
(* the order of calls).                                                    *)
(*                                                                         *)
(* An expression is written as a record: the form and the variables in it. *)
(* Beside the tree, source says what was written, as the opening and       *)
(* closing of statements with the variables that each depends on.          *)
(***************************************************************************)
EXTENDS SlaxTree, FiniteSets

CONSTANTS
    Forms,          \* the forms that expressions are written in, beside plain
    Kinds,          \* the statements that are written
    ForSorts,       \* how many sorts a for loop has at most
    MaxStatements   \* bound: statements written

VARIABLES
    tree,
    form,           \* the form, beside plain, of the script's expressions, or
                    \* plain until there is one
    blocks,         \* the open blocks: kind, variables declared in it and by
                    \* it, if it is empty, sorts in it, where one is written
    source,         \* what was written
    statements      \* how much was

vars == <<tree, form, blocks, source, statements>>

Block(kind) == [kind |-> kind, vars |-> {}, fresh |-> TRUE, sorts |-> 0, at |-> 0,
                declares |-> {}]
Named(x) == <<x, 0>>
Event(what, name, refs) == [what |-> what, name |-> name, refs |-> refs]
Closing == Event("close", NoName, {})
Written(what, name, refs) == <<Event(what, name, refs), Closing>>

Kind == Last(blocks).kind
Bodies == {"template", "main", "when", "otherwise", "for", "for-each", "element", "var=", "var:="}
InScope == UNION {blocks[i].vars : i \in DOMAIN blocks}

-----------------------------------------------------------------------------
(* Expressions *)

Expression(f, refs) == [form |-> f, refs |-> refs]

\* With all the variables there are.
Expressions ==
    {Expression(f, IF f = "quoted" THEN {} ELSE InScope) :
        f \in {"plain"} \cup IF form = "plain" THEN Forms ELSE {form}}

\* What the grammar does for an expression: elements become variables when
\* they are read, ternaries only say what they are made of.
RECURSIVE Parse(_, _)
Parse(t, e) ==
    LET name == slaxElementOpen(t, Named("a"))
        Inner == Parse(t, Expression("element", e.refs))
        Numbered(s) == [s EXCEPT !.made = @ + 1]
        Both(value, other) ==
            [tree |-> other.tree, value |-> Refers(value.refs \cup other.value.refs)]
        Two(one) ==
            Both(one.value, slaxHandleEltArg(slaxElementOpen(one.tree, Named("b")), FALSE))
        Chosen(s, yes) ==
            [tree |-> s, value |-> Ternary(s.made, Refers(e.refs), yes, Refers({}))]
        Question(yes) == Chosen(Numbered(yes.tree), yes.value)
    IN CASE e.form = "plain" -> [tree |-> t, value |-> Refers(e.refs)]
         [] e.form = "quoted" -> [tree |-> t, value |-> Quoted]
         [] e.form = "element" ->        \* f(<a> $x)
               slaxHandleEltArg(slaxElementXPath(name, Refers(e.refs)), FALSE)
         [] e.form = "block" ->          \* f({ expr $x; })
               slaxHandleEltArg(slaxElementXPath(slaxHandleEltArgPrep(t), Refers(e.refs)), TRUE)
         [] e.form = "two" -> Two(Inner)             \* f(<a> $x, <b>)
         [] e.form = "ternary" -> Question(Inner)    \* $x ? f(<a> $x) : 1
         [] e.form = "default" ->        \* $x ?: ($x ? $x : $x)
               LET r == Refers(e.refs)
                   s == Numbered(Numbered(t))
               IN [tree |-> s, value |-> Ternary(s.made, r, Absent, Ternary(s.made - 1, r, r, r))]

-----------------------------------------------------------------------------
Init ==
    /\ tree = EmptyTree
    /\ form = "plain"
    /\ blocks = <<Block("stylesheet")>>
    /\ source = << >>
    /\ statements = 0

Write(kind) ==
    /\ kind \in Kinds
    /\ statements < MaxStatements
    /\ statements' = statements + 1

\* With an expression.
Uses(e) == form' = IF e.form = "plain" THEN form ELSE e.form

\* A statement in the innermost block, that declares variables.
Simple(t, events, declared) ==
    /\ tree' = t
    /\ source' = source \o events
    /\ blocks' = [blocks EXCEPT ![Len(blocks)].fresh = FALSE, ![Len(blocks)].vars = @ \cup declared]

Opened(t, event, kind) ==
    /\ tree' = t
    /\ source' = Append(source, event)
    /\ blocks' = Append([blocks EXCEPT ![Len(blocks)].fresh = FALSE], Block(kind))

Ended(t) ==
    /\ tree' = t
    /\ source' = Append(source, Closing)
    /\ blocks' = [Front(blocks) EXCEPT ![Len(blocks) - 1].vars = @ \cup Last(blocks).declares]
    /\ UNCHANGED <<form, statements>>

New == <<"var", statements>>

\* At the top; the lexer adds it before the parser sees the next statement.
Comment ==
    /\ Write("comment") /\ UNCHANGED form
    /\ Kind = "stylesheet"
    /\ Simple(DrainedComment(tree), Written("comment", NoName, {}), {})

Import ==
    /\ Write("import") /\ UNCHANGED form
    /\ Kind = "stylesheet"
    /\ \E t \in {slaxElementAdd(tree, User("import", New, {}))} :
          Simple(slaxMoveImport(t, Newest(t)), << >>, {})

Template ==
    /\ Write("template") /\ UNCHANGED form
    /\ Kind = "stylesheet"
    /\ Opened(slaxElementPush(tree, User("template", NoName, {})),
              Event("template", NoName, {}), "template")

\* With the element that may follow it.
Main ==
    /\ Write("main") /\ UNCHANGED form
    /\ Kind = "stylesheet"
    /\ \E element \in BOOLEAN :
          LET t == slaxElementPush(tree, User("template", NoName, {}))
          IN /\ tree' = IF element THEN slaxElementOpen(t, Named("top")) ELSE t
             /\ source' = Append(source, Event("template", NoName, {}))
                             \o IF element THEN <<Event("element", Named("top"), {})>> ELSE << >>
             /\ blocks' = Append(blocks, Block("main"))

\* var $x = e; var $x := e; param $x = e;
Declare(tag, wrapped) ==
    \E e \in Expressions : Uses(e) /\
       \E p \in {Parse(slaxElementPush(tree, User(tag, New, {})), e)} :
       \E t \in {slaxAttribAdd(p.tree, p.value)} :
          Simple(slaxElementPop(IF wrapped THEN slaxAvoidRtf(t) ELSE t),
                 Written(tag, New, e.refs), {New})

Var ==
    /\ Write("var")
    /\ Kind \in Bodies \cup {"stylesheet"}
    /\ \E wrapped \in BOOLEAN : Declare("variable", wrapped)

\* Parameters come before anything else in a template.
Param ==
    /\ Write("param")
    /\ Kind = "stylesheet" \/ (Kind = "template" /\ Last(blocks).fresh)
    /\ Declare("param", FALSE)

VarBlock ==
    /\ Write("varblock") /\ UNCHANGED form
    /\ Kind \in Bodies
    /\ \E kind \in {"var=", "var:="} :
          /\ tree' = slaxElementPush(tree, User("variable", New, {}))
          /\ source' = Append(source, Event("variable", New, {}))
          /\ blocks' = Append([blocks EXCEPT ![Len(blocks)].fresh = FALSE],
                             [Block(kind) EXCEPT !.declares = {New}])

Expr ==
    /\ Write("expr")
    /\ Kind \in Bodies
    /\ \E e \in Expressions : Uses(e) /\
          \E p \in {Parse(tree, e)} :
             Simple(slaxElementXPath(p.tree, p.value),
                    Written(IF p.value = Quoted THEN "text" ELSE "value-of", NoName, e.refs), {})

Element ==
    /\ Write("element") /\ UNCHANGED form
    /\ Kind \in Bodies
    /\ Opened(slaxElementOpen(tree, Named("a")), Event("element", Named("a"), {}), "element")

If ==
    /\ Write("if")
    /\ Kind \in Bodies
    /\ \E e \in Expressions : Uses(e) /\
          \E p \in {Parse(tree, e)} :
          LET pushed == slaxElementPush(slaxElementPush(p.tree, User("choose", NoName, {})),
                                        User("when", NoName, {}))
          IN /\ tree' = slaxAttribAdd(pushed, p.value)
             /\ source' = source \o <<Event("choose", NoName, {}), Event("when", NoName, e.refs)>>
             /\ blocks' = [blocks EXCEPT ![Len(blocks)].fresh = FALSE]
                             \o <<Block("choose"), Block("when")>>

ElseIf ==
    /\ Write("elseif")
    /\ Kind = "choose"
    /\ \E e \in Expressions : Uses(e) /\
          \E p \in {Parse(tree, e)} :
             Opened(slaxAttribAdd(slaxElementPush(p.tree, User("when", NoName, {})), p.value),
                    Event("when", NoName, e.refs), "when")

Else ==
    /\ Write("else") /\ UNCHANGED form
    /\ Kind = "choose"
    /\ ~\E i \in DOMAIN tree.kids[Context(tree)] :
          Tag(tree, tree.kids[Context(tree)][i]) = "otherwise"
    /\ Opened(slaxElementPush(tree, User("otherwise", NoName, {})),
              Event("otherwise", NoName, {}), "otherwise")

ForEach ==
    /\ Write("foreach")
    /\ Kind \in Bodies
    /\ \E e \in Expressions : Uses(e) /\
          \E p \in {Parse(tree, e)} :
             Opened(slaxAttribAdd(slaxElementPush(p.tree, User("for-each", NoName, {})), p.value),
                    Event("for-each", NoName, e.refs), "for-each")

\* Two loops, the inner one for what "." was outside.
For ==
    /\ Write("for")
    /\ Kind \in Bodies
    /\ \E e \in Expressions : Uses(e) /\
          \E p \in {Parse(tree, e)} :
          LET dot == MadeUp("dot", p.tree.made + 1)
              saved == slaxElementPop(slaxElementPush([p.tree EXCEPT !.made = @ + 1],
                                                      Node("variable", dot, {}, "dot")))
              outer == slaxAttribAdd(slaxElementPush(saved, User("for-each", NoName, {})), p.value)
              named == slaxElementPop(slaxElementPush(outer, User("variable", New, {})))
          IN /\ tree' = slaxElementPush(named, User("for-each", NoName, {dot}))
             /\ source' = Append(source, Event("for-each", NoName, e.refs))
                             \o Written("variable", New, {})
             /\ blocks' = Append([blocks EXCEPT ![Len(blocks)].fresh = FALSE],
                             [Block("for") EXCEPT !.vars = {New}, !.at = Len(source) + 2])

\* First in a loop. In a for loop it is written before the loop's variable.
Sort ==
    /\ Write("sort") /\ UNCHANGED form
    /\ Kind \in {"for", "for-each"} /\ Last(blocks).fresh
    /\ Kind = "for" => Last(blocks).sorts < ForSorts
    /\ tree' = slaxElementPop(slaxRelocateSort(slaxElementPush(tree, User("sort", New, {}))))
    /\ LET at == IF Kind = "for" THEN Last(blocks).at ELSE Len(source) + 1
       IN /\ source' = SubSeq(source, 1, at - 1) \o Written("sort", New, {})
                          \o SubSeq(source, at, Len(source))
          /\ blocks' = [blocks EXCEPT ![Len(blocks)].sorts = @ + 1, ![Len(blocks)].at = at + 2]

CallTemplate ==
    /\ Write("call") /\ UNCHANGED form
    /\ Kind \in Bodies
    /\ Opened(slaxElementPush(tree, User("call-template", NoName, {})),
              Event("call-template", NoName, {}), "call")

With ==
    /\ Write("with")
    /\ Kind = "call"
    /\ \E e \in Expressions : Uses(e) /\
          \E p \in {Parse(slaxElementPush(tree, User("with-param", NoName, {})), e)} :
             Simple(slaxElementPop(slaxAttribAdd(p.tree, p.value)),
                    Written("with-param", NoName, e.refs), {})

Message ==
    /\ Write("message")
    /\ Kind \in Bodies
    /\ \E e \in Expressions : Uses(e) /\
          \E p \in {Parse(slaxElementPush(tree, User("message", NoName, {})), e)} :
             LET what == IF p.value = Quoted THEN "text" ELSE "value-of"
             IN Simple(slaxElementPop(slaxElementXPath(p.tree, p.value)),
                    <<Event("message", NoName, {})>> \o Written(what, NoName, e.refs) \o <<Closing>>, {})

\* trace e; the same for set and append: the element is in the SLAX namespace.
Trace ==
    /\ Write("trace")
    /\ Kind \in Bodies
    /\ \E e \in Expressions : Uses(e) /\
          \E p \in {Parse(slaxElementPush(tree, User("trace", NoName, {})), e)} :
             Simple(slaxElementPop(slaxAttribAdd(p.tree, p.value)),
                    Written("trace", NoName, e.refs), {})

\* The end of a block.
End ==
    CASE Kind \in {"template", "when", "otherwise", "for-each", "element", "call", "var="} ->
           Ended(slaxElementPop(tree))
      [] Kind = "var:=" -> Ended(slaxElementPop(slaxAvoidRtf(tree)))
      [] Kind = "for" -> Ended(slaxElementPop(slaxElementPop(tree)))
      [] Kind = "choose" -> Ended(slaxCheckIf(slaxElementPop(tree), Context(tree)))
      [] Kind = "main" ->
           /\ tree' = slaxMainElement(tree)
           /\ source' = source \o [i \in 1 .. Len(tree.stack) - 1 |-> Closing]
           /\ blocks' = Front(blocks)
           /\ UNCHANGED <<form, statements>>
      [] OTHER -> FALSE

Next ==
    \/ Comment \/ Import \/ Template \/ Main \/ Var \/ Param \/ VarBlock \/ Expr
    \/ Element \/ If \/ ElseIf \/ Else \/ ForEach \/ For \/ Sort \/ CallTemplate
    \/ With \/ Message \/ Trace \/ End

Spec == Init /\ [][Next]_vars

-----------------------------------------------------------------------------
(* The tree read back as statements *)

NodeNamed(name) == CHOOSE n \in DOMAIN tree.nodes : tree.nodes[n].name = name

\* The script's variables behind those made up.
RECURSIVE Behind(_), BehindNode(_)
Behind(refs) ==
    UNION {IF r[1] = "var" THEN {r} ELSE IF r[1] \in {"dot", "temp"} THEN {} ELSE BehindNode(NodeNamed(r)) :
             r \in refs}
BehindNode(n) ==
    Behind(tree.nodes[n].refs) \cup UNION {BehindNode(tree.kids[n][i]) : i \in DOMAIN tree.kids[n]}

RECURSIVE Read(_), ReadAll(_)
ReadAll(nodes) == FlattenSeq([i \in DOMAIN nodes |-> Read(nodes[i])])
Read(n) ==
    LET node == tree.nodes[n]
        inside == ReadAll(tree.kids[n])
        temp == {r \in node.refs : r[1] = "temp"}
    IN IF node.made # "user" \/ node.tag = "import" THEN << >>
       ELSE IF node.tag = "if"
       THEN <<Event("choose", NoName, {}), Event("when", NoName, Behind(node.refs))>>
               \o inside \o <<Closing, Closing>>
       ELSE IF temp # {}
       THEN <<Event(node.tag, node.name, {})>>
               \o ReadAll(tree.kids[NodeNamed(CHOOSE r \in temp : TRUE)]) \o <<Closing>>
       ELSE IF node.tag = "for-each" /\ ForDot(tree, n) THEN inside
       ELSE <<Event(node.tag, node.name, Behind(node.refs))>> \o inside \o <<Closing>>

AtTop == Len(blocks) = 1

(* The tree says what the script says: its statements, nested and in the   *)
(* order they were written, each depending on the variables it was written *)
(* with, however these went through variables that were made up, elements  *)
(* that were taken out of the tree, chooses that became ifs, and variables *)
(* that changed their names (slaxElementPush, slaxTernaryExpand,           *)
(* slaxHandleEltArg, slaxAvoidRtf, slaxCheckIf, slaxRelocateSort).         *)
StatementsReadBack == AtTop => ReadAll(tree.kids[1]) = source

RECURSIVE Line(_)
Line(n) == IF n = 0 THEN << >> ELSE Append(Line(Above(tree, n)), n)   \* from the root to n

RECURSIVE Attached(_)
Attached(n) == n = 1 \/ (n # 0 /\ Attached(Above(tree, n)))

IndexOf(up, n) == SelectInSeq(tree.kids[up], LAMBDA k : k = n)

\* Whether node d is before n, or before an element around it, or at the top.
RECURSIVE Precedes(_, _)
Precedes(d, n) ==
    LET up == Above(tree, d)
    IN /\ n # 1
       /\ IF Above(tree, n) # up THEN Precedes(d, Above(tree, n))
          ELSE up = 1 \/ IndexOf(up, d) < IndexOf(up, n)

\* Whether node d is a declaration that node n can see.
Sees(n, d) ==
    Above(tree, d) # 0 /\ tree.nodes[d].tag \in {"variable", "param"} /\ Precedes(d, n)

InBlockLeft(d) ==
    \E i \in 1 .. Len(Line(d)) - 1 : Tag(tree, Line(d)[i]) \in {"if", "when", "otherwise", "variable"}

Late(n) == tree.nodes[n].tag \in {"trace", "param"}

(* Every variable a node of the tree refers to, the script's or one made   *)
(* up, is declared where the node can see it: before it, in its element or *)
(* one around it.  The code misses this in two places, and nowhere else:   *)
(* trace and param refer to an element argument that goes into the tree    *)
(* only with the next statement; and an element argument in the block of   *)
(* an if or a variable is moved before the whole of it, away from what is  *)
(* declared in the block (slaxElementAddVar, slaxLexerAddChild,            *)
(* slaxHandleEltArgSafeInsert).                                            *)
Scoped ==
    \A n \in {n \in DOMAIN tree.nodes : Attached(n)} : \A r \in tree.nodes[n].refs :
       \/ \E d \in DOMAIN tree.nodes : tree.nodes[d].name = r /\ Sees(n, d)
       \/ r[1] = "elt" /\ Late(n)
       \/ /\ r[1] = "var"
          /\ \E i \in DOMAIN Line(n) :
                LET arg == tree.nodes[Line(n)[i]]
                IN /\ arg.made = "elt"
                   /\ \/ InBlockLeft(NodeNamed(r))
                      \/ \E m \in DOMAIN tree.nodes : Late(m) /\ arg.name \in tree.nodes[m].refs

Is(n, tag) == Tag(tree, n) = tag

\* Whether the comment that a statement at the top has after it is why the
\* search of slaxMoveImport does not see it.
Commented(i) == i < Len(tree.kids[1]) /\ Is(tree.kids[1][i + 1], "comment")

(* Imports come before everything else, in the order they were written.    *)
(* The search for their place looks only at statements that adjoin: a      *)
(* statement stays before an import, and an import before one written      *)
(* earlier, only where the one passed over has a comment directly after it *)
(* (slaxMoveImport).                                                       *)
ImportsFirst ==
    LET top == tree.kids[1]
    IN \A j \in {j \in DOMAIN top : Is(top[j], "import")} :
       \A i \in {i \in 1 .. j - 1 : ~Is(top[i], "comment")} :
          IF Is(top[i], "import")
          THEN tree.nodes[top[i]].name[2] < tree.nodes[top[j]].name[2] \/ Commented(j)
          ELSE Commented(i)

(* Imports precede everything but comments: they are moved up as needed    *)
(* (the comment on slaxMoveImport).                                        *)
ImportsMovedUp ==
    LET top == tree.kids[1]
    IN \A i, j \in DOMAIN top :
          i < j /\ Is(top[j], "import") => Is(top[i], "import") \/ Is(top[i], "comment")

(* Sorts are in the tree in the order they were written, the first of them *)
(* the primary key (doc/constructs.rst:460, slaxRelocateSort).             *)
SortKeysInOrder ==
    \A n \in DOMAIN tree.nodes :
       \A i, j \in DOMAIN tree.kids[n] :
          i < j /\ Tag(tree, tree.kids[n][i]) = "sort" /\ Tag(tree, tree.kids[n][j]) = "sort"
          => tree.nodes[tree.kids[n][i]].name[2] < tree.nodes[tree.kids[n][j]].name[2]
=============================================================================
