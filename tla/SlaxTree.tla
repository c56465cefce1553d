------------------------------ MODULE SlaxTree ------------------------------
(***************************************************************************)
(* Building an XSLT tree for a SLAX script (libslax/slaxtree.c and the     *)
(* helpers of libslax/slaxloader.c): the calls that the grammar's actions  *)
(* make.                                                                   *)
(*                                                                         *)
(* A tree is a record of its nodes, the children of each, the parser's     *)
(* stack of open nodes (ctxt->node is its last), the nodes waiting to be   *)
(* inserted (sd_insert) and the number of variables made up.  A node has a *)
(* tag, a name, and the variables its attributes refer to; made is "user"  *)
(* for what the script says, or says which helper made it.  Node 1 is the  *)
(* stylesheet.  A value is what an expression becomes: the variables it    *)
(* refers to, or a ternary with the number of its variable.                *)
(***************************************************************************)
EXTENDS Integers, SequencesExt

NoName == <<"none", 0>>
Node(tag, name, refs, made) == [tag |-> tag, name |-> name, refs |-> refs, up |-> 0, made |-> made]
User(tag, name, refs) == Node(tag, name, refs, "user")
EmptyTree ==
    [nodes |-> <<User("stylesheet", NoName, {})>>, kids |-> << << >> >>,
     stack |-> <<1>>, insert |-> << >>, made |-> 0]

Context(t) == Last(t.stack)
Newest(t) == Len(t.nodes)
Tag(t, n) == t.nodes[n].tag
Above(t, n) == t.nodes[n].up
MadeUp(kind, k) == <<kind, k>>      \* the names of variables made up

-----------------------------------------------------------------------------
(* libxml2 *)

xmlNewDocNode(t, node) == [t EXCEPT !.nodes = Append(@, node), !.kids = Append(@, << >>)]

xmlUnlinkNode(t, n) ==
    LET up == Above(t, n)
    IN IF up = 0 THEN t
       ELSE [t EXCEPT !.kids[up] = Remove(@, n), !.nodes[n].up = 0]

xmlAddChild(t, up, n) ==
    LET free == xmlUnlinkNode(t, n)
    IN [free EXCEPT !.kids[up] = Append(@, n), !.nodes[n].up = up]

xmlAddPrevSibling(t, sib, n) ==
    LET Before(free, up) ==
            [free EXCEPT !.kids[up] = InsertAt(@, SelectInSeq(@, LAMBDA k : k = sib), n),
                         !.nodes[n].up = up]
        In(free) == Before(free, Above(free, sib))
    IN In(xmlUnlinkNode(t, n))

nodePush(t, n) == [t EXCEPT !.stack = Append(@, n)]
nodePop(t) == [t EXCEPT !.stack = Front(@)]

-----------------------------------------------------------------------------
slaxAddInsert(t, n) == [t EXCEPT !.insert = Append(@, n)]

\* Wrong: what waits comes after the node.
AddChildFirst(t, n) ==
    LET added == xmlAddChild(t, Context(t), n)
    IN FoldLeft(LAMBDA s, w : xmlAddChild(s, Context(t), w),
                [added EXCEPT !.insert = << >>], t.insert)

\* Add a child of the top of the stack; what waits to be inserted goes before.
slaxLexerAddChild(t, n) ==
    LET added == xmlAddChild(t, Context(t), n)
    IN FoldLeft(LAMBDA s, w : xmlAddPrevSibling(s, n, w),
                [added EXCEPT !.insert = << >>], t.insert)

slaxElementAdd(t, node) ==
    LET Add(made) == slaxLexerAddChild(made, Newest(made)) IN Add(xmlNewDocNode(t, node))

nodePushNewest(t) == nodePush(t, Newest(t))

slaxElementPush(t, node) == nodePushNewest(slaxElementAdd(t, node))

slaxElementOpen(t, name) == slaxElementPush(t, User("element", name, {}))

slaxElementPop(t) == nodePop(t)

\* A variable for a ternary goes before the node that uses it: a call's
\* variables before the call, and those of a template's parameters are
\* parameters.
slaxElementAddVar(t, name) ==
    LET sib == IF Tag(t, Context(t)) = "with-param" THEN Above(t, Context(t)) ELSE Context(t)
        tag == IF Tag(t, sib) = "param" /\ Tag(t, Above(t, sib)) = "template"
               THEN "param" ELSE "variable"
        Add(made) == xmlAddPrevSibling(made, sib, Newest(made))
    IN Add(xmlNewDocNode(t, Node(tag, name, {}, "ternary")))

slaxElementPushVar(t, name) == nodePushNewest(slaxElementAddVar(t, name))

-----------------------------------------------------------------------------
(* Values *)

Refers(refs) == [kind |-> "plain", refs |-> refs]
Ternary(k, test, yes, no) == [kind |-> "ternary", k |-> k, test |-> test, yes |-> yes, no |-> no]
Quoted == [kind |-> "quoted", refs |-> {}]
Absent == [kind |-> "absent"]

\* What is left of a value when its ternaries are variables.
Recast(value) == IF value.kind = "ternary" THEN {MadeUp("ternary", value.k)} ELSE value.refs

slaxAttribAddLiteral(t, refs) == [t EXCEPT !.nodes[Context(t)].refs = @ \cup refs]

RECURSIVE slaxTernaryExpand(_, _)

slaxAttribAdd(t, value) == slaxAttribAddLiteral(slaxTernaryExpand(t, value), Recast(value))

CopyOf(t, value) ==
    slaxElementPop(slaxAttribAdd(slaxElementPush(t, Node("copy-of", NoName, {}, "ternary")), value))

\* The ternary becomes a variable with a choose in it; without a second term
\* the test's value has a variable of its own in there.
slaxTernaryExpand(t, value) ==
    IF value.kind # "ternary" THEN t
    ELSE LET cond == MadeUp("cond", value.k)
             short == value.yes = Absent
             Make(s, tag, name) == slaxElementPush(s, Node(tag, name, {}, "ternary"))
             Tested(s) ==
                 IF ~ short THEN s
                 ELSE slaxElementPop(slaxAttribAdd(Make(s, "variable", cond), value.test))
             variable == slaxElementPushVar(t, MadeUp("ternary", value.k))
             when == Make(Make(Tested(variable), "choose", NoName), "when", NoName)
             yes == CopyOf(slaxAttribAdd(when, IF short THEN Refers({cond}) ELSE value.test),
                           IF short THEN Refers({cond}) ELSE value.yes)
             no == CopyOf(Make(slaxElementPop(yes), "otherwise", NoName), value.no)
         IN slaxElementPop(slaxElementPop(slaxElementPop(no)))

\* A statement that is just an expression; a string is text.
slaxElementXPath(t, value) ==
    IF value = Quoted THEN slaxElementAdd(t, User("text", NoName, {}))
    ELSE slaxElementPop(slaxAttribAdd(slaxElementPush(t, User("value-of", NoName, {})), value))

\* A comment that the lexer drains goes to the end of the context node, or of
\* the one around a sort; what waits to be inserted goes on waiting.
DrainedComment(t) ==
    LET up == IF Tag(t, Context(t)) = "sort" THEN Above(t, Context(t)) ELSE Context(t)
        Add(made) == xmlAddChild(made, up, Newest(made))
    IN Add(xmlNewDocNode(t, User("comment", NoName, {})))

-----------------------------------------------------------------------------
(* Elements as arguments: they become variables. *)

slaxHandleEltArgPrep(t) ==
    slaxElementPush([t EXCEPT !.made = @ + 1],
                    Node("variable", MadeUp("elt", t.made + 1), {}, "elt"))

\* The statement before which a variable can stand, if it is already there.
slaxHandleEltArgSafeInsert(t, base) ==
    LET up == Above(t, base)
    IN IF Tag(t, base) = "variable" THEN base
       ELSE IF Tag(t, base) \in {"with-param", "when", "otherwise"} THEN up
       ELSE 0

\* The variable on top of the stack, with the element under it put inside if
\* it isn't already, goes before that statement or waits for the next node.
slaxHandleEltArg(t, var_on_stack) ==
    LET Placed(filled, varp, insert) ==
            [tree |-> IF insert # 0 THEN xmlAddPrevSibling(filled, insert, varp)
                      ELSE slaxAddInsert(filled, varp),
             value |-> Refers({filled.nodes[varp].name})]
        Filled(free, varp, elt) ==
            IF var_on_stack THEN free
            ELSE xmlAddChild(xmlUnlinkNode(nodePop(free), elt), varp, elt)
        Place(filled, varp) ==
            Placed(filled, varp, slaxHandleEltArgSafeInsert(filled, Context(filled)))
        Fill(free, varp) == Place(Filled(free, varp, Context(free)), varp)
        Take(ready, varp) == Fill(xmlUnlinkNode(nodePop(ready), varp), varp)
        TakeTop(ready) == Take(ready, Context(ready))
    IN TakeTop(IF var_on_stack THEN t ELSE slaxHandleEltArgPrep(t))

-----------------------------------------------------------------------------
(* What is done to a statement when it has ended *)

\* := of an expression is wrapped in a function; := of anything else is given
\* to a variable made up, and the script's variable gets that one's nodes.
slaxAvoidRtf(t) ==
    LET n == Context(t)
        temp == MadeUp("temp", t.made + 1)
        renamed == [t EXCEPT !.nodes[n].name = temp, !.nodes[n].made = "temp", !.made = @ + 1]
        Add(made) == xmlAddChild(made, Above(t, n), Newest(made))
    IN IF t.nodes[n].refs # {} \/ t.kids[n] = << >> THEN t
       ELSE Add(xmlNewDocNode(renamed, User(Tag(t, n), t.nodes[n].name, {temp})))

ForDot(t, n) == \E r \in t.nodes[n].refs : r[1] = "dot"

\* A sort of a for loop belongs to the outer loop, as its first child.
slaxRelocateSort(t) ==
    LET n == Context(t)
        parent == Above(t, n)
    IN IF Tag(t, parent) = "for-each" /\ ForDot(t, parent)
       THEN xmlAddPrevSibling(t, Head(t.kids[Above(t, parent)]), n)
       ELSE t

\* Wrong: a choose with an otherwise, too.
CheckIfFirst(t, choosep) ==
    LET n == Head(t.kids[choosep])
        free == xmlUnlinkNode(xmlUnlinkNode([t EXCEPT !.nodes[n].tag = "if"], n), choosep)
    IN xmlAddChild(free, Context(t), n)

\* A choose with just one when is an if.
slaxCheckIf(t, choosep) ==
    LET n == Head(t.kids[choosep])
        free == xmlUnlinkNode(xmlUnlinkNode([t EXCEPT !.nodes[n].tag = "if"], n), choosep)
    IN IF Len(t.kids[choosep]) # 1 \/ Tag(t, n) # "when" THEN t
       ELSE xmlAddChild(free, Context(t), n)

\* An import moves up to the one before it, or to the front; only comments
\* that follow one another are passed.
RECURSIVE ImportBefore(_, _, _, _)
ImportBefore(t, sibs, i, found) ==
    IF i = 0 THEN found
    ELSE IF Tag(t, sibs[i]) = "comment" THEN ImportBefore(t, sibs, i - 1, found)
    ELSE IF i = 1 THEN found
    ELSE IF Tag(t, sibs[i - 1]) = "comment" THEN ImportBefore(t, sibs, i - 1, found)
    ELSE IF Tag(t, sibs[i - 1]) = "import" THEN sibs[i]
    ELSE ImportBefore(t, sibs, i - 1, sibs[i - 1])

\* Wrong: to the front.
MoveToFront(t, n) ==
    LET sibs == t.kids[Above(t, n)]
    IN IF Head(sibs) = n THEN t ELSE xmlAddPrevSibling(t, Head(sibs), n)

slaxMoveImport(t, n) ==
    LET sibs == t.kids[Above(t, n)]
        before == ImportBefore(t, sibs, SelectInSeq(sibs, LAMBDA k : k = n), 0)
    IN IF before \in {0, n} THEN t ELSE xmlAddPrevSibling(t, before, n)

\* The end of main, with or without an element around what it does.
slaxMainElement(t) ==
    LET inner == IF Tag(t, Context(t)) # "template" THEN slaxElementPop(t) ELSE t
    IN slaxElementPop(inner)
=============================================================================
