------------------------------ MODULE SlaxMvar ------------------------------
(***************************************************************************)
(* Mutable variables (libslax/slaxmvar.c) over the memory of libxslt.  A   *)
(* mutable variable has a shadow variable whose value is a node set of     *)
(* containers, documents that hold copies of everything ever assigned to   *)
(* it; the containers are freed through their next pointers, from the      *)
(* variable that owns the first or from the context's list of persistent   *)
(* fragments.  Values of variables are node sets that refer into them.     *)
(* A document is a number, 0 the input document; a node is a document and  *)
(* a place among its children, 0 the document itself.                      *)
(***************************************************************************)
EXTENDS Integers, SequencesExt

CONSTANTS
    Globals, Locals,    \* mutable variables, outside and inside templates
    Others,             \* immutable variables, of a template
    Imported,           \* the variables that another file declares
    Input,              \* the children of the input document
    Trees,              \* what blocks of statements can build
    Strings,
    MaxDocs, MaxKids,   \* bounds: documents made, children of one
    MaxStatements       \* bound: statements carried out

MvarAssumption ==
    /\ Globals \cap Locals = {} /\ (Globals \cup Locals) \cap Others = {}
    /\ {Input} \cup Trees \subseteq Seq(UNION {ToSet(kids) : kids \in {Input} \cup Trees})
    /\ {MaxDocs, MaxKids, MaxStatements} \subseteq Nat

VARIABLES
    docs,       \* every document: its children, the next one, if it was freed
    persistRVT, \* the context's list of persistent fragments: its first, or 0
    values,     \* the values of the variables
    shadow,     \* the containers of a shadow variable
    fragment,   \* the first document of a local variable's own list, or 0
    seen,       \* what an immutable variable held when it was made
    phase,      \* "global" or "template" code, "looping" or "done"
    statements  \* how many were carried out

vars == <<docs, persistRVT, values, shadow, fragment, seen, phase, statements>>

Mvars == Globals \cup Locals
Names == Mvars \cup Others
Text(x) == [kind |-> "string", str |-> x, nodes |-> << >>, tree |-> << >>]
NodeSet(x) == [kind |-> "nodes", str |-> "", nodes |-> x, tree |-> << >>]
Block(x) == [kind |-> "tree", str |-> "", nodes |-> << >>, tree |-> x]
Nothing == [kind |-> "none", str |-> "", nodes |-> << >>, tree |-> << >>]

slaxValueIsScalar(value) == value.kind = "string"

-----------------------------------------------------------------------------
(* Documents.  Operators that make or change one take and return a record  *)
(* of docs, persistRVT and shadow.                                         *)

Kids(ds, node) ==
    IF node[2] = 0 THEN ds[node[1]].kids ELSE <<ds[node[1]].kids[node[2]]>>

AllKids(ds, nodes) == FlattenSeq([i \in 1 .. Len(nodes) |-> Kids(ds, nodes[i])])

Content(ds, value) == IF value.kind = "tree" THEN value.tree ELSE AllKids(ds, value.nodes)

Memory == [docs |-> docs, persistRVT |-> persistRVT, shadow |-> shadow]

Newest(mem) == CHOOSE d \in DOMAIN mem.docs : \A e \in DOMAIN mem.docs : e <= d

xsltCreateRVT(mem, kids, next) ==
    LET new == Newest(mem) + 1
        ds == DOMAIN mem.docs \cup {new}
        made == [kids |-> kids, next |-> next, live |-> TRUE]
    IN [mem EXCEPT !.docs = [d \in ds |-> IF d = new THEN made ELSE mem.docs[d]]]

\* A new document at the head of the context's list, the variable's first.
Persistent(mem, n, kids) ==
    LET made == xsltCreateRVT(mem, kids, mem.persistRVT)
    IN [made EXCEPT !.persistRVT = Newest(made), !.shadow[n] = <<Newest(made)>>]

\* The root of the shadow variable's value; if there isn't one, it is made.
slaxMvarGetSvarRoot(mem, n) ==
    IF mem.shadow[n] # << >> THEN mem ELSE Persistent(mem, n, << >>)

\* Wrong: the last value's container gives way to the new one.
ContainerReplaced(mem, n) ==
    IF mem.shadow[n] = << >> THEN slaxMvarGetSvarRoot(mem, n)
    ELSE LET made == xsltCreateRVT(mem, << >>, 0)
         IN [made EXCEPT !.docs[Last(mem.shadow[n])].live = FALSE,
                         !.shadow[n] = Append(@, Newest(made))]

\* Wrong: it is registered with the context also when it is chained.
ContainerPersistent(mem, n) ==
    IF mem.shadow[n] = << >> THEN slaxMvarGetSvarRoot(mem, n)
    ELSE LET made == xsltCreateRVT(mem, << >>, mem.persistRVT)
         IN [made EXCEPT !.docs[Last(mem.shadow[n])].next = Newest(made),
                         !.persistRVT = Newest(made),
                         !.shadow[n] = Append(@, Newest(made))]

\* A container for a new value, chained to the one before it.
slaxMvarNewContainer(mem, n) ==
    IF mem.shadow[n] = << >> THEN slaxMvarGetSvarRoot(mem, n)
    ELSE LET made == xsltCreateRVT(mem, << >>, 0)
         IN [made EXCEPT !.docs[Last(mem.shadow[n])].next = Newest(made),
                         !.shadow[n] = Append(@, Newest(made))]

slaxMvarLastContainer(mem, n) == slaxMvarGetSvarRoot(mem, n)

\* Add copies of children to a container.
slaxMvarAdd(mem, c, kids) == [mem EXCEPT !.docs[c].kids = @ \o kids]

Added(mem, c, count) ==
    [i \in 1 .. count |-> <<c, Len(mem.docs[c].kids) + i>>]

\* The place in a node set of the first document, where copying ends.
FragmentAt(nodes) ==
    IF \E i \in 1 .. Len(nodes) : nodes[i][2] = 0
    THEN CHOOSE i \in 1 .. Len(nodes) :
            nodes[i][2] = 0 /\ \A j \in 1 .. i - 1 : nodes[j][2] # 0
    ELSE 0

\* The nodes of a set up to the first document, and the document.
Copied(nodes) ==
    IF FragmentAt(nodes) = 0 THEN nodes ELSE SubSeq(nodes, 1, FragmentAt(nodes))

slaxMvarCloneNodeset(mem, c, value) ==
    LET nodes == Copied(value.nodes)
        whole == value.kind = "tree" \/ FragmentAt(value.nodes) > 0
        single == IF whole THEN Len(nodes) - 1 ELSE Len(nodes)
        kids == IF value.kind = "tree" THEN value.tree ELSE AllKids(mem.docs, nodes)
    IN [mem |-> slaxMvarAdd(mem, c, kids),
        res |-> Added(mem, c, single) \o IF whole THEN <<<<c, 0>>>> ELSE << >>]

-----------------------------------------------------------------------------
(* Values that expressions and blocks give *)

InScope(n) == values[n] # Nothing

\* $n, and the children $n/* of the fragments it holds.
Reference(n) == values[n]
Children(n) ==
    LET Of(node) ==
            IF node[2] # 0 THEN << >>
            ELSE [i \in 1 .. Len(docs[node[1]].kids) |-> <<node[1], i>>]
        nodes == values[n].nodes
    IN NodeSet(FlattenSeq([i \in 1 .. Len(nodes) |-> Of(nodes[i])]))

Constants ==
    {Text(s) : s \in Strings} \cup {Block(t) : t \in Trees}
        \cup {NodeSet([i \in 1 .. k |-> <<0, i>>]) : k \in 1 .. Len(Input)}

Expressions ==
    Constants
        \cup {Reference(n) : n \in {m \in Names : InScope(m)}}
        \cup {Children(n) : n \in {m \in Names : InScope(m) /\ ~slaxValueIsScalar(values[m])}}

Fits(mem) ==
    /\ Newest(mem) <= MaxDocs
    /\ \A d \in DOMAIN mem.docs : Len(mem.docs[d].kids) <= MaxKids

Becomes(mem, n, value) ==
    /\ values' = [values EXCEPT ![n] = value]
    /\ docs' = mem.docs /\ persistRVT' = mem.persistRVT /\ shadow' = mem.shadow
    /\ Fits(mem)

-----------------------------------------------------------------------------
(* Statements *)

\* Wrong: whatever has a name can be set.
CompilesAll(n) == TRUE

\* slaxMvarCompile looks for the variable among the ancestors' children; one
\* it does not find, it lets pass.
Compiles(n) == n \in Mvars \/ n \in Imported

\* mvar $n = { ... }: the shadow variable is evaluated first and keeps the
\* nodes; slaxMvarInit refers to its root.
DeclareBlock(n, tree) ==
    LET global == Persistent(Memory, n, tree)
        made == xsltCreateRVT(Memory, tree, 0)
        local == [made EXCEPT !.shadow[n] = <<Newest(made)>>]
    IN /\ tree # << >>
       /\ Becomes(IF n \in Globals THEN global ELSE local, n,
                  NodeSet(<<<<Newest(made), 0>>>>))
       /\ fragment' = IF n \in Globals THEN fragment
                      ELSE [fragment EXCEPT ![n] = Newest(made)]

\* mvar $n = expression: the value is copied to a container made here, in the
\* context the variable appears in.
DeclareValue(n, value) ==
    LET mem == slaxMvarLastContainer(Memory, n)
        clone == slaxMvarCloneNodeset(mem, Last(mem.shadow[n]), value)
    IN /\ value.kind # "tree"
       /\ IF slaxValueIsScalar(value) THEN Becomes(mem, n, value)
          ELSE Becomes(clone.mem, n, NodeSet(clone.res))
       /\ UNCHANGED fragment

\* mvar $n: nothing is made, and the value is the empty string.
DeclareEmpty(n) == Becomes(Memory, n, Text("")) /\ UNCHANGED fragment

\* What a declaration gives: an expression or a block, or nothing at all, which
\* is the empty string.
Initial == Expressions \cup {Text("")}

slaxMvarCreateSvar(n, value) ==
    /\ ~InScope(n)
    /\ phase = IF n \in Globals THEN "global" ELSE "template"
    /\ \/ value.kind = "tree" /\ DeclareBlock(n, value.tree)
       \/ DeclareValue(n, value)
       \/ value = Text("") /\ DeclareEmpty(n)
    /\ UNCHANGED <<seen, phase>>

\* var $n = $m or $m/*: nothing is copied.
DeclareOther(n, value) ==
    /\ phase = "template" /\ ~InScope(n)
    /\ value.kind = "nodes"
    /\ values' = [values EXCEPT ![n] = value]
    /\ seen' = [seen EXCEPT ![n] = Content(docs, value)]
    /\ UNCHANGED <<docs, persistRVT, shadow, fragment, phase>>

\* set $n = value.  A variable without a shadow can only be given a string.
slaxMvarSet(n, value) ==
    LET mem == slaxMvarNewContainer(Memory, n)
        clone == slaxMvarCloneNodeset(mem, Last(mem.shadow[n]), value)
    IN /\ slaxValueIsScalar(value) \/ n \in Mvars
       /\ IF slaxValueIsScalar(value) THEN Becomes(Memory, n, value)
          ELSE Becomes(clone.mem, n, NodeSet(clone.res))
       /\ UNCHANGED <<fragment, seen, phase>>

\* append $n += value, with two strings.
AppendString(n, value) ==
    /\ Len(values[n].str \o value.str) <= MaxKids
    /\ Becomes(Memory, n, Text(values[n].str \o value.str))
    /\ UNCHANGED phase

\* Copying from the container to itself, child after child, does not end.
Endless(n, value) ==
    /\ FragmentAt(value.nodes) > 0
    /\ shadow[n] # << >>
    /\ value.nodes[FragmentAt(value.nodes)] = <<Last(shadow[n]), 0>>

\* Wrong: nodes are added to the variable's set also when the set has the
\* container they are added to.
TargetsAlways(nodes, c) == TRUE

\* Nodes added to a container need not be added to a set that has it.
Targets(nodes, c) == <<c, 0>> \notin ToSet(nodes)

\* ... and with nodes on either side: they go to the last container.
AppendNodes(n, value) ==
    LET mem == slaxMvarLastContainer(Memory, n)
        c == Last(mem.shadow[n])
        kids == CASE value.kind = "string" -> IF value.str = "" THEN << >> ELSE <<value.str>>
                  [] value.kind = "tree" -> value.tree
                  [] OTHER -> AllKids(docs, Copied(value.nodes))
        res == values[n].nodes
    IN /\ n \in Mvars
       /\ IF Endless(n, value)
          THEN phase' = "looping" /\ UNCHANGED <<docs, persistRVT, shadow, values>>
          ELSE /\ Becomes(slaxMvarAdd(mem, c, kids), n,
                          NodeSet(IF Targets(res, c) THEN res \o Added(mem, c, Len(kids)) ELSE res))
               /\ UNCHANGED phase

slaxMvarAppend(n, value) ==
    /\ IF slaxValueIsScalar(values[n]) /\ slaxValueIsScalar(value)
       THEN AppendString(n, value) ELSE AppendNodes(n, value)
    /\ UNCHANGED <<fragment, seen>>

\* A set or an append statement is carried out.
slaxMvarElement(n, value, append) ==
    /\ phase = "template"
    /\ Compiles(n) /\ InScope(n)
    /\ IF append THEN slaxMvarAppend(n, value) ELSE slaxMvarSet(n, value)

-----------------------------------------------------------------------------
(* Templates and the end of the run *)

\* The documents a list holds, which are freed through their next pointers.
Chain(head) ==
    LET reach[k \in 0 .. MaxDocs] ==
            IF k = 0 THEN {head}
            ELSE LET got == reach[k - 1] IN got \cup {docs[d].next : d \in got}
    IN reach[MaxDocs] \ {0}

Freed(gone) == [d \in DOMAIN docs |-> [docs[d] EXCEPT !.live = @ /\ d \notin gone]]

EnterTemplate ==
    /\ phase = "global" /\ \A n \in Globals : InScope(n)
    /\ phase' = "template"
    /\ UNCHANGED <<docs, persistRVT, values, shadow, fragment, seen, statements>>

\* libxslt frees a template's variables, each with the list of its fragment.
LeaveTemplate ==
    /\ phase = "template" /\ phase' = "global"
    /\ docs' = Freed(UNION {Chain(fragment[n]) : n \in Locals})
    /\ values' = [n \in Names |-> IF n \in Globals THEN values[n] ELSE Nothing]
    /\ shadow' = [n \in Mvars |-> IF n \in Globals THEN shadow[n] ELSE << >>]
    /\ fragment' = [n \in Locals |-> 0]
    /\ seen' = [n \in Others |-> << >>]
    /\ UNCHANGED <<persistRVT, statements>>

\* The transformation ends: the context frees its persistent fragments.
Finish ==
    /\ phase = "global" /\ phase' = "done" /\ \A n \in Globals : InScope(n)
    /\ docs' = Freed(Chain(persistRVT))
    /\ values' = [n \in Names |-> Nothing]
    /\ shadow' = [n \in Mvars |-> << >>]
    /\ UNCHANGED <<persistRVT, fragment, seen, statements>>

Init ==
    /\ docs = [d \in {0} |-> [kids |-> Input, next |-> 0, live |-> TRUE]]
    /\ persistRVT = 0
    /\ values = [n \in Names |-> Nothing]
    /\ shadow = [n \in Mvars |-> << >>]
    /\ fragment = [n \in Locals |-> 0]
    /\ seen = [n \in Others |-> << >>]
    /\ phase = "global"
    /\ statements = 0

Statement ==
    /\ statements < MaxStatements
    /\ statements' = statements + 1

Next ==
    \/ Statement /\ \E n \in Mvars : \E value \in Initial : slaxMvarCreateSvar(n, value)
    \/ Statement /\ \E n \in Others : \E value \in Expressions : DeclareOther(n, value)
    \/ Statement /\ \E n \in Names : \E value \in Expressions : slaxMvarElement(n, value, FALSE)
    \/ Statement /\ \E n \in Names : \E value \in Expressions : slaxMvarElement(n, value, TRUE)
    \/ EnterTemplate
    \/ LeaveTemplate
    \/ Finish

Spec == Init /\ [][Next]_vars

-----------------------------------------------------------------------------
(* Properties *)

\* What a script sees in a value: its string, or the content of its nodes.
HeldBy(value) ==
    CASE value.kind \in {"nodes", "tree"} ->
            [kind |-> "nodes", str |-> "", nodes |-> Content(docs, value)]
      [] OTHER -> [kind |-> value.kind, str |-> value.str, nodes |-> << >>]

Held(n) == HeldBy(values[n])
Holding == [n \in Mvars |-> Held(n)]
Elsewhere == {Held(n) : n \in Others}

Promise == INSTANCE MvarSpec WITH
    Names <- Mvars, Mutable <- Mvars, Local <- Locals,
    Literals <- {[kind |-> "string", str |-> s, nodes |-> << >>] : s \in Strings \cup {""}}
        \cup {[kind |-> "nodes", str |-> "", nodes |-> t] : t \in Trees \cup {SubSeq(Input, 1, k) : k \in 0 .. Len(Input)}},
    holds <- Holding, elsewhere <- Elsewhere

\* What a statement does: a declaration and a set give the variable they name
\* the value they have, an append adds that value to what the variable held, and
\* no other variable changes, whatever containers the values refer to and
\* whatever was assigned from one to the other.  Only an append of a variable's
\* last container to itself, which never comes to its end, changes nothing.
Effect(n, value) ==
    /\ slaxMvarCreateSvar(n, value) => Promise!Declare(n, HeldBy(value))
    /\ slaxMvarElement(n, value, FALSE) => Promise!SetTo(n, HeldBy(value))
    /\ slaxMvarElement(n, value, TRUE) =>
            IF phase' = "looping" THEN UNCHANGED Holding
            ELSE Promise!AppendTo(n, HeldBy(value))

\* No other variable is given another value, so only a variable for which that
\* is so can be the one named.  The end of a template takes the values of its
\* variables, and leaves the others with what they held.
Effects ==
    /\ \A n \in {m \in Mvars : \A o \in Names \ {m} : values'[o] = values[o]} :
       \A value \in Initial : Effect(n, value)
    /\ LeaveTemplate => Promise!Leave
    /\ Finish => Promise!Finish

\* doc/notes.rst has it that a string is not joined with a string: appending to
\* it discards it, and "the value is simply assigned to the mvar".
StringsAreAssigned ==
    [][\A n \in Mvars : \A value \in Expressions :
        (/\ slaxValueIsScalar(values[n]) /\ slaxValueIsScalar(value)
         /\ slaxMvarElement(n, value, TRUE))
            => HeldBy(values[n])' = HeldBy(value)]_vars

\* No value refers to a document that was freed: containers of older values
\* live as long as the variables that may still refer to them.
NoDangling ==
    \A n \in Names : \A i \in 1 .. Len(values[n].nodes) :
        docs[values[n].nodes[i][1]].live

\* No document is on two of the lists that are freed, and none that is on
\* one was freed before: next is shared by the chain of containers and by
\* libxslt's own lists.
FreedOnce ==
    phase # "done" =>
        LET lists == {Chain(persistRVT)} \cup {Chain(fragment[n]) : n \in Locals}
        IN /\ \A a, b \in lists : a = b \/ a \cap b = {}
           /\ \A a \in lists : \A d \in a : docs[d].live

\* What an immutable variable refers to stays what it was, except that nodes
\* are added at the end of a fragment it refers to as a whole.
OthersKept ==
    \A n \in Others : InScope(n) =>
        LET now == Content(docs, values[n])
        IN IF FragmentAt(values[n].nodes) = 0 THEN now = seen[n]
           ELSE IsPrefix(seen[n], now)

\* The documents that mutable variables make: what a value refers to lives,
\* what is freed is freed once (slaxMvarSet, slaxMvarAppend, libxslt's
\* persistent and local lists), and a variable that was given another one's
\* value keeps it when that one changes.
DocumentsSound == NoDangling /\ FreedOnce /\ OthersKept
=============================================================================
