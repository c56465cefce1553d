------------------------------ MODULE MvarSpec ------------------------------
(***************************************************************************)
(* What variables promise a script: each holds a string, or nodes of its   *)
(* own; set gives a mutable variable a new value and append extends the    *)
(* value it has (doc/constructs.rst, "The mvar Statement"), and neither    *)
(* changes what any other variable holds.  How a value is extended is the  *)
(* four cases that the comment on slaxMvarAppend lists.  An earlier note   *)
(* (doc/notes.rst, "If the mvar has a scalar value ...") has another rule  *)
(* for strings; it is not the one stated here.                             *)
(***************************************************************************)
LOCAL INSTANCE Sequences

CONSTANTS
    Names,      \* the variables
    Mutable,    \* the ones that are mutable
    Local,      \* the ones that go out of scope with a template
    Literals    \* what a statement can give besides what variables hold

VARIABLES
    holds,      \* what each variable holds
    elsewhere   \* what other variables hold, which nothing is promised about

Text(x) == [kind |-> "string", str |-> x, nodes |-> << >>]
Nodes(x) == [kind |-> "nodes", str |-> "", nodes |-> x]
Nothing == [kind |-> "none", str |-> "", nodes |-> << >>]

\* A string of no characters makes no node.
TextNode(x) == IF x = "" THEN << >> ELSE <<x>>

\* The four cases: strings are joined, a string gives way to nodes, a string
\* becomes a text node, nodes are added.
Appended(old, new) ==
    CASE old.kind = "string" /\ new.kind = "string" -> Text(old.str \o new.str)
      [] old.kind = "string" /\ new.kind = "nodes" -> new
      [] old.kind = "nodes" /\ new.kind = "string" -> Nodes(old.nodes \o TextNode(new.str))
      [] OTHER -> Nodes(old.nodes \o new.nodes)

Values == (Literals \cup elsewhere \cup {holds[n] : n \in Names}) \ {Nothing}

Init == holds = [n \in Names |-> Nothing]

Declare(n, v) ==
    /\ holds[n] = Nothing
    /\ holds' = [holds EXCEPT ![n] = v]

SetTo(n, v) ==
    /\ n \in Mutable /\ holds[n] # Nothing
    /\ holds' = [holds EXCEPT ![n] = v]

AppendTo(n, v) ==
    /\ n \in Mutable /\ holds[n] # Nothing
    /\ holds' = [holds EXCEPT ![n] = Appended(@, v)]

Leave == holds' = [n \in Names |-> IF n \in Local THEN Nothing ELSE holds[n]]
Finish == holds' = [n \in Names |-> Nothing]

Next ==
    \/ Leave
    \/ Finish
    \/ \E n \in Names, v \in Values : Declare(n, v) \/ SetTo(n, v) \/ AppendTo(n, v)

Spec == Init /\ [][Next]_holds
=============================================================================
