------------------------------- MODULE XiTree -------------------------------
(***************************************************************************)
(* The trees of libxi and what is done with them: insertion and output     *)
(* (libxi/xiparse.c), names and namespaces (libxi/xiworkspace.c), and the  *)
(* rules that say what is inserted (libxi/xirules.c).                      *)
(*                                                                         *)
(* A parser p is a record of                                               *)
(*   nodes    the nodes allocated, an atom being an index into them,       *)
(*   stack    the insertion points, the root's first: a node, the last     *)
(*            child that was appended to it, and the original name of a    *)
(*            node that was saved under another,                           *)
(*   ns_map   the pairs of a prefix and a URI, and                         *)
(*   names    the names in the name pool.                                  *)
(* Names, values and attribute strings stand for themselves, not for atoms *)
(* of pools.  An attribute is a record of its prefix, name and value, and  *)
(* "xmlns" as its name makes it a namespace; "bad" as its name stands for  *)
(* text that cannot be told as attributes.                                 *)
(***************************************************************************)
EXTENDS Integers, Sequences, SequencesExt, TLC

NullAtom == 0
None == "none"

ROOT == 1

Attribute(prefix, name, value) == [prefix |-> prefix, name |-> name, value |-> value]

Top(p) == p.stack[Len(p.stack)]

Node(type, name, contents, next, depth) ==
    [type |-> type, name |-> name, ns |-> NullAtom, contents |-> contents,
     next |-> next, depth |-> depth, present |-> FALSE]

InsertionPoint(atom) == [node |-> atom, last |-> NullAtom, old_name |-> None]

xi_parse_open ==
    [nodes |-> <<Node("ROOT", None, NullAtom, NullAtom, 0)>>,
     stack |-> <<InsertionPoint(ROOT)>>, ns_map |-> << >>, names |-> {}]

-----------------------------------------------------------------------------
(* Names and namespaces. *)

xi_namepool_atom(p, name) == [p EXCEPT !.names = @ \cup ({name} \ {None})]

\* The pair is added when it is not there; only its index is wanted.
xi_ns_find(p, prefix, uri) ==
    LET pair == [prefix |-> prefix, uri |-> uri]
        named == xi_namepool_atom(xi_namepool_atom(p, prefix), uri)
    IN IF Contains(p.ns_map, pair) THEN named
       ELSE [named EXCEPT !.ns_map = Append(@, pair)]

NsAtom(p, prefix, uri) ==
    CHOOSE i \in DOMAIN p.ns_map : p.ns_map[i] = [prefix |-> prefix, uri |-> uri]

-----------------------------------------------------------------------------
(* Insertion. *)

xi_insert_push(p, atom) == [p EXCEPT !.stack = Append(@, InsertionPoint(atom))]
xi_insert_pop(p) == [p EXCEPT !.stack = Front(@)]

\* A node becomes the last child of the insertion point.  The last child's
\* next is its parent, at a smaller depth.
xi_insert_node(p, type, name, contents) ==
    LET atom == Len(p.nodes) + 1
        top == Top(p)
        nodes == Append(p.nodes, Node(type, name, contents, top.node, Len(p.stack)))
    IN [p EXCEPT
          !.nodes = IF nodes[top.node].contents = NullAtom
                    THEN [nodes EXCEPT ![top.node].contents = atom]
                    ELSE [nodes EXCEPT ![top.last].next = atom],
          !.stack[Len(p.stack)].last = atom]

\* A namespace node goes after the given one, or before what its parent has;
\* and it is recorded as the last child.
xi_insert_ns_node(p, parent, after, ns) ==
    LET atom == Len(p.nodes) + 1
        was == IF after = NullAtom THEN p.nodes[parent].contents ELSE p.nodes[after].next
        next == IF was = NullAtom THEN parent ELSE was
        nodes == Append(p.nodes, Node("NS", None, ns, next, Len(p.stack)))
    IN [p EXCEPT
          !.nodes = IF after = NullAtom THEN [nodes EXCEPT ![parent].contents = atom]
                    ELSE [nodes EXCEPT ![after].next = atom],
          !.stack[Len(p.stack)].last = atom]

\* The first node at a smaller depth, among those that follow.
RECURSIVE FirstAbove(_, _, _)
FirstAbove(p, atom, depth) ==
    LET next == p.nodes[atom].next
    IN IF next = NullAtom THEN NullAtom
       ELSE IF p.nodes[next].depth < depth THEN next
       ELSE FirstAbove(p, next, depth)

xi_node_parent(p, atom) == FirstAbove(p, atom, p.nodes[atom].depth)

\* The namespace nodes a node starts with.
RECURSIVE NsChildren(_, _)
NsChildren(p, atom) ==
    IF atom = NullAtom THEN << >>
    ELSE IF p.nodes[atom].type # "NS" THEN << >>
    ELSE <<p.nodes[atom].contents>> \o NsChildren(p, p.nodes[atom].next)

\* Wrong: only the node itself is asked.
FindOwnNs(p, atom, prefix) ==
    LET own == SelectSeq(NsChildren(p, p.nodes[atom].contents),
                         LAMBDA ns : p.ns_map[ns].prefix = prefix)
    IN IF own # << >> THEN own[1] ELSE NullAtom

\* The mapping of a prefix that a node or the nearest of its ancestors has.
RECURSIVE xi_parse_find_ns_atom(_, _, _)
xi_parse_find_ns_atom(p, atom, prefix) ==
    LET own == SelectSeq(NsChildren(p, p.nodes[atom].contents),
                         LAMBDA ns : p.ns_map[ns].prefix = prefix)
    IN IF own # << >> THEN own[1]
       ELSE IF xi_node_parent(p, atom) = NullAtom THEN NullAtom
       ELSE xi_parse_find_ns_atom(p, xi_node_parent(p, atom), prefix)

\* Attributes kept as one string.
xi_insert_attribs(p, atom, attribs) ==
    LET q == xi_insert_node(p, "ATSTR", None, attribs)
    IN [q EXCEPT !.nodes[atom].present = TRUE]

\* One attribute in its own node, a prefix in another after it.
InsertAttrib(p, a) ==
    LET named == xi_namepool_atom(xi_namepool_atom(p, a.prefix), a.name)
        q == xi_insert_node(named, "ATTRIB", a.name, a.value)
    IN IF a.prefix = None THEN q ELSE xi_insert_node(q, "NSPREF", None, a.prefix)

\* The attributes in their order, the namespaces among them put first; after
\* is the last namespace node.  What cannot be told ends them.
RECURSIVE ExtractFrom(_, _, _, _, _)
ExtractFrom(p, atom, attribs, after, only_ns) ==
    LET a == Head(attribs)
        found == xi_ns_find(p, a.prefix, a.value)
        ns == xi_insert_ns_node(found, atom, after, NsAtom(found, a.prefix, a.value))
        Hit(q) == [q EXCEPT !.nodes[atom].present = TRUE]
    IN IF attribs = << >> THEN p
       ELSE IF a.name = "bad" THEN p
       ELSE IF a.name = "xmlns"
       THEN ExtractFrom(Hit(ns), atom, Tail(attribs), Len(ns.nodes), only_ns)
       ELSE IF only_ns THEN ExtractFrom(p, atom, Tail(attribs), after, only_ns)
       ELSE ExtractFrom(Hit(InsertAttrib(p, a)), atom, Tail(attribs), after, only_ns)

\* The prefixes of attributes stay where they were put: the loop that would
\* resolve them ends at once, since it looks at the element's own type.
xi_insert_attribs_extract(p, atom, attribs, only_ns) ==
    ExtractFrom(p, atom, attribs, NullAtom, only_ns)

HasNamespace(attribs) == \E i \in DOMAIN attribs : attribs[i].name = "xmlns"

\* What the action and the attributes make of the attributes.
SaveAttribs(p, atom, attribs, action) ==
    IF attribs = << >> THEN p
    ELSE IF action = "SAVE_ATTRIB" \/ (action = "SAVE_ATSTR" /\ HasNamespace(attribs))
    THEN xi_insert_attribs_extract(p, atom, attribs, FALSE)
    ELSE IF action = "SAVE_ATSTR" THEN xi_insert_attribs(p, atom, attribs)
    ELSE IF HasNamespace(attribs) THEN xi_insert_attribs_extract(p, atom, attribs, TRUE)
    ELSE p

xi_insert_open(p, name, prefix, attribs, action) ==
    LET atom == Len(p.nodes) + 1
        opened == xi_insert_push(xi_insert_node(p, "ELT", name, NullAtom), atom)
        saved == SaveAttribs(opened, atom, attribs, action)
    IN IF prefix = None THEN saved
       ELSE [saved EXCEPT !.nodes[atom].ns = xi_parse_find_ns_atom(saved, atom, prefix)]

\* Wrong: a node saved under another name is closed by that one.
CloseByTag(p, name) ==
    IF Len(p.stack) > 1 /\ p.nodes[Top(p).node].name = name THEN xi_insert_pop(p) ELSE p

\* A close that does not match what is open is reported and ignored.
xi_insert_close(p, name) ==
    LET top == Top(p)
        wanted == IF top.old_name # None THEN top.old_name ELSE p.nodes[top.node].name
    IN IF name \in p.names /\ Len(p.stack) > 1 /\ wanted = name THEN xi_insert_pop(p) ELSE p

xi_insert_text(p, data) == xi_insert_node(p, "UNESC", None, data)

Saves == {"SAVE", "SAVE_ATSTR", "SAVE_ATTRIB"}

\* The original name is recorded at the insertion point, saved or not.
xi_parse_handle_rule(p, name, prefix, attribs, rule) ==
    LET tag == IF rule.use_tag # None THEN rule.use_tag ELSE name
        q == IF rule.action \in Saves THEN xi_insert_open(p, tag, prefix, attribs, rule.action)
             ELSE p
    IN IF rule.use_tag = None THEN q ELSE [q EXCEPT !.stack[Len(q.stack)].old_name = name]

-----------------------------------------------------------------------------
(* Output.  An event is a type, the node and a name or a value. *)

Event(type, atom, data) == [type |-> type, atom |-> atom, data |-> data]

IsAttrib(n) == n.type \in {"ATSTR", "ATTRIB", "NS"}

\* The events from a node on, given the depth of the one before and whether
\* the end of an element's attributes is still to be told.
RECURSIVE EmitFrom(_, _, _, _)
EmitFrom(p, atom, last_depth, need) ==
    LET n == p.nodes[atom]
        leaves == last_depth > n.depth
        eol == IF ~ need \/ IsAttrib(n) THEN << >>
               ELSE <<Event(IF leaves THEN "EOL_EMPTY" ELSE "EOL_ATTRIB", atom, None)>>
        This(data) == <<Event(n.type, atom, data)>>
        empty == <<Event("EOL_EMPTY", atom, None), Event("CLOSE", atom, None)>>
    IN IF atom = NullAtom THEN << >>
       ELSE IF leaves
       THEN eol \o <<Event("CLOSE", atom, n.name)>> \o EmitFrom(p, n.next, n.depth, FALSE)
       ELSE IF n.type = "ROOT"
       THEN eol \o This(None)
            \o EmitFrom(p, IF n.contents # NullAtom THEN n.contents ELSE n.next, n.depth, FALSE)
       ELSE IF n.type = "ELT" /\ n.contents = NullAtom
       THEN eol \o This(n.name) \o empty \o EmitFrom(p, n.next, n.depth, FALSE)
       ELSE IF n.type = "ELT"
       THEN eol \o This(n.name) \o EmitFrom(p, n.contents, n.depth, TRUE)
       ELSE IF n.type = "NSPREF" THEN eol
       ELSE eol \o This(n.contents) \o EmitFrom(p, n.next, n.depth, IsAttrib(n))

xi_parse_emit(p) == EmitFrom(p, ROOT, 0, FALSE)

NoNs == [prefix |-> None, uri |-> None]

NsOf(p, n) == IF n.ns = NullAtom THEN NoNs ELSE p.ns_map[n.ns]

\* What is printed for an event, given the type of the one before; blanks and
\* line ends are left out.
Piece(p, last, e) ==
    LET n == p.nodes[e.atom]
    IN CASE e.type = "ELT" -> <<[is |-> "<", ns |-> NsOf(p, n), name |-> e.data]>>
         [] e.type = "EOL_ATTRIB" -> <<[is |-> ">"]>>
         [] e.type = "EOL_EMPTY" -> <<[is |-> "/>"]>>
         [] e.type = "CLOSE" ->
                IF e.data = None \/ last = "EOL_EMPTY" THEN << >>
                ELSE <<[is |-> "</", ns |-> NsOf(p, n), name |-> e.data]>>
         [] e.type = "UNESC" -> <<[is |-> "text", data |-> e.data]>>
         [] e.type = "ATSTR" -> e.data
         [] e.type = "ATTRIB" -> <<Attribute(None, n.name, e.data)>>
         [] e.type = "NS" -> <<[is |-> "xmlns", pair |-> p.ns_map[e.data]]>>
         [] OTHER -> << >>

xi_parse_emit_xml(p) ==
    LET events == xi_parse_emit(p)
    IN FlattenSeq([i \in DOMAIN events |->
                      Piece(p, IF i = 1 THEN None ELSE events[i - 1].type, events[i])])

-----------------------------------------------------------------------------
(* Rules. *)

\* The value of an element's attribute, among the nodes below the element.
RECURSIVE AttribFrom(_, _, _, _)
AttribFrom(p, atom, depth, name) ==
    IF atom = NullAtom THEN None
    ELSE IF p.nodes[atom].depth <= depth THEN None
    ELSE IF p.nodes[atom].type = "ATTRIB" /\ p.nodes[atom].name = name THEN p.nodes[atom].contents
    ELSE AttribFrom(p, p.nodes[atom].next, depth, name)

xi_get_attrib(p, atom, name) ==
    IF p.nodes[atom].present
    THEN AttribFrom(p, p.nodes[atom].contents, p.nodes[atom].depth, name) ELSE None

\* A rulebook: rules, linked by next, the first rule of every state that was
\* set up, and where the next rule's number goes: nowhere yet, a state, a rule.
EmptyRulebook == [rules |-> << >>, first |-> << >>, nextp |-> <<"nowhere", 0>>, crashed |-> FALSE]

Linked(rb, rid) ==
    CASE rb.nextp[1] = "state" -> [rb EXCEPT !.first[rb.nextp[2]] = rid]
      [] rb.nextp[1] = "rule" -> [rb EXCEPT !.rules[rb.nextp[2]].next = rid]
      [] OTHER -> [rb EXCEPT !.crashed = TRUE]

Rule(p, atom) ==
    LET tag == xi_get_attrib(p, atom, "tag")
        action == xi_get_attrib(p, atom, "action")
    IN [next |-> NullAtom, bitmap |-> {tag} \ {None},
        action |-> IF action = None THEN "NONE" ELSE action,
        use_tag |-> xi_get_attrib(p, atom, "use-tag")]

\* A state whose number is out of range leaves the place of the next rule.
MaxStates == 2

xi_rulebook_prep_cb(p, rb, e) ==
    LET id == xi_get_attrib(p, e.atom, "id")
        rid == Len(rb.rules) + 1
        linked == Linked([rb EXCEPT !.rules = Append(@, Rule(p, e.atom))], rid)
    IN IF e.type # "ELT" THEN rb
       ELSE IF e.data = "state" THEN
            IF id > MaxStates THEN rb
            ELSE [rb EXCEPT !.first = (id :> NullAtom) @@ @, !.nextp = <<"state", id>>]
       ELSE IF e.data = "rule" THEN [linked EXCEPT !.nextp = <<"rule", rid>>]
       ELSE rb

xi_rulebook_prep(p) ==
    LET Cb(rb, e) == xi_rulebook_prep_cb(p, rb, e)
    IN FoldLeft(Cb, EmptyRulebook, xi_parse_emit(p))

NoRule == [next |-> NullAtom, bitmap |-> {}, action |-> None, use_tag |-> None]

RECURSIVE FindRule(_, _, _)
FindRule(rb, rid, name) ==
    IF rid = NullAtom THEN NoRule
    ELSE IF name \in rb.rules[rid].bitmap THEN rb.rules[rid]
    ELSE FindRule(rb, rb.rules[rid].next, name)

\* The first rule of the initial state that has the name, if there is one.
xi_rulebook_find(rb, name) ==
    IF 1 \in DOMAIN rb.first THEN FindRule(rb, rb.first[1], name) ELSE NoRule
=============================================================================
