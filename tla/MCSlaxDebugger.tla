---------------------------- MODULE MCSlaxDebugger ----------------------------
(* Values for the constants of SlaxRunning. *)
EXTENDS SlaxRunning

\* A script of one recursive template: node 2 calls it with a parameter, node
\* 3, on the same line.  The second version of the file has lost the
\* parameter.
MCVersions == <<{1, 2, 3}, {1, 2}, {1, 2, 3}>>
MCKind == <<"template", "call", "param">>
MCLine == <<1, 2, 2>>
MCLocations == {1, 3}
MCFails == {1}
MCFailsAny == {1, 2}

\* Two lines of the script and one of a file that it includes.
MCTimed == {[line |-> 1, own |-> TRUE], [line |-> 2, own |-> TRUE], [line |-> 1, own |-> FALSE]}

\* One global and one local mutable variable and an immutable one; an input
\* document of one child and one kind of block.
MCInput == <<"<a>">>
MCTrees == {<<"<c>">>}
=============================================================================
