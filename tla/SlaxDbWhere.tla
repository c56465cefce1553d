---------------------------- MODULE SlaxDbWhere ----------------------------
(* The WHERE clause that the conditions of a db: call are turned into       *)
(* (db_sqlite_build_where in db_driver_sqlite.c), the rows it selects, and  *)
(* what the script means by it.  A condition is [op, col, val, args]: "is"  *)
(* compares a column, "and" and "or" have the sequence args; a token of the *)
(* clause is a comparison, "and" or "or".                                   *)
EXTENDS Integers, Sequences

Op(op) == [op |-> op, col |-> "", val |-> 0, args |-> <<>>]

RECURSIVE Clause(_, _)
\* Without an operator the first comparison is the last condition.
Clause(list, op) ==
    IF list = <<>> THEN <<>>
    ELSE LET c == Head(list)
             term == IF c.op = "is" THEN <<c>> ELSE Clause(c.args, c.op)
         IN  IF op = "" THEN term \o (IF c.op = "is" THEN <<>> ELSE Clause(Tail(list), op))
             ELSE term \o (IF Len(list) > 1 THEN <<Op(op)>> ELSE <<>>) \o Clause(Tail(list), op)

\* No WHERE without conditions.
Where(cond) == Clause(cond, "")

\* SQL takes comparisons with operators between them, "and" before "or".
TakesClause(cond) ==
    LET t == Where(cond)
    IN  /\ cond # <<>> => Len(t) % 2 = 1
        /\ \A i \in DOMAIN t : (t[i].op = "is") = (i % 2 = 1)
True(c, k, v) == (IF c.col = "k" THEN k ELSE v) = c.val

\* If a row with k and v in its columns is selected.
ClauseSelects(cond, k, v) ==
    LET t == Where(cond)
        Ors == {0, Len(t) + 1} \cup {i \in DOMAIN t : t[i].op = "or"}
    IN  \E i, j \in Ors :
           /\ i < j /\ \A l \in Ors : l <= i \/ l >= j
           /\ \A l \in i + 1 .. j - 1 : t[l].op = "is" => True(t[l], k, v)

-----------------------------------------------------------------------------
(* What the script asks for. *)

RECURSIVE Meaning(_, _, _)
Meaning(c, k, v) ==
    CASE c.op = "is"  -> True(c, k, v)
      [] c.op = "and" -> \A i \in DOMAIN c.args : Meaning(c.args[i], k, v)
      [] c.op = "or"  -> \E i \in DOMAIN c.args : Meaning(c.args[i], k, v)

CondMeant(cond, k, v) == \A i \in DOMAIN cond : Meaning(cond[i], k, v)

\* The clause has no parentheses, which an "or" in an "and" would need.
RECURSIVE Grouped(_)
Grouped(c) == \A i \in DOMAIN c.args : Grouped(c.args[i]) /\ (c.op = "and" => c.args[i].op # "or")
Unambiguous(cond) == \A i \in DOMAIN cond : i = 1 /\ Grouped(cond[i])
=============================================================================
