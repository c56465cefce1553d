------------------------------ MODULE SlaxExt ------------------------------
(***************************************************************************)
(* The extensions that keep handles for a script, curl: and db: side by    *)
(* side; they share nothing.                                               *)
(***************************************************************************)
EXTENDS SlaxCurl

CONSTANTS Accepts(_), Selects(_, _, _), Plain(_), Meant(_, _, _)
CONSTANTS Databases, Existing, Asks, Batches, Conds, MaxCursors, MaxBatches

\* The handles and the statements' names of db: are bases and named.
VARIABLES files, bases, stmts, named, cursors, answer, batches, gone

Db == INSTANCE SlaxDb WITH handles <- bases, seed <- named

dbVars == <<files, bases, stmts, named, cursors, answer, batches, gone>>

\* A batch is a sequence of keys.  For the conditions of a find that need no
\* parentheses the clause selects the rows that they mean, of the keys that are
\* inserted and the values that there are (see SlaxDbWhere).
DbKeys == UNION {ToSet(keys) : keys \in Batches}
DbValues == 0 .. 1
ASSUME DbAssumption ==
    /\ \A keys \in Batches : keys \in Seq(ToSet(keys))
    /\ \A ask \in Asks :
          /\ ask.limit \in Nat /\ ask.skip \in Nat
          /\ Plain(ask.cond) /\ Accepts(ask.cond) =>
                \A k \in DbKeys, v \in DbValues : Selects(ask.cond, k, v) <=> Meant(ask.cond, k, v)

-----------------------------------------------------------------------------
\* The promises of db: (see there).
RowsAsAsked == Db!RowsAsAsked
BatchesWhole == Db!BatchesWhole
CloseFrees == Db!CloseFrees
=============================================================================
