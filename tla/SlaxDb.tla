------------------------------- MODULE SlaxDb -------------------------------
(* The db: extension functions (src/extensions/db/ext_db.c) and their      *)
(* SQLite driver (src/extensions/db/sqlite/db_driver_sqlite.c): handles,   *)
(* statements named by cursors, the SQL a call's input is turned into, and *)
(* one collection with a unique key k and a column v in each database      *)
(* file.  SQLite itself is external: statements of a batch run until one   *)
(* fails, a write needs the file's one RESERVED lock, a commit that no     *)
(* other connection reads, and a connection with statements left does not  *)
(* close.                                                                  *)
EXTENDS Integers, Sequences, SequencesExt, FiniteSetsExt

CONSTANTS Accepts(_),       \* SQL takes the clause for conditions,
          Selects(_, _, _), \* which selects a row by its columns k and v
          Plain(_),         \* conditions that need no parentheses
          Meant(_, _, _)    \* a row is one that conditions mean

CONSTANTS Databases,   \* database files
          Existing,    \* those that have the collection already
          Asks,        \* inputs of find: [cond, sort, limit, skip]
          Batches,     \* inputs of insert: sequences of keys
          Conds,       \* conditions of delete and update
          MaxHandles,  \* bound: opens
          MaxCursors,  \* bound: statements made
          MaxBatches   \* bound: inserts

VARIABLES files,    \* file -> [made, rows]: what is committed
          handles,  \* by number: [file, listed, live, lock, txn, mine]
          stmts,    \* db_sqlite_stmts, in order: [name, owner, ask, active, rest]
          seed,     \* names given to statements so far
          cursors,  \* cursors returned to the script: [handle, name, ask]
          answer,   \* rows the last call returned: [cursor, rows, whole]
          batches,  \* history: [file, keys, done] of every insert
          gone      \* history: keys and batches of rows a commit deleted

vars == <<files, handles, stmts, seed, cursors, answer, batches, gone>>

-----------------------------------------------------------------------------
(* What is asked and answered.                                             *)

NoAsk == [cond |-> <<>>, sort |-> "no", limit |-> 0, skip |-> 0]
None == [handle |-> 0, name |-> 0, ask |-> NoAsk]
NoAnswer == [cursor |-> None, rows |-> <<>>, whole |-> FALSE]

\* An OFFSET is written without a LIMIT too, which SQL refuses.
Prepares(ask) == Accepts(ask.cond) /\ (ask.skip # 0 => ask.limit # 0)

\* A row goes after those that come before it; without a sort order all do.
Before(a, b, how) == how = "no" \/ (how = "asc" /\ a.k < b.k) \/ (how = "desc" /\ a.k > b.k)
Sorted(rows, row, how) ==
    LET n == Cardinality({i \in DOMAIN rows : Before(rows[i], row, how)})
    IN  SubSeq(rows, 1, n) \o <<row>> \o SubSeq(rows, n + 1, Len(rows))

\* Of so many rows those that are selected, sorted.
Hits(rows, ask) ==
    LET hits[i \in 0 .. Len(rows)] ==
            IF i = 0 THEN <<>>
            ELSE IF Selects(ask.cond, rows[i].k, rows[i].v)
            THEN Sorted(hits[i - 1], rows[i], ask.sort) ELSE hits[i - 1]
    IN  hits[Len(rows)]
Result(rows, ask) ==
    LET hits == Hits(rows, ask)
        last == IF ask.limit = 0 THEN Len(hits) ELSE Min({Len(hits), ask.skip + ask.limit})
    IN  SubSeq(hits, ask.skip + 1, last)

-----------------------------------------------------------------------------
(* SQLite.  A connection's lock is "none", "reserved" or "pending" (a      *)
(* commit was refused); txn says that BEGIN was run.  With a lock the      *)
(* connection works on its own copy, mine.                                 *)

Others(h) == {g \in DOMAIN handles \ {h} : handles[g].file = handles[h].file /\ handles[g].live}
Sees(h) == IF handles[h].lock = "none" THEN files[handles[h].file] ELSE handles[h].mine
Reads(g) == \E i \in DOMAIN stmts : stmts[i].owner = g /\ stmts[i].active
MayWrite(h) == \A g \in Others(h) : handles[g].lock = "none"
MayCommit(h) == MayWrite(h) /\ \A g \in Others(h) : ~Reads(g)
MayRead(h) == \A g \in Others(h) : handles[g].lock # "pending"

Row(k) == [k |-> k, v |-> 0, b |-> Len(batches) + 1]
\* The rows of a batch that go in before one is refused.
Fits(rows, keys) ==
    LET bad == {i \in DOMAIN keys : (\E j \in DOMAIN rows : rows[j].k = keys[i])
                                      \/ \E j \in 1 .. i - 1 : keys[j] = keys[i]}
    IN  IF bad = {} THEN Len(keys) ELSE Min(bad) - 1
Added(t, keys) == [t EXCEPT !.rows = @ \o [i \in 1 .. Fits(@, keys) |-> Row(keys[i])]]

-----------------------------------------------------------------------------
Init ==
    /\ files = [f \in Databases |-> [made |-> f \in Existing, rows |-> <<>>]]
    /\ handles = <<>> /\ stmts = <<>> /\ seed = 0 /\ cursors = {}
    /\ answer = NoAnswer /\ batches = <<>> /\ gone = {}

Listed(h) == handles[h].listed
NoRows == answer' = NoAnswer

\* db:open; SQLite may fail to open the file, and the handle stays in the list.
Open(f, ok) ==
    /\ Len(handles) < MaxHandles
    /\ handles' = Append(handles, [file |-> f, listed |-> TRUE, live |-> ok, lock |-> "none",
                                   txn |-> FALSE, mine |-> [made |-> FALSE, rows |-> <<>>]])
    /\ NoRows
    /\ UNCHANGED <<files, stmts, seed, cursors, batches, gone>>

\* One statement that writes, outside a transaction or inside one left open.
Writes(h, new) ==
    IF handles[h].txn
    THEN IF ~MayWrite(h)
         THEN NoRows /\ UNCHANGED <<files, handles, gone>>
         ELSE /\ NoRows
              /\ handles' = [handles EXCEPT ![h] =
                    [@ EXCEPT !.lock = IF handles[h].lock = "none" THEN "reserved" ELSE handles[h].lock,
                              !.mine = new]]
              /\ UNCHANGED <<files, gone>>
    ELSE IF ~MayCommit(h)
         THEN NoRows /\ UNCHANGED <<files, handles, gone>>
         ELSE /\ NoRows /\ UNCHANGED handles
              /\ files' = [files EXCEPT ![handles[h].file] = new]
              /\ gone' = gone \cup ({<<r.k, r.b>> : r \in ToSet(files[handles[h].file].rows)}
                                      \ {<<r.k, r.b>> : r \in ToSet(new.rows)})

Usable(h) == Listed(h) /\ handles[h].live
Refused == NoRows /\ UNCHANGED <<files, handles, gone>>

Create(h) ==
    /\ Usable(h) /\ ~Sees(h).made
    /\ Writes(h, [made |-> TRUE, rows |-> <<>>])
    /\ UNCHANGED <<stmts, seed, cursors, batches>>

\* The rows that conditions leave.
Rest(rows, cond) ==
    LET rest[i \in 0 .. Len(rows)] ==
            IF i = 0 THEN <<>>
            ELSE IF Selects(cond, rows[i].k, rows[i].v) THEN rest[i - 1]
            ELSE Append(rest[i - 1], rows[i])
    IN  rest[Len(rows)]

Delete(h, cond) ==
    /\ Usable(h)
    /\ IF ~Sees(h).made \/ ~Accepts(cond) THEN Refused
       ELSE Writes(h, [Sees(h) EXCEPT !.rows = Rest(@, cond)])
    /\ UNCHANGED <<stmts, seed, cursors, batches>>

Update(h, cond) ==
    /\ Usable(h)
    /\ IF ~Sees(h).made \/ ~Accepts(cond) THEN Refused
       ELSE Writes(h, [Sees(h) EXCEPT !.rows =
                [i \in DOMAIN @ |-> IF Selects(cond, @[i].k, @[i].v) THEN [@[i] EXCEPT !.v = 1] ELSE @[i]]])
    /\ UNCHANGED <<stmts, seed, cursors, batches>>

Done(h, keys, ok) ==
    /\ batches' = Append(batches, [file |-> handles[h].file, keys |-> keys, done |-> ok])
    /\ NoRows

\* Wrong: without BEGIN every row is committed as it comes.
InsertRows(h, keys) ==
    LET new == Added(Sees(h), keys)
        all == Len(new.rows) = Len(Sees(h).rows) + Len(keys)
    IN  IF ~Sees(h).made \/ ~MayCommit(h)
        THEN Done(h, keys, FALSE) /\ UNCHANGED <<files, handles>>
        ELSE Done(h, keys, all) /\ files' = [files EXCEPT ![handles[h].file] = new]
             /\ UNCHANGED handles

\* "BEGIN TRANSACTION; INSERT ...; COMMIT TRANSACTION;": what follows a
\* statement that fails is not run, so the transaction is left open.
InsertBatch(h, keys) ==
    LET new == Added(Sees(h), keys)
        all == Len(new.rows) = Len(Sees(h).rows) + Len(keys)
        Left(lock) ==
            handles' = [handles EXCEPT ![h] = [@ EXCEPT !.txn = TRUE, !.lock = lock, !.mine = new]]
    IN  IF handles[h].txn
        THEN Done(h, keys, FALSE) /\ UNCHANGED <<files, handles>>
        ELSE IF ~Sees(h).made \/ ~MayWrite(h)
        THEN Done(h, keys, FALSE) /\ Left("none") /\ UNCHANGED files
        ELSE IF ~all
        THEN Done(h, keys, FALSE) /\ Left("reserved") /\ UNCHANGED files
        ELSE IF ~MayCommit(h)
        THEN Done(h, keys, FALSE) /\ Left("pending") /\ UNCHANGED files
        ELSE Done(h, keys, TRUE) /\ files' = [files EXCEPT ![handles[h].file] = new]
             /\ UNCHANGED handles

Insert(h, keys) ==
    /\ Usable(h) /\ Len(batches) < MaxBatches
    /\ InsertBatch(h, keys)
    /\ UNCHANGED <<stmts, seed, cursors, gone>>

-----------------------------------------------------------------------------
\* Wrong: every statement gets the same name.
SameName == 1
NextName == seed + 1

Statement(h, ask) ==
    [name |-> NextName, owner |-> h, ask |-> ask, active |-> FALSE, rest |-> <<>>]
Cursor(h, ask) == [handle |-> h, name |-> NextName, ask |-> ask]

\* find prepares a statement; query does the same with SQL of the script's own.
Find(h, ask) ==
    /\ Usable(h) /\ seed < MaxCursors
    /\ IF ~Sees(h).made \/ ~Prepares(ask)
       THEN NoRows /\ UNCHANGED <<stmts, seed, cursors>>
       ELSE /\ stmts' = Append(stmts, Statement(h, ask))
            /\ seed' = seed + 1
            /\ cursors' = cursors \cup {Cursor(h, ask)}
            /\ NoRows
    /\ UNCHANGED <<files, handles, batches, gone>>

\* find-and-fetch leaves its statement behind, with a cursor to read it again.
FindAndFetch(h, ask) ==
    /\ Usable(h) /\ seed < MaxCursors
    /\ IF ~Sees(h).made \/ ~Prepares(ask)
       THEN NoRows /\ UNCHANGED <<stmts, seed, cursors>>
       ELSE /\ stmts' = Append(stmts, Statement(h, ask))
            /\ seed' = seed + 1
            /\ cursors' = cursors \cup {Cursor(h, ask)}
            /\ answer' = IF MayRead(h)
                         THEN [cursor |-> Cursor(h, ask), whole |-> TRUE,
                               rows |-> Result(Sees(h).rows, ask)]
                         ELSE NoAnswer
    /\ UNCHANGED <<files, handles, batches, gone>>

\* A statement at rest starts over; the one that ends is at rest again.
Step(i, c, again) ==
    LET s == stmts[i]
        starts == again \/ ~s.active
        left == IF starts THEN Result(Sees(s.owner).rows, s.ask) ELSE s.rest
        failed == starts /\ (~Sees(s.owner).made \/ ~MayRead(s.owner))
        Rests == [stmts EXCEPT ![i] = [@ EXCEPT !.active = FALSE, !.rest = <<>>]]
    IN  IF failed THEN stmts' = Rests /\ NoRows
        ELSE IF left = <<>> THEN stmts' = Rests /\ NoRows
        ELSE /\ stmts' = [stmts EXCEPT ![i] = [@ EXCEPT !.active = TRUE, !.rest = Tail(left)]]
             /\ answer' = [cursor |-> c, whole |-> FALSE, rows |-> <<Head(left)>>]

\* fetch: with a second argument the statement is reset first.  The handle
\* only has to be open; the statement is the first of that name.
Fetch(c, again) ==
    /\ c \in cursors
    /\ LET Named == {i \in DOMAIN stmts : stmts[i].name = c.name}
       IN  IF ~Listed(c.handle) THEN NoRows /\ UNCHANGED stmts
           ELSE IF Named = {} THEN NoRows /\ UNCHANGED stmts
           ELSE Step(Min(Named), c, again)
    /\ UNCHANGED <<files, handles, seed, cursors, batches, gone>>

\* A value bound to a parameter the statement has not: reset, then an error.
FetchUnknown(c) ==
    /\ c \in cursors
    /\ LET Named == {i \in DOMAIN stmts : stmts[i].name = c.name}
       IN  stmts' = IF ~Listed(c.handle) \/ Named = {} THEN stmts
                    ELSE [stmts EXCEPT ![Min(Named)] = [@ EXCEPT !.active = FALSE, !.rest = <<>>]]
    /\ NoRows
    /\ UNCHANGED <<files, handles, seed, cursors, batches, gone>>

\* Only the first statement of the handle is finalized.
FinalizeFirst(h) ==
    LET mine == {i \in DOMAIN stmts : stmts[i].owner = h}
    IN  IF mine = {} THEN stmts ELSE RemoveAt(stmts, Min(mine))

\* close: with a statement left SQLite keeps the connection and what it locks.
Close(h) ==
    /\ Usable(h)
    /\ stmts' = FinalizeFirst(h)
    /\ LET kept == \E s \in ToSet(stmts') : s.owner = h
       IN  handles' = [handles EXCEPT ![h] =
                IF kept THEN [@ EXCEPT !.listed = FALSE]
                ELSE [@ EXCEPT !.listed = FALSE, !.live = FALSE, !.lock = "none", !.txn = FALSE]]
    /\ NoRows
    /\ UNCHANGED <<files, seed, cursors, batches, gone>>

Next ==
    \/ \E f \in Databases, ok \in BOOLEAN : Open(f, ok)
    \/ \E h \in DOMAIN handles : Create(h)
    \/ \E h \in DOMAIN handles, c \in Conds : Delete(h, c)
    \/ \E h \in DOMAIN handles, c \in Conds : Update(h, c)
    \/ \E h \in DOMAIN handles, keys \in Batches : Insert(h, keys)
    \/ \E h \in DOMAIN handles, ask \in Asks : Find(h, ask)
    \/ \E h \in DOMAIN handles, ask \in Asks : FindAndFetch(h, ask)
    \/ \E c \in cursors, again \in BOOLEAN : Fetch(c, again)
    \/ \E c \in cursors : FetchUnknown(c)
    \/ \E h \in DOMAIN handles : Close(h)

Spec == Init /\ [][Next]_vars

-----------------------------------------------------------------------------
(* What the functions promise.                                             *)

\* A row that fetch or find-and-fetch returns comes from the database of the
\* handle the cursor was made with, is one its own find asked for, and was
\* inserted by a call; whatever other cursors are read in between
\* (extDbFetch, db_sqlite_stmt_find, db_sqlite_build_where).
RowsAskedFor ==
    \A i \in DOMAIN answer.rows :
        LET r == answer.rows[i]
            c == answer.cursor
        IN  /\ batches[r.b].file = handles[c.handle].file
            /\ Plain(c.ask.cond) => Meant(c.ask.cond, r.k, r.v)

\* find-and-fetch returns every row asked for: without a limit none of the
\* rows that satisfy the conditions is missing (db_sqlite_find_fetch).
AllRowsFound ==
    LET c == answer.cursor
    IN  answer.whole /\ Plain(c.ask.cond) /\ c.ask.limit = 0 =>
            \A r \in ToSet(Sees(c.handle).rows) :
                Meant(c.ask.cond, r.k, r.v) => r \in ToSet(answer.rows)

\* What a find returns is what it asked for, no more and no less.
RowsAsAsked == RowsAskedFor /\ AllRowsFound

\* An insert is whole or not at all: of a batch reported as failed no row is
\* ever committed, and a batch reported as inserted stays until a committed
\* delete (db_sqlite_build_insert, extDbOperate).
BatchesWhole ==
    \A b \in DOMAIN batches :
        LET In == {r.k : r \in {x \in ToSet(files[batches[b].file].rows) : x.b = b}}
        IN  IF batches[b].done
            THEN In = {k \in ToSet(batches[b].keys) : <<k, b>> \notin gone}
            ELSE In = {}

\* Closing a handle frees its statements and the connection with its locks
\* (doc/extensions.rst, db:close).
CloseFrees ==
    \A h \in DOMAIN handles : ~Listed(h) => ~handles[h].live /\ \A i \in DOMAIN stmts : stmts[i].owner # h
=============================================================================
