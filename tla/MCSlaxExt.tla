----------------------------- MODULE MCSlaxExt -----------------------------
(***************************************************************************)
(* The functions of the bit:, the db: and the curl: extension, one of them *)
(* in each behaviour.                                                      *)
(***************************************************************************)
EXTENDS SlaxExt

VARIABLES
    what,   \* the part of this behaviour
    acc, was, fn, arg

-----------------------------------------------------------------------------
(* Two handles on two database files; a batch that goes in and one whose   *)
(* second row is refused.                                                  *)

Is(col, val) == [op |-> "is", col |-> col, val |-> val, args |-> <<>>]
All(args) == [op |-> "and", col |-> "", val |-> 0, args |-> args]
Either(args) == [op |-> "or", col |-> "", val |-> 0, args |-> args]
AndOr == <<Either(<<All(<<Is("k", 1), Is("v", 0)>>), Is("k", 2)>>)>>
OrInAnd == <<All(<<Is("v", 0), Either(<<Is("k", 1), Is("k", 2)>>)>>)>>
MCAsks == {[cond |-> AndOr, sort |-> "desc", limit |-> 0, skip |-> 0],
           [cond |-> OrInAnd, sort |-> "asc", limit |-> 1, skip |-> 1]}
MCConds == {AndOr}
MCBatches == {<<2, 1>>, <<2, 2>>}

Sql == INSTANCE SlaxDbWhere
MCAccepts(cond) == Sql!TakesClause(cond)
MCSelects(cond, k, v) == Sql!ClauseSelects(cond, k, v)
MCPlain(cond) == Sql!Unambiguous(cond)
MCMeant(cond, k, v) == Sql!CondMeant(cond, k, v)

-----------------------------------------------------------------------------
(* Bit strings shorter than, as long as and longer than a word, and        *)
(* numbers on both sides of its ends.                                      *)

Args == UNION {[1 .. n -> 0 .. 1] : n \in 1 .. 2} \cup {<<1, 0, 1>>, <<1, 0, 1, 1, 0>>}
Counts == {0, 1, 2, 4, 5}
Bits == INSTANCE SlaxBit WITH Word <- 4, MaxBits <- 5

-----------------------------------------------------------------------------
(* Options given to a handle, to a call and to both, in one argument and   *)
(* in two; what comes back is in one chunk, in two, without data, or not   *)
(* at all.                                                                 *)

Opt(key, value) == [key |-> key, value |-> value]
Url(u) == <<Opt("url", u)>>
MCCurlSets ==
    {<<Url("u1"), <<Opt("method", "post"), Opt("username", "n1")>>>>,
     <<<<Opt("username", "n2"), Opt("url", "u2"), Opt("verbose", ""), Opt("timeout", "5"),
         Opt("format", "url-encoded")>>, <<Opt("username", "n3")>>>>}
MCCurlHeaders == {<<Url("u1"), <<Opt("header", "h1"), Opt("header", "h2")>>>>}
MCCurlCalls ==
    {<<>>, <<<<Opt("url", "u3"), Opt("upload", "")>>>>,
     <<<<Opt("header", "h3"), Opt("param", <<"x", "&">>), Opt("content-type", "t"),
         Opt("other", "")>>, <<Opt("url", "u4"), Opt("method", "no such"), Opt("secure", "")>>>>,
     <<<<Opt("method", "email"), Opt("from", "me"), Opt("subject", "s"), Opt("server", "m"),
         Opt("to", "a"), Opt("to", "b"), Opt("cc", "c"), Opt("secure", "")>>>>,
     <<<<Opt("method", "put"), Opt("contents", "c"), Opt("header", "h4"), Opt("header", "h5"),
         Opt("fail-on-error", "")>>, <<Opt("param", <<"y">>), Opt("method", "get")>>>>,
     <<<<Opt("method", "upload"), Opt("contents", "c"), Opt("format", "name")>>>>,
     <<<<Opt("method", "head"), Opt("format", "xml")>>>>,
     <<<<Opt("url", "u5"), Opt("method", "put"), Opt("contents", "d")>>>>,
     <<<<Opt("url", "u6"), Opt("method", "post"), Opt("param", <<"z", "=">>)>>>>}

Reply(code, chunks, pairs, form) ==
    [ok |-> TRUE, chunks |-> chunks, pairs |-> pairs, form |-> form,
     heads |-> <<[kind |-> "status", code |-> code], [kind |-> "field", code |-> 0],
                 [kind |-> "blank", code |-> 0]>>]
AB == <<<<"a">>, <<"b", "=">>>>
MCCurlReplies ==
    {Reply(200, <<<<"a">>, <<"=", "b", "=", "amp", "c">>, <<"=">>>>, <<AB, <<<<"c">>, <<>>>>>>,
           "url-encoded"),
     Reply(200, <<<<"a", "=", "b", "=", "line">>>>, <<AB>>, "name"),
     Reply(404, <<<<"a", "=", "b">>>>, <<>>, "url-encoded"),
     [Reply(200, <<<<"a">>>>, <<>>, "none") EXCEPT !.ok = FALSE]}
-----------------------------------------------------------------------------
bitVars == <<acc, was, fn, arg>>

\* The functions that are not used stay in one of their initial states.
MCInit ==
    /\ what \in {"bit", "db", "curl"}
    /\ Init /\ Bits!Init /\ Db!Init
    /\ what # "bit" => acc = Bits!Number(0)

MCNext ==
    /\ \/ what = "bit" /\ Bits!Next /\ UNCHANGED <<vars, dbVars>>
       \/ what = "db" /\ Db!Next /\ UNCHANGED <<vars, bitVars>>
       \/ what = "curl" /\ Next /\ UNCHANGED <<bitVars, dbVars>>
    /\ UNCHANGED what

MCSpec == MCInit /\ [][MCNext]_<<what, vars, bitVars, dbVars>>

BitFunctions == what = "bit" => Bits!BitFunctions
=============================================================================
