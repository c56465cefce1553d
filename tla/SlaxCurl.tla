------------------------------ MODULE SlaxCurl ------------------------------
(* The curl: extension functions (src/extensions/curl/ext_curl.c): handles *)
(* with options, transfers with options of their own, what libcurl is told *)
(* for one, and the results that are made of what comes back.  libcurl and *)
(* the servers are external: a transfer sends what the easy handle holds   *)
(* and brings header lines and chunks of data, or fails.                   *)
EXTENDS Integers, Sequences, SequencesExt, FiniteSetsExt

CONSTANTS SetArgs,      \* arguments of curl:set: sequences of arguments
          PerformArgs,  \* arguments of curl:perform and curl:single
          Replies,      \* [ok, heads, chunks, pairs, form]
          MaxHandles,   \* bound: opens
          MaxCalls      \* bound: sets and transfers

VARIABLES handles,  \* extCurlSessions, by number: [opts, freed, code, easy]
          seed,     \* handles named so far, minus those of curl:single
          calls,    \* sets and transfers so far
          told,     \* history: handle -> arguments of its curl:sets
          last      \* history: the last transfer

vars == <<handles, seed, calls, told, last>>

-----------------------------------------------------------------------------
(* Options (curl_opts_t).  An argument is the sequence of its elements, a  *)
(* node before its children; a string argument is one element url.  A      *)
(* list holds data in order; the value of contents is None unless the      *)
(* element has exactly one child.                                          *)

None == "none"
Strings == {"url", "method", "username", "password", "content-type", "contents", "format",
            "server", "local", "from", "subject", "errors", "timeout", "connect-timeout"}
Flags == {"upload", "fail-on-error", "verbose", "insecure", "secure"}
Lists == {"to", "cc", "header", "param"}

NoOptions ==
    [string |-> [k \in Strings |-> None], flags |-> {}, list |-> [k \in Lists |-> <<>>]]

MustEscape == {"&", "=", " "}
Escaped(value) ==
    FlattenSeq([i \in 1 .. Len(value) |->
        IF value[i] \in MustEscape THEN <<"%", value[i]>> ELSE <<value[i]>>])

ParseNode(opts, elem) ==
    LET k == elem.key
    IN  IF k \in Strings THEN [opts EXCEPT !.string[k] = elem.value]
        ELSE IF k \in Flags THEN [opts EXCEPT !.flags = @ \cup {k}]
        ELSE IF k = "param" THEN [opts EXCEPT !.list[k] = Append(@, Escaped(elem.value))]
        ELSE IF k \in Lists THEN [opts EXCEPT !.list[k] = Append(@, elem.value)]
        ELSE opts

ParseArg(opts, arg) ==
    LET parsed[i \in 0 .. Len(arg)] ==
            IF i = 0 THEN opts ELSE ParseNode(parsed[i - 1], arg[i])
    IN parsed[Len(arg)]

\* The last argument is parsed first, the elements of each in order.
OptionsParse(opts, args) ==
    LET parsed[i \in 0 .. Len(args)] ==
            IF i = 0 THEN opts ELSE ParseArg(parsed[i - 1], args[Len(args) + 1 - i])
    IN parsed[Len(args)]

FirstOf(list) == IF list = <<>> THEN <<>> ELSE <<Head(list)>>

\* slaxDataListCopy moves the first node of a list into the copy, instead of
\* its duplicate, and so ends its loop.
OptionsCopy(from) == [from EXCEPT !.list = [k \in Lists |-> FirstOf(from.list[k])]]

\* What the list of the handle holds while its first node is also the first of
\* the copy: what was added to the copy comes after it.
Own(opts, copy) == [k \in Lists |-> IF opts.list[k] = <<>> THEN <<>> ELSE copy.list[k]]

\* Releasing the copy frees the nodes it shares with the handle.
OptionsRelease(opts) == {k \in Lists : opts.list[k] # <<>>}

-----------------------------------------------------------------------------
(* What libcurl's easy handle is told: options stick to it until a reset.  *)

Unset ==
    [verbs |-> {}, set |-> {}, url |-> <<>>, headers |-> <<>>, from |-> None, rcpt |-> <<>>,
     body |-> <<>>]
EasyReset(easy) == Unset

Methods == {"delete", "email", "get", "head", "post", "put", "upload"}
\* A HEAD is a GET without the body; an unknown method is a GET.
Verbs(o) ==
    LET m == o.string["method"]
    IN  (IF m \in Methods THEN {m} ELSE {}) \cup (IF m \in Methods \ {"head"} THEN {} ELSE {"get"})

Common(easy, o) ==
    [easy EXCEPT
        !.verbs = @ \cup Verbs(o),
        !.set = @ \cup {<<k, o.string[k]>> : k \in {c \in {"username", "password", "timeout",
                                                      "connect-timeout"} : o.string[c] # None}}
                  \cup {<<f, "on">> : f \in o.flags \cap {"fail-on-error", "verbose", "insecure"}}]

\* Addresses are kept with their final NUL: of a list, the first one shows.
BuildEmail(o) ==
    <<o.string["from"], FirstOf(o.list["to"]), FirstOf(o.list["cc"]),
      o.string["subject"], o.string["contents"]>>

DoEmail(easy, o) ==
    [easy EXCEPT
        !.url = <<IF "secure" \in o.flags THEN "smtps" ELSE "smtp", o.string["server"],
                  o.string["local"]>>,
        !.from = o.string["from"],
        !.rcpt = o.list["to"] \o o.list["cc"],
        !.body = <<"read", BuildEmail(o)>>]

BuildHeaders(own, o) ==
    <<"Expect:">>
    \o (IF o.string["content-type"] = None THEN <<>> ELSE <<o.string["content-type"]>>)
    \o own["header"] \o o.list["header"]

BuildParamData(own, o) == own["param"] \o o.list["param"]

\* The fields of a post or put are its contents, or its parameters if there
\* are any; an upload reads from a variable whose block has ended.
Body(verbs, o, params, stale) ==
    IF verbs \cap {"post", "put"} # {}
    THEN IF params = <<>> THEN <<"fields", o.string["contents"]>> ELSE <<"params", params>>
    ELSE IF "upload" \in verbs /\ o.string["contents"] # None
    THEN <<"read", IF stale THEN "stale" ELSE o.string["contents"]>>
    ELSE <<>>

Transfer(easy, own, o, stale) ==
    LET params == BuildParamData(own, o)
    IN  [easy EXCEPT
            !.set = @ \cup (IF "secure" \in o.flags THEN {<<"secure", "on">>} ELSE {}),
            !.url = IF easy.verbs \cap {"get", "delete"} # {} /\ params # <<>>
                    THEN <<o.string["url"], params>> ELSE <<o.string["url"]>>,
            !.headers = BuildHeaders(own, o),
            !.body = Body(easy.verbs, o, params, stale)]

IsEmail(o) == "email" \in Verbs(o)
\* Without a URL nothing is sent, which counts as success.
MissingUrl(o) == ~IsEmail(o) /\ o.string["url"] = None
\* What an upload reads is a variable of a block that has ended.
Uploads(o) == "upload" \in Verbs(o) /\ o.string["contents"] # None
\* An email without a sender or a subject reads through a NULL pointer.
Defined(o) == IsEmail(o) => o.string["from"] # None /\ o.string["subject"] # None

DoPerform(easy, own, o, stale) ==
    LET common == Common(EasyReset(easy), o)
    IN  IF IsEmail(o) THEN DoEmail(common, o) ELSE Transfer(common, own, o, stale)

-----------------------------------------------------------------------------
(* The results (extCurlBuildResults).                                      *)

Silence == [ok |-> TRUE, heads |-> <<>>, chunks |-> <<>>, pairs |-> <<>>, form |-> None]

\* The data of all callbacks, in one string.
BuildData(chunks) == FlattenSeq(chunks)

\* Of name=value and a separator, from the front until there is no "=".
Pairs(data, sep) ==
    LET from[i \in 1 .. Len(data) + 1] ==
            LET eq == {j \in i .. Len(data) : data[j] = "="}
                e == Min(eq)
                z == Min({j \in e .. Len(data) : data[j] = sep} \cup {Len(data) + 1})
            IN  IF eq = {} THEN <<>>
                ELSE <<<<SubSeq(data, i, e - 1), SubSeq(data, e + 1, z - 1)>>>>
                     \o (IF z > Len(data) THEN <<>> ELSE from[z + 1])
    IN  from[1]

BuildDataParsed(format, data) ==
    CASE format = "name" -> Pairs(data, "line")
      [] format = "url-encoded" -> Pairs(data, "amp")
      [] format \in {"xml", "html"} -> <<data>>
      [] OTHER -> <<>>

\* The first line is the status or nothing; the rest are fields or nothing.
BuildReplyHeaders(heads) ==
    IF heads = <<>> THEN <<>> ELSE SelectSeq(Tail(heads), LAMBDA l : l.kind = "field")
Code(code, reply) ==
    IF reply.ok /\ reply.heads # <<>> /\ Head(reply.heads).kind = "status"
    THEN Head(reply.heads).code ELSE code

BuildResults(o, reply, code) ==
    LET data == BuildData(reply.chunks)
    IN  [url |-> o.string["url"], success |-> reply.ok,
         fields |-> IF reply.ok THEN BuildReplyHeaders(reply.heads) ELSE <<>>,
         raw |-> IF reply.ok THEN data ELSE <<>>,
         parsed |-> IF reply.ok /\ data # <<>> /\ code < 300
                    THEN BuildDataParsed(o.string["format"], data) ELSE <<>>]

\* Arguments and their elements come in some order.  Of a reply whose form says
\* what its data is, it begins with a status, and pairs are the data unless the
\* status is an error.
ASSUME CurlAssumption ==
    /\ \A args \in SetArgs \cup PerformArgs :
          /\ args \in Seq(ToSet(args))
          /\ \A arg \in ToSet(args) : arg \in Seq(ToSet(arg))
    /\ \A reply \in Replies :
          reply.ok /\ reply.form # None =>
              /\ reply.heads # <<>> /\ Head(reply.heads).kind = "status"
              /\ Head(reply.heads).code < 300 =>
                  /\ BuildData(reply.chunks) # <<>>
                  /\ reply.pairs = BuildDataParsed(reply.form, BuildData(reply.chunks))

-----------------------------------------------------------------------------
NewHandle == [opts |-> NoOptions, freed |-> {}, code |-> 0, easy |-> Unset]

NoTransfer ==
    [telling |-> <<>>, request |-> Unset, reply |-> Silence,
     result |-> BuildResults(NoOptions, Silence, 0)]

Init ==
    /\ handles = <<>> /\ seed = 0 /\ calls = 0 /\ told = <<>>
    /\ last = NoTransfer

\* extCurlHandleFind; what a handle whose lists are freed holds is unknown.
Live(h) == h \in DOMAIN handles /\ handles[h].freed = {}

Open ==
    /\ seed < MaxHandles
    /\ seed' = seed + 1
    /\ handles' = [h \in DOMAIN handles \cup {seed'} |->
                     IF h = seed' THEN NewHandle ELSE handles[h]]
    /\ told' = [h \in DOMAIN handles' |-> IF h = seed' THEN <<>> ELSE told[h]]
    /\ UNCHANGED <<calls, last>>

Close(h) ==
    /\ Live(h)
    /\ handles' = [g \in DOMAIN handles \ {h} |-> handles[g]]
    /\ told' = [g \in DOMAIN handles' |-> told[g]]
    /\ UNCHANGED <<seed, calls, last>>

\* curl:set, curl:perform or curl:close of a handle that is not there.
Unknown(h) ==
    /\ h \in 1 .. seed \ DOMAIN handles
    /\ UNCHANGED vars

Set(h, args) ==
    /\ Live(h) /\ calls < MaxCalls
    /\ handles' = [handles EXCEPT ![h].opts = OptionsParse(@, args)]
    /\ told' = [told EXCEPT ![h] = Append(@, args)]
    /\ calls' = calls + 1
    /\ UNCHANGED <<seed, last>>

\* What libcurl sends of the options, what comes back, what is reported.
Answered(telling, code, easy, o, reply) ==
    /\ MissingUrl(o) => reply = Silence
    /\ last' = [telling |-> telling, reply |-> reply,
                request |-> IF MissingUrl(o) THEN EasyReset(easy) ELSE easy,
                result |-> BuildResults(o, reply, Code(code, reply))]
    /\ calls' = calls + 1

\* Wrong: the options of the call are kept in the handle.
PerformKeeping(h, args, reply, stale) ==
    LET p == handles[h]
        o == OptionsParse(OptionsCopy(p.opts), args)
        easy == DoPerform(p.easy, Own(p.opts, o), o, stale)
    IN  /\ Live(h) /\ calls < MaxCalls /\ Defined(o) /\ (stale => Uploads(o))
        /\ Answered(Append(told[h], args), p.code, easy, o, reply)
        /\ handles' = [handles EXCEPT ![h] = [p EXCEPT !.code = Code(@, reply), !.opts = o]]
        /\ UNCHANGED <<seed, told>>

\* curl:perform: the call's options go to a copy, which is released.  Without
\* a URL the easy handle is not reset on the way out.
Perform(h, args, reply, stale) ==
    LET p == handles[h]
        o == OptionsParse(OptionsCopy(p.opts), args)
        easy == DoPerform(p.easy, Own(p.opts, o), o, stale)
    IN  /\ Live(h) /\ calls < MaxCalls /\ Defined(o) /\ (stale => Uploads(o))
        /\ Answered(Append(told[h], args), p.code, easy, o, reply)
        /\ handles' = [handles EXCEPT ![h] =
               [p EXCEPT !.code = Code(@, reply), !.freed = OptionsRelease(p.opts),
                         !.easy = IF MissingUrl(o) THEN Common(EasyReset(@), o) ELSE EasyReset(@)]]
        /\ UNCHANGED <<seed, told>>

\* curl:single: a handle for one transfer, whose options are the call's.
Single(args, reply, stale) ==
    LET o == OptionsParse(NoOptions, args)
    IN  /\ calls < MaxCalls /\ Defined(o) /\ (stale => Uploads(o))
        /\ Answered(<<args>>, 0, DoPerform(Unset, NoOptions.list, o, stale), o, reply)
        /\ UNCHANGED <<handles, seed, told>>

Next ==
    \/ Open
    \/ \E h \in 1 .. MaxHandles :
        \/ Close(h)
        \/ Unknown(h)
        \/ \E args \in SetArgs : Set(h, args)
    \/ \E args \in PerformArgs, reply \in Replies \cup {Silence}, stale \in BOOLEAN :
        \/ \E h \in 1 .. MaxHandles : Perform(h, args, reply, stale)
        \/ Single(args, reply, stale)

Spec == Init /\ [][Next]_vars

-----------------------------------------------------------------------------
(* What the documentation promises of a transfer.                          *)

\* Where an option is given: in which call, argument and element.
Places(telling) ==
    UNION {UNION {{<<c, a, e>> : e \in 1 .. Len(telling[c][a])} : a \in 1 .. Len(telling[c])} :
              c \in 1 .. Len(telling)}
ElementAt(telling, p) == telling[p[1]][p[2]][p[3]]
GivenIn(telling, key) == {p \in Places(telling) : ElementAt(telling, p).key = key}
ValuesIn(telling, key) == {ElementAt(telling, p).value : p \in GivenIn(telling, key)}

\* The call's options go before those of the handle, a later curl:set before
\* an earlier one, the first argument before the others.
Before(p, q) ==
    \/ p[1] > q[1]
    \/ p[1] = q[1] /\ p[2] < q[2]
    \/ p[1] = q[1] /\ p[2] = q[2] /\ p[3] >= q[3]
AskedIn(telling, key) ==
    LET given == GivenIn(telling, key)
    IN IF given = {} THEN None
       ELSE ElementAt(telling, CHOOSE p \in given : \A q \in given : Before(p, q)).value

Given(key) == GivenIn(last.telling, key)
Values(key) == ValuesIn(last.telling, key)
Asked(key) == AskedIn(last.telling, key)

Mail == Asked("method") = "email"
NoUrl == ~Mail /\ Asked("url") = None

\* Every header of the handle and of the call is sent (doc/extensions.rst:500:
\* options of the handle need not be repeated).
HeadersSent ==
    last # NoTransfer /\ ~Mail /\ ~NoUrl =>
        Values("header") \subseteq Range(last.request.headers)

\* "A missing URL is fatal" (the comment in extCurlDoPerform): a transfer
\* without one does not succeed.
MissingUrlFails == last # NoTransfer /\ NoUrl => ~last.result.success

\* "The <contents> element gives the contents to be transfered"
\* (doc/extensions.rst:133): a post or a put transfers them.
ContentsSent ==
    /\ last # NoTransfer /\ ~NoUrl
    /\ Asked("method") \in {"post", "put"} /\ Asked("contents") # None
    => last.request.body = <<"fields", Asked("contents")>>

\* "The <upload> element indicates this is a file upload request"
\* (doc/extensions.rst:385): without a method of its own it is one.
UploadsAskedFor ==
    /\ last # NoTransfer /\ ~NoUrl
    /\ Asked("method") = None /\ Given("upload") # {}
    => "upload" \in last.request.verbs

\* A transfer uses the options of its handle and of its call and no others,
\* whatever the transfers before it were given; the mail goes to everybody;
\* a post or a put sends its contents, or its parameters, and a get has its
\* parameters in the URL; what is reported is what this server sent, as a
\* whole, whatever the chunks it came in (extCurlDoPerform, extCurlBuildResults).
\*
\* Nothing is stated where the code departs from its documentation: without a
\* URL (MissingUrlFails), of the body of a post or put that has contents and
\* parameters (ContentsSent), of the upload flag (UploadsAskedFor).  The data an
\* upload reads and the parsed data of a reply without a status are left out too.
TransfersAsAsked ==
    LET r == last.request
        res == last.result
        posts == Asked("method") \in {"post", "put"}
        sent == {Escaped(v) : v \in Values("param")}
    IN  last # NoTransfer /\ ~NoUrl =>
            /\ r.set = {<<k, Asked(k)>> : k \in {c \in {"username", "password", "timeout",
                                                       "connect-timeout"} : Asked(c) # None}}
                       \cup {<<f, "on">> : f \in {g \in Flags \ {"upload"} :
                                              Given(g) # {} /\ (g = "secure" => ~Mail)}}
            /\ Mail => /\ Range(r.rcpt) = Values("to") \cup Values("cc")
                       /\ r.from = Asked("from") /\ r.url[2] = Asked("server")
                       /\ r.headers = <<>>
            /\ ~Mail => /\ r.url[1] = Asked("url") /\ r.from = None
                        /\ Range(r.headers) = {"Expect:"} \cup Values("header")
                                              \cup ({Asked("content-type")} \ {None})
            /\ posts /\ Given("param") = {} => r.body = <<"fields", Asked("contents")>>
            /\ posts /\ Given("param") # {} /\ Asked("contents") = None =>
                 r.body[1] = "params" /\ Range(r.body[2]) = sent
            /\ Given("param") # {} /\ Asked("method") = None => Range(r.url[2]) = sent
            /\ res.success = last.reply.ok
            /\ res.success => res.raw = FlattenSeq(last.reply.chunks)
            /\ res.success /\ last.reply.form # None /\ last.reply.form = Asked("format") =>
                 res.parsed = (IF Head(last.reply.heads).code < 300
                               THEN last.reply.pairs ELSE <<>>)
=============================================================================
