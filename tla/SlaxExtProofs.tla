---------------------------- MODULE SlaxExtProofs ----------------------------
(***************************************************************************)
(* Proofs about the curl: extension, for any options, arguments, replies   *)
(* and number of handles and transfers, and about the db: extension, for   *)
(* any databases, conditions, batches and number of handles and cursors.   *)
(***************************************************************************)
EXTENDS SlaxExt, ProofFacts, FiniteSetTheorems, SequenceTheorems

-----------------------------------------------------------------------------
(* Options *)

\* Options have a value for each name, and sequences for lists.
Shaped(o) ==
    /\ o = [string |-> o.string, flags |-> o.flags, list |-> o.list]
    /\ o.string = [k \in Strings |-> o.string[k]]
    /\ o.list = [k \in Lists |-> o.list[k]]
    /\ \A k \in Lists : IsSequence(o.list[k])

\* What of a value goes into a list.
Sent(key, value) == IF key = "param" THEN Escaped(value) ELSE value

(* The options are those given at the places of P: of a string the one     *)
(* that goes before the others, every flag, and of a list all of them.     *)
Matches(o, telling, P) ==
    LET Of(key) == {p \in P : ElementAt(telling, p).key = key}
    IN  /\ \A k \in Strings :
              \/ Of(k) = {} /\ o.string[k] = None
              \/ \E p \in Of(k) : /\ \A q \in Of(k) : Before(p, q)
                                  /\ o.string[k] = ElementAt(telling, p).value
        /\ o.flags = {f \in Flags : Of(f) # {}}
        /\ \A k \in Lists : ToSet(o.list[k]) = {Sent(k, ElementAt(telling, p).value) : p \in Of(k)}

\* A key is of one kind.
LEMMA KeysApart ==
    /\ \A k \in Strings : k \notin Flags /\ k \notin Lists
    /\ \A k \in Flags : k \notin Lists
    /\ "param" \in Lists
  BY DEF Strings, Flags, Lists

SetString(o, k, v) == [o EXCEPT !.string[k] = v]
AddFlag(o, k) == [o EXCEPT !.flags = @ \cup {k}]
AddToList(o, k, v) == [o EXCEPT !.list[k] = Append(@, v)]

LEMMA StringParsed ==
    ASSUME NEW o, Shaped(o), NEW k \in Strings, NEW v
    PROVE  LET new == SetString(o, k, v)
           IN  /\ Shaped(new) /\ new.flags = o.flags /\ new.list = o.list
               /\ \A c \in Strings : new.string[c] = IF c = k THEN v ELSE o.string[c]
  <1> DEFINE s == [o.string EXCEPT ![k] = v]
             new == [o EXCEPT !.string = s]
  <1>1. /\ s = [c \in Strings |-> s[c]]
        /\ \A c \in Strings : s[c] = IF c = k THEN v ELSE o.string[c]
    BY DEF Shaped
  <1>2. SetString(o, k, v) = new
    BY Zenon DEF SetString
  <1> HIDE DEF s
  <1>3. new = [string |-> s, flags |-> o.flags, list |-> o.list]
    BY DEF Shaped
  <1> HIDE DEF new
  <1>4. new.string = s /\ new.flags = o.flags /\ new.list = o.list
    BY <1>3
  <1>5. Shaped(new)
    BY <1>1, <1>3, <1>4 DEF Shaped
  <1> QED
    BY <1>1, <1>2, <1>4, <1>5

LEMMA FlagParsed ==
    ASSUME NEW o, Shaped(o), NEW k
    PROVE  LET new == AddFlag(o, k)
           IN  /\ Shaped(new) /\ new.string = o.string /\ new.list = o.list
               /\ new.flags = o.flags \cup {k}
  <1> DEFINE f == o.flags \cup {k}
             new == [o EXCEPT !.flags = f]
  <1>1. AddFlag(o, k) = new
    BY Zenon DEF AddFlag
  <1> HIDE DEF f
  <1>3. new = [string |-> o.string, flags |-> f, list |-> o.list]
    BY DEF Shaped
  <1> HIDE DEF new
  <1>4. new.string = o.string /\ new.flags = f /\ new.list = o.list
    BY <1>3
  <1>5. Shaped(new)
    BY <1>3, <1>4 DEF Shaped
  <1> QED
    BY <1>1, <1>4, <1>5 DEF f

LEMMA ListParsed ==
    ASSUME NEW o, Shaped(o), NEW k \in Lists, NEW v
    PROVE  LET new == AddToList(o, k, v)
           IN  /\ Shaped(new) /\ new.string = o.string /\ new.flags = o.flags
               /\ \A c \in Lists : ToSet(new.list[c]) = ToSet(o.list[c])
                                                        \cup (IF c = k THEN {v} ELSE {})
  <1> DEFINE a == Append(o.list[k], v)
             s == [o.list EXCEPT ![k] = a]
             new == [o EXCEPT !.list = s]
  <1>1. IsSequence(a) /\ ToSet(a) = ToSet(o.list[k]) \cup {v}
    BY AppendIsSequence DEF Shaped
  <1>2. AddToList(o, k, v) = new
    BY Zenon DEF AddToList
  <1> HIDE DEF a
  <1>3. /\ s = [c \in Lists |-> s[c]]
        /\ \A c \in Lists : s[c] = IF c = k THEN a ELSE o.list[c]
    BY DEF Shaped
  <1> HIDE DEF s
  <1>4. new = [string |-> o.string, flags |-> o.flags, list |-> s]
    BY DEF Shaped
  <1> HIDE DEF new
  <1>5. new.string = o.string /\ new.flags = o.flags /\ new.list = s
    BY <1>4
  <1>6. Shaped(new)
    BY <1>1, <1>3, <1>4, <1>5 DEF Shaped
  <1>7. \A c \in Lists : ToSet(new.list[c]) = ToSet(o.list[c]) \cup (IF c = k THEN {v} ELSE {})
    BY <1>1, <1>3, <1>5
  <1> QED
    BY <1>2, <1>5, <1>6, <1>7

\* One more element, given where it goes before those that were parsed.
LEMMA ElementParsed ==
    ASSUME NEW o, Shaped(o), NEW telling, NEW P, Matches(o, telling, P),
           NEW p, Before(p, p), \A q \in P : Before(p, q),
           NEW new, new = ParseNode(o, ElementAt(telling, p))
    PROVE  Shaped(new) /\ Matches(new, telling, P \cup {p})
  <1> DEFINE elem == ElementAt(telling, p)
             key == elem.key
             v == elem.value
             Of(k) == {q \in P : ElementAt(telling, q).key = k}
             Now(k) == {q \in P \cup {p} : ElementAt(telling, q).key = k}
  <1>0. \A k : Now(k) = IF k = key THEN Of(k) \cup {p} ELSE Of(k)
    OBVIOUS
  <1>1. /\ \A k \in Strings :
              \/ Of(k) = {} /\ o.string[k] = None
              \/ \E q \in Of(k) : /\ \A r \in Of(k) : Before(q, r)
                                  /\ o.string[k] = ElementAt(telling, q).value
        /\ o.flags = {f \in Flags : Of(f) # {}}
        /\ \A k \in Lists : ToSet(o.list[k]) = {Sent(k, ElementAt(telling, q).value) : q \in Of(k)}
    BY DEF Matches
  <1>2. /\ \A q \in Of(key) \cup {p} : Before(p, q)
        /\ p \in Now(key)
    OBVIOUS
  <1> DEFINE StringsMatch == \A k \in Strings :
                \/ Now(k) = {} /\ new.string[k] = None
                \/ \E q \in Now(k) : /\ \A r \in Now(k) : Before(q, r)
                                     /\ new.string[k] = ElementAt(telling, q).value
             FlagsMatch == new.flags = {f \in Flags : Now(f) # {}}
             ListsMatch == \A k \in Lists :
                ToSet(new.list[k]) = {Sent(k, ElementAt(telling, q).value) : q \in Now(k)}
  <1>3. ASSUME new.string = o.string, key \notin Strings PROVE StringsMatch
    <2> TAKE k \in Strings
    <2>1. Now(k) = Of(k)
      BY <1>0, <1>3
    <2> HIDE DEF Now, Of
    <2> QED
      BY <1>1, <1>3, <2>1
  <1>4. ASSUME new.flags = o.flags, key \notin Flags PROVE FlagsMatch
    <2>1. \A f \in Flags : Now(f) = Of(f)
      BY <1>0, <1>4
    <2> HIDE DEF Now, Of
    <2> QED
      BY <1>1, <1>4, <2>1
  <1>5. ASSUME new.list = o.list, key \notin Lists PROVE ListsMatch
    <2> TAKE k \in Lists
    <2>1. Now(k) = Of(k)
      BY <1>0, <1>5
    <2> HIDE DEF Now, Of
    <2> QED
      BY <1>1, <1>5, <2>1
  <1>6. ASSUME Shaped(new), StringsMatch, FlagsMatch, ListsMatch
        PROVE  Shaped(new) /\ Matches(new, telling, P \cup {p})
    BY <1>6 DEF Matches
  <1> HIDE DEF Now, Of, StringsMatch, FlagsMatch, ListsMatch
  <1>7. CASE key \in Strings
    <2>1. key \notin Flags /\ key \notin Lists
      BY <1>7, KeysApart
    <2>2. new = SetString(o, key, v)
      BY <1>7, Zenon DEF ParseNode, SetString
    <2>3. /\ Shaped(new) /\ new.flags = o.flags /\ new.list = o.list
          /\ \A c \in Strings : new.string[c] = IF c = key THEN v ELSE o.string[c]
      BY <1>7, <2>2, StringParsed
    <2>4. StringsMatch
      <3>1. ASSUME NEW k \in Strings
            PROVE  \/ Now(k) = {} /\ new.string[k] = None
                   \/ \E q \in Now(k) : /\ \A r \in Now(k) : Before(q, r)
                                        /\ new.string[k] = ElementAt(telling, q).value
        <4>1. CASE k = key
          <5>1. Now(k) = Of(key) \cup {p} /\ new.string[k] = v
            BY <1>0, <2>3, <4>1
          <5> QED
            BY <1>2, <5>1
        <4>2. CASE k # key
          <5>1. Now(k) = Of(k) /\ new.string[k] = o.string[k]
            BY <1>0, <2>3, <4>2
          <5> QED
            BY <1>1, <5>1
        <4> QED
          BY <4>1, <4>2
      <3> QED
        BY <3>1 DEF StringsMatch
    <2> QED
      BY <1>4, <1>5, <1>6, <2>1, <2>3, <2>4
  <1>8. CASE key \in Flags
    <2>1. key \notin Strings /\ key \notin Lists
      BY <1>8, KeysApart
    <2>2. new = AddFlag(o, key)
      BY <1>8, <2>1, Zenon DEF ParseNode, AddFlag
    <2>3. /\ Shaped(new) /\ new.string = o.string /\ new.list = o.list
          /\ new.flags = o.flags \cup {key}
      BY <2>2, FlagParsed
    <2>4. FlagsMatch
      <3>1. \A f \in Flags : f \in new.flags <=> Now(f) # {}
        BY <1>0, <1>1, <1>2, <2>3
      <3>2. new.flags \subseteq Flags
        BY <1>1, <1>8, <2>3
      <3> QED
        BY <3>1, <3>2 DEF FlagsMatch
    <2> QED
      BY <1>3, <1>5, <1>6, <2>1, <2>3, <2>4
  <1>9. CASE key \in Lists
    <2>1. key \notin Strings /\ key \notin Flags
      BY <1>9, KeysApart
    <2>2. new = AddToList(o, key, Sent(key, v))
      BY <1>9, <2>1, Zenon DEF ParseNode, AddToList, Sent
    <2>3. /\ Shaped(new) /\ new.string = o.string /\ new.flags = o.flags
          /\ \A c \in Lists : ToSet(new.list[c]) = ToSet(o.list[c])
                                  \cup (IF c = key THEN {Sent(key, v)} ELSE {})
      <3> DEFINE sent == Sent(key, v)
      <3> HIDE DEF sent, key
      <3>1. new = AddToList(o, key, sent)
        BY <2>2 DEF sent
      <3>2. /\ Shaped(new) /\ new.string = o.string /\ new.flags = o.flags
            /\ \A c \in Lists : ToSet(new.list[c]) = ToSet(o.list[c])
                                    \cup (IF c = key THEN {sent} ELSE {})
        BY <1>9, <3>1, ListParsed
      <3> QED
        BY <3>2 DEF sent
    <2>4. ListsMatch
      <3>1. ASSUME NEW k \in Lists
            PROVE  ToSet(new.list[k]) = {Sent(k, ElementAt(telling, q).value) : q \in Now(k)}
        <4>1. CASE k = key
          <5>1. Now(k) = Of(k) \cup {p}
            BY <1>0, <4>1
          <5>2. ToSet(new.list[k]) = ToSet(o.list[k]) \cup {Sent(k, v)}
            BY <2>3, <4>1
          <5> QED
            BY <1>1, <5>1, <5>2
        <4>2. CASE k # key
          <5>1. Now(k) = Of(k) /\ ToSet(new.list[k]) = ToSet(o.list[k])
            BY <1>0, <2>3, <4>2
          <5> QED
            BY <1>1, <5>1
        <4> QED
          BY <4>1, <4>2
      <3> QED
        BY <3>1 DEF ListsMatch
    <2> QED
      BY <1>3, <1>4, <1>6, <2>1, <2>3, <2>4
  <1>10. CASE key \notin Strings /\ key \notin Flags /\ key \notin Lists
    <2>1. new = o
      BY <1>10, KeysApart, Zenon DEF ParseNode
    <2> QED
      BY <1>3, <1>4, <1>5, <1>6, <1>10, <2>1
  <1> QED
    BY <1>7, <1>8, <1>9, <1>10

ArgPlaces(telling, c, a) == {<<c, a, e>> : e \in 1 .. Len(telling[c][a])}
CallPlaces(telling, c) == UNION {ArgPlaces(telling, c, a) : a \in 1 .. Len(telling[c])}

\* An argument, whose elements go before those of the arguments after it.
LEMMA ArgParsed ==
    ASSUME NEW o, Shaped(o), NEW telling, NEW P, Matches(o, telling, P),
           NEW c \in Int, NEW a \in Int, IsSequence(telling[c][a]),
           \A q \in P : c > q[1] \/ (c = q[1] /\ a < q[2]),
           NEW new, new = ParseArg(o, telling[c][a])
    PROVE  /\ Shaped(new)
           /\ Matches(new, telling, P \cup ArgPlaces(telling, c, a))
  <1> DEFINE arg == telling[c][a]
             n == Len(arg)
             Stepped(e, i) == ParseNode(e, arg[i])
             Made(m, f) == f = [i \in 0 .. m |-> IF i = 0 THEN o ELSE Stepped(f[i - 1], i)]
             parsed == CHOOSE f : Made(n, f)
             There(m) == P \cup {<<c, a, e>> : e \in 1 .. m}
             Kept(e, m) == Shaped(e) /\ Matches(e, telling, There(m))
             Reached == {m \in Nat : \E f : Made(m, f)}
             K == {m \in Nat : m <= n => Kept(parsed[m], m)}
  <1>0. n \in Nat
    BY SequenceFacts
  <1>1. new = parsed[n]
    BY DEF ParseArg
  <1> HIDE DEF n
  <1>2. 0 \in Reached
    <2>1. Made(0, [i \in 0 .. 0 |-> o])
      OBVIOUS
    <2> HIDE DEF Made
    <2> QED
      BY <2>1
  <1>3. ASSUME NEW m \in Nat, m \in Reached PROVE m + 1 \in Reached
    <2>1. PICK f : Made(m, f)
      BY <1>3
    <2> DEFINE g == [i \in 0 .. (m + 1) |-> IF i = 0 THEN o ELSE Stepped(f[i - 1], i)]
    <2> HIDE DEF Stepped
    <2>2. \A i \in 0 .. m : g[i] = f[i]
      BY <2>1
    <2>3. ASSUME NEW i \in 0 .. (m + 1)
          PROVE  g[i] = IF i = 0 THEN o ELSE Stepped(g[i - 1], i)
      <3>1. i # 0 => i - 1 \in 0 .. m
        OBVIOUS
      <3> QED
        BY <2>2, <3>1
    <2>4. g = [i \in 0 .. (m + 1) |-> g[i]]
      OBVIOUS
    <2> HIDE DEF g
    <2>5. Made(m + 1, g)
      BY <2>3, <2>4
    <2> HIDE DEF Made
    <2> QED
      BY <2>5
  <1>4. Made(n, parsed)
    <2> HIDE DEF Reached, Made
    <2>1. n \in Reached
      BY <1>0, <1>2, <1>3, SetInduction
    <2> QED
      BY <2>1 DEF Reached
  <1> HIDE DEF parsed, Stepped
  <1>5. 0 \in K
    <2>1. parsed[0] = o
      BY <1>0, <1>4
    <2>2. There(0) = P
      OBVIOUS
    <2> HIDE DEF There
    <2> QED
      BY <2>1, <2>2
  <1>6. ASSUME NEW m \in Nat, m \in K PROVE m + 1 \in K
    <2> SUFFICES ASSUME m + 1 <= n PROVE Kept(parsed[m + 1], m + 1)
      OBVIOUS
    <2> DEFINE p == <<c, a, m + 1>>
               s == parsed[m]
    <2>1. parsed[m + 1] = Stepped(s, m + 1) /\ Kept(s, m)
      BY <1>0, <1>4, <1>6
    <2>2. ElementAt(telling, p) = arg[m + 1]
      BY DEF ElementAt
    <2>3. There(m + 1) = There(m) \cup {p}
      <3>1. 1 .. (m + 1) = (1 .. m) \cup {m + 1}
        OBVIOUS
      <3> QED
        BY <3>1
    <2>4. Before(p, p)
      BY DEF Before
    <2>5. ASSUME NEW q \in There(m) PROVE Before(p, q)
      <3>1. CASE q \in P
        BY <3>1 DEF Before
      <3>2. CASE q \in {<<c, a, e>> : e \in 1 .. m}
        BY <3>2 DEF Before
      <3> QED
        BY <3>1, <3>2
    <2>6. parsed[m + 1] = ParseNode(s, ElementAt(telling, p))
      BY <2>1, <2>2 DEF Stepped
    <2> HIDE DEF p, s, There
    <2>7. Shaped(parsed[m + 1]) /\ Matches(parsed[m + 1], telling, There(m) \cup {p})
      BY <2>1, <2>4, <2>5, <2>6, ElementParsed
    <2> QED
      BY <2>3, <2>7
  <1> HIDE DEF K
  <1>7. n \in K
    BY <1>0, <1>5, <1>6, SetInduction
  <1>8. Kept(new, n)
    BY <1>0, <1>1, <1>7 DEF K
  <1> QED
    BY <1>8 DEF n, ArgPlaces

\* The arguments of a call, the last one first.
LEMMA ArgsParsed ==
    ASSUME NEW o, Shaped(o), NEW telling, NEW P, Matches(o, telling, P),
           NEW c \in Int, IsSequence(telling[c]),
           \A a \in 1 .. Len(telling[c]) : IsSequence(telling[c][a]),
           \A q \in P : c > q[1],
           NEW new, new = OptionsParse(o, telling[c])
    PROVE  /\ Shaped(new)
           /\ Matches(new, telling, P \cup CallPlaces(telling, c))
  <1> DEFINE args == telling[c]
             n == Len(args)
             Stepped(e, i) == ParseArg(e, args[n + 1 - i])
             Made(m, f) == f = [i \in 0 .. m |-> IF i = 0 THEN o ELSE Stepped(f[i - 1], i)]
             parsed == CHOOSE f : Made(n, f)
             Of(a) == ArgPlaces(telling, c, a)
             There(m) == P \cup UNION {Of(a) : a \in (n + 1 - m) .. n}
             Kept(e, m) == Shaped(e) /\ Matches(e, telling, There(m))
             Reached == {m \in Nat : \E f : Made(m, f)}
             K == {m \in Nat : m <= n => Kept(parsed[m], m)}
  <1>0. n \in Nat
    BY SequenceFacts
  <1>1. new = parsed[n]
    BY DEF OptionsParse
  <1> HIDE DEF n
  <1>2. 0 \in Reached
    <2>1. Made(0, [i \in 0 .. 0 |-> o])
      OBVIOUS
    <2> HIDE DEF Made
    <2> QED
      BY <2>1
  <1>3. ASSUME NEW m \in Nat, m \in Reached PROVE m + 1 \in Reached
    <2>1. PICK f : Made(m, f)
      BY <1>3
    <2> DEFINE g == [i \in 0 .. (m + 1) |-> IF i = 0 THEN o ELSE Stepped(f[i - 1], i)]
    <2> HIDE DEF Stepped
    <2>2. \A i \in 0 .. m : g[i] = f[i]
      BY <2>1
    <2>3. ASSUME NEW i \in 0 .. (m + 1)
          PROVE  g[i] = IF i = 0 THEN o ELSE Stepped(g[i - 1], i)
      <3>1. i # 0 => i - 1 \in 0 .. m
        OBVIOUS
      <3> QED
        BY <2>2, <3>1
    <2>4. g = [i \in 0 .. (m + 1) |-> g[i]]
      OBVIOUS
    <2> HIDE DEF g
    <2>5. Made(m + 1, g)
      BY <2>3, <2>4
    <2> HIDE DEF Made
    <2> QED
      BY <2>5
  <1>4. Made(n, parsed)
    <2> HIDE DEF Reached, Made
    <2>1. n \in Reached
      BY <1>0, <1>2, <1>3, SetInduction
    <2> QED
      BY <2>1 DEF Reached
  <1> HIDE DEF parsed, Stepped
  <1>5. 0 \in K
    <2>1. parsed[0] = o
      BY <1>0, <1>4
    <2>2. There(0) = P
      <3>1. (n + 1 - 0) .. n = {}
        BY <1>0
      <3> HIDE DEF Of
      <3> QED
        BY <3>1
    <2> HIDE DEF There
    <2> QED
      BY <2>1, <2>2
  <1>6. ASSUME NEW m \in Nat, m \in K PROVE m + 1 \in K
    <2> SUFFICES ASSUME m + 1 <= n PROVE Kept(parsed[m + 1], m + 1)
      OBVIOUS
    <2> DEFINE a == n - m
               s == parsed[m]
    <2>1. parsed[m + 1] = Stepped(s, m + 1) /\ Kept(s, m)
      BY <1>0, <1>4, <1>6
    <2>2. a \in 1 .. Len(args) /\ a \in Int /\ IsSequence(telling[c][a])
      BY <1>0 DEF n
    <2>3. There(m + 1) = There(m) \cup Of(a)
      <3>1. (n + 1 - (m + 1)) .. n = ((n + 1 - m) .. n) \cup {a}
        BY <1>0
      <3> HIDE DEF Of, a
      <3> QED
        BY <3>1
    <2>4. \A q \in There(m) : c > q[1] \/ (c = q[1] /\ a < q[2])
      <3> SUFFICES ASSUME NEW b \in (n + 1 - m) .. n, NEW q \in Of(b)
                   PROVE  c = q[1] /\ a < q[2]
        OBVIOUS
      <3>1. PICK e \in 1 .. Len(args[b]) : q = <<c, b, e>>
        BY DEF ArgPlaces
      <3>2. q[1] = c /\ q[2] = b
        BY <3>1
      <3> QED
        BY <1>0, <3>2
    <2>5. parsed[m + 1] = ParseArg(s, telling[c][a])
      <3>1. n + 1 - (m + 1) = a
        BY <1>0
      <3> HIDE DEF a
      <3> QED
        BY <2>1, <3>1 DEF Stepped
    <2> HIDE DEF a, s, There
    <2>7. Shaped(parsed[m + 1]) /\ Matches(parsed[m + 1], telling, There(m) \cup Of(a))
      <3> DEFINE Q == There(m)
                 t == parsed[m + 1]
      <3>1. Shaped(s) /\ Matches(s, telling, Q)
        BY <2>1
      <3> HIDE DEF Q, t
      <3>2. \A q \in Q : c > q[1] \/ (c = q[1] /\ a < q[2])
        BY <2>4 DEF Q
      <3>3. t = ParseArg(s, telling[c][a])
        BY <2>5 DEF t
      <3>4. Shaped(t) /\ Matches(t, telling, Q \cup ArgPlaces(telling, c, a))
        BY <2>2, <3>1, <3>2, <3>3, ArgParsed
      <3> QED
        BY <3>4 DEF Q, t, Of
    <2> QED
      BY <2>3, <2>7
  <1> HIDE DEF K
  <1>7. n \in K
    BY <1>0, <1>5, <1>6, SetInduction
  <1>8. (n + 1 - n) .. n = 1 .. n
    BY <1>0
  <1> HIDE DEF Of
  <1>9. Kept(new, n) /\ There(n) = P \cup UNION {Of(a) : a \in 1 .. n}
    BY <1>0, <1>1, <1>7, <1>8 DEF K
  <1> QED
    BY <1>9 DEF n, Of, CallPlaces

-----------------------------------------------------------------------------
(* What a handle was told *)

\* Calls, their arguments and the elements of those come in some order.
Told(telling) ==
    /\ IsSequence(telling)
    /\ \A c \in 1 .. Len(telling) :
          IsSequence(telling[c]) /\ \A a \in 1 .. Len(telling[c]) : IsSequence(telling[c][a])

\* Places come call by call.
LEMMA PlacesByCall ==
    ASSUME NEW telling
    PROVE  /\ Places(telling) = UNION {CallPlaces(telling, c) : c \in 1 .. Len(telling)}
           /\ \A c \in 1 .. Len(telling) : \A p \in CallPlaces(telling, c) :
                 \E a \in 1 .. Len(telling[c]) : \E e \in 1 .. Len(telling[c][a]) : p = <<c, a, e>>
  <1>1. Places(telling) = UNION {CallPlaces(telling, c) : c \in 1 .. Len(telling)}
    BY DEF Places, CallPlaces, ArgPlaces
  <1>2. \A c \in 1 .. Len(telling) : \A p \in CallPlaces(telling, c) :
           \E a \in 1 .. Len(telling[c]) : \E e \in 1 .. Len(telling[c][a]) : p = <<c, a, e>>
    BY DEF CallPlaces, ArgPlaces
  <1> QED
    BY <1>1, <1>2

OneMore(telling, args, new, c) ==
    /\ Told(new) /\ new[c] = args /\ c \in Int
    /\ Places(new) = Places(telling) \cup CallPlaces(new, c)
    /\ \A p \in Places(telling) : p[1] < c /\ ElementAt(new, p) = ElementAt(telling, p)

\* One more call leaves the places before it, and what is given there.
LEMMA OneMoreCall ==
    ASSUME NEW telling, Told(telling), NEW args, IsSequence(args),
           \A a \in 1 .. Len(args) : IsSequence(args[a]),
           NEW new, new = Append(telling, args), NEW c, c = Len(telling) + 1
    PROVE  OneMore(telling, args, new, c)
  <1>1. /\ IsSequence(new) /\ Len(new) = c /\ new[c] = args
        /\ \A i \in 1 .. Len(telling) : new[i] = telling[i]
    BY AppendIsSequence DEF Told
  <1>2. Len(telling) \in Nat
    BY SequenceFacts DEF Told
  <1>3. 1 .. c = (1 .. Len(telling)) \cup {c}
    BY <1>2
  <1>4. Told(new)
    <2>1. ASSUME NEW i \in 1 .. c
          PROVE  IsSequence(new[i]) /\ \A a \in 1 .. Len(new[i]) : IsSequence(new[i][a])
      <3>1. CASE i = c
        BY <1>1, <3>1
      <3>2. CASE i \in 1 .. Len(telling)
        BY <1>1, <3>2 DEF Told
      <3> QED
        BY <1>3, <3>1, <3>2
    <2> QED
      BY <1>1, <2>1 DEF Told
  <1>5. \A i \in 1 .. Len(telling) : CallPlaces(new, i) = CallPlaces(telling, i)
    BY <1>1 DEF CallPlaces, ArgPlaces
  <1>6. Places(new) = Places(telling) \cup CallPlaces(new, c)
    <2>1. /\ Places(new) = UNION {CallPlaces(new, i) : i \in 1 .. c}
          /\ Places(telling) = UNION {CallPlaces(telling, i) : i \in 1 .. Len(telling)}
      <3>1. Places(new) = UNION {CallPlaces(new, i) : i \in 1 .. Len(new)}
        BY PlacesByCall
      <3>2. Len(new) = c
        BY <1>1
      <3>3. Places(telling) = UNION {CallPlaces(telling, i) : i \in 1 .. Len(telling)}
        BY PlacesByCall
      <3> QED
        BY <3>1, <3>2, <3>3, Zenon
    <2> QED
      BY <1>3, <1>5, <2>1
  <1>7. ASSUME NEW p \in Places(telling)
        PROVE  p[1] < c /\ ElementAt(new, p) = ElementAt(telling, p)
    <2>1. PICK i \in 1 .. Len(telling) : p \in CallPlaces(telling, i)
      BY PlacesByCall
    <2>2. PICK a \in 1 .. Len(telling[i]) : \E e \in 1 .. Len(telling[i][a]) : p = <<i, a, e>>
      BY <2>1, PlacesByCall
    <2>3. p[1] = i /\ new[i] = telling[i]
      BY <1>1, <2>2
    <2> QED
      BY <1>2, <2>3 DEF ElementAt
  <1> QED
    BY <1>1, <1>2, <1>4, <1>6, <1>7 DEF OneMore

\* Matching depends on what is given at the places only.
LEMMA MatchesAlike ==
    ASSUME NEW o, NEW telling, NEW new, NEW P, Matches(o, telling, P),
           \A p \in P : ElementAt(new, p) = ElementAt(telling, p)
    PROVE  Matches(o, new, P)
  <1> DEFINE Of(key) == {p \in P : ElementAt(telling, p).key = key}
             Now(key) == {p \in P : ElementAt(new, p).key = key}
  <1>1. \A key : Now(key) = Of(key)
    OBVIOUS
  <1>2. \A key : \A p \in Of(key) : ElementAt(new, p).value = ElementAt(telling, p).value
    OBVIOUS
  <1>3. /\ \A k \in Strings :
              \/ Of(k) = {} /\ o.string[k] = None
              \/ \E p \in Of(k) : /\ \A q \in Of(k) : Before(p, q)
                                  /\ o.string[k] = ElementAt(telling, p).value
        /\ o.flags = {f \in Flags : Of(f) # {}}
        /\ \A k \in Lists : ToSet(o.list[k]) = {Sent(k, ElementAt(telling, p).value) : p \in Of(k)}
    BY DEF Matches
  <1> HIDE DEF Of
  <1>4. /\ \A k \in Strings :
              \/ Of(k) = {} /\ o.string[k] = None
              \/ \E p \in Of(k) : /\ \A q \in Of(k) : Before(p, q)
                                  /\ o.string[k] = ElementAt(new, p).value
        /\ o.flags = {f \in Flags : Of(f) # {}}
        /\ \A k \in Lists : ToSet(o.list[k]) = {Sent(k, ElementAt(new, p).value) : p \in Of(k)}
    BY <1>2, <1>3
  <1> HIDE DEF Now
  <1>5. /\ \A k \in Strings :
              \/ Now(k) = {} /\ o.string[k] = None
              \/ \E p \in Now(k) : /\ \A q \in Now(k) : Before(p, q)
                                   /\ o.string[k] = ElementAt(new, p).value
        /\ o.flags = {f \in Flags : Now(f) # {}}
        /\ \A k \in Lists : ToSet(o.list[k]) = {Sent(k, ElementAt(new, p).value) : p \in Now(k)}
    BY <1>1, <1>4
  <1> QED
    BY <1>5 DEF Matches, Now

\* Options that match what was told match what one more call tells.
LEMMA CallParsed ==
    ASSUME NEW o, Shaped(o), NEW telling, Told(telling), Matches(o, telling, Places(telling)),
           NEW args, IsSequence(args), \A a \in 1 .. Len(args) : IsSequence(args[a])
    PROVE  LET parsed == OptionsParse(o, args)
               new == Append(telling, args)
           IN  Shaped(parsed) /\ Told(new) /\ Matches(parsed, new, Places(new))
  <1> DEFINE parsed == OptionsParse(o, args)
             new == Append(telling, args)
             c == Len(telling) + 1
             P == Places(telling)
  <1> HIDE DEF parsed, new, c, P
  <1>1. /\ Told(new) /\ new[c] = args /\ c \in Int
        /\ Places(new) = P \cup CallPlaces(new, c)
        /\ \A p \in P : p[1] < c /\ ElementAt(new, p) = ElementAt(telling, p)
    <2>1. new = Append(telling, args) /\ c = Len(telling) + 1
      BY DEF new, c
    <2>2. OneMore(telling, args, new, c)
      BY <2>1, OneMoreCall
    <2> QED
      BY <2>2 DEF P, OneMore
  <1>2. Matches(o, new, P)
    BY <1>1, MatchesAlike DEF P
  <1>3. \A p \in P : c > p[1]
    <2> SUFFICES ASSUME NEW p \in P PROVE c > p[1]
      OBVIOUS
    <2>1. p[1] < c
      BY <1>1
    <2> QED
      BY <2>1
  <1>4. IsSequence(new[c]) /\ \A a \in 1 .. Len(new[c]) : IsSequence(new[c][a])
    BY <1>1
  <1>5. parsed = OptionsParse(o, new[c])
    BY <1>1 DEF parsed
  <1>6. Shaped(parsed) /\ Matches(parsed, new, P \cup CallPlaces(new, c))
    BY <1>1, <1>2, <1>3, <1>4, <1>5, ArgsParsed
  <1> QED
    BY <1>1, <1>6 DEF parsed, new

\* A new handle was told nothing and has no options.
LEMMA NothingTold ==
    /\ Shaped(NoOptions) /\ Told(<< >>) /\ Matches(NoOptions, << >>, Places(<< >>))
    /\ \A k \in Lists : NoOptions.list[k] = << >>
  <1>1. IsSequence(<< >>) /\ Len(<< >>) = 0 /\ ToSet(<< >>) = {} /\ 1 .. 0 = {}
    BY EmptyIsSequence
  <1> DEFINE nil == << >>
  <1> HIDE DEF nil
  <1>2. NoOptions = [string |-> [k \in Strings |-> None], flags |-> {}, list |-> [k \in Lists |-> nil]]
    BY DEF NoOptions, nil
  <1>3. /\ NoOptions.flags = {} /\ \A k \in Strings : NoOptions.string[k] = None
        /\ \A k \in Lists : NoOptions.list[k] = nil
    BY <1>2
  <1>4. Shaped(NoOptions)
    <2>1. IsSequence(nil)
      BY <1>1 DEF nil
    <2> QED
      BY <1>2, <2>1 DEF Shaped
  <1>5. Told(<< >>)
    BY <1>1 DEF Told
  <1>6. Places(<< >>) = {}
    BY <1>1 DEF Places
  <1>7. Matches(NoOptions, nil, {})
    <2>1. ToSet(nil) = {}
      BY <1>1 DEF nil
    <2> QED
      BY <1>3, <2>1 DEF Matches
  <1> QED
    BY <1>3, <1>4, <1>5, <1>6, <1>7 DEF nil

\* Options that match what was told are those that are asked for.
LEMMA AskedFor ==
    ASSUME NEW o, Shaped(o), NEW telling, Matches(o, telling, Places(telling))
    PROVE  /\ \A k \in Strings : o.string[k] = AskedIn(telling, k)
           /\ o.flags = {f \in Flags : GivenIn(telling, f) # {}}
           /\ \A k \in Lists :
                 /\ ToSet(o.list[k]) = {Sent(k, v) : v \in ValuesIn(telling, k)}
                 /\ GivenIn(telling, k) = {} <=> o.list[k] = << >>
  <1> DEFINE Of(key) == {p \in Places(telling) : ElementAt(telling, p).key = key}
  <1>1. \A key : Of(key) = GivenIn(telling, key)
    BY DEF GivenIn
  <1>2. /\ \A k \in Strings :
              \/ Of(k) = {} /\ o.string[k] = None
              \/ \E p \in Of(k) : /\ \A q \in Of(k) : Before(p, q)
                                  /\ o.string[k] = ElementAt(telling, p).value
        /\ o.flags = {f \in Flags : Of(f) # {}}
        /\ \A k \in Lists : ToSet(o.list[k]) = {Sent(k, ElementAt(telling, p).value) : p \in Of(k)}
    BY DEF Matches
  <1>3. ASSUME NEW p \in Places(telling)
        PROVE  p[1] \in Int /\ p[2] \in Int /\ p[3] \in Int /\ p = <<p[1], p[2], p[3]>>
    <2>1. PICK c \in 1 .. Len(telling) : p \in CallPlaces(telling, c)
      BY PlacesByCall
    <2>2. PICK a \in 1 .. Len(telling[c]) : \E e \in 1 .. Len(telling[c][a]) : p = <<c, a, e>>
      BY <2>1, PlacesByCall
    <2> QED
      BY <2>2
  <1>4. ASSUME NEW p \in Places(telling), NEW q \in Places(telling), Before(p, q), Before(q, p)
        PROVE  p = q
    <2>1. p[1] = q[1] /\ p[2] = q[2] /\ p[3] = q[3]
      BY <1>3, <1>4 DEF Before
    <2> QED
      BY <1>3, <2>1
  <1>5. ASSUME NEW k \in Strings PROVE o.string[k] = AskedIn(telling, k)
    <2> DEFINE given == GivenIn(telling, k)
               best == CHOOSE p \in given : \A q \in given : Before(p, q)
    <2>1. given = Of(k) /\ given \subseteq Places(telling)
      BY DEF GivenIn
    <2>2. AskedIn(telling, k) = IF given = {} THEN None ELSE ElementAt(telling, best).value
      BY Zenon DEF AskedIn
    <2>3. \/ given = {} /\ o.string[k] = None
          \/ \E p \in given : /\ \A q \in given : Before(p, q)
                              /\ o.string[k] = ElementAt(telling, p).value
      BY <1>1, <1>2
    <2> HIDE DEF given
    <2>4. ASSUME NEW p \in given, \A q \in given : Before(p, q) PROVE best = p
      <3>1. best \in given /\ \A q \in given : Before(best, q)
        BY <2>4
      <3>2. Before(best, p) /\ Before(p, best)
        BY <2>4, <3>1
      <3> QED
        BY <1>4, <2>1, <3>1, <3>2
    <2> HIDE DEF best
    <2> QED
      BY <2>2, <2>3, <2>4
  <1>6. o.flags = {f \in Flags : GivenIn(telling, f) # {}}
    BY <1>1, <1>2
  <1>7. ASSUME NEW k \in Lists
        PROVE  /\ ToSet(o.list[k]) = {Sent(k, v) : v \in ValuesIn(telling, k)}
               /\ GivenIn(telling, k) = {} <=> o.list[k] = << >>
    <2> DEFINE given == GivenIn(telling, k)
               l == o.list[k]
    <2>1. given = Of(k)
      BY <1>1
    <2> HIDE DEF given
    <2>2. ToSet(l) = {Sent(k, ElementAt(telling, p).value) : p \in given}
      BY <1>2, <2>1
    <2>3. ValuesIn(telling, k) = {ElementAt(telling, p).value : p \in given}
      BY DEF ValuesIn, given
    <2>4. ToSet(l) = {Sent(k, v) : v \in ValuesIn(telling, k)}
      BY <2>2, <2>3
    <2>5. IsSequence(l)
      BY DEF Shaped
    <2> HIDE DEF l
    <2>6. given = {} <=> ToSet(l) = {}
      BY <2>2
    <2>7. ToSet(l) = {} => l = << >>
      <3>1. ToSet(l) = {} => Len(l) = 0
        <4>1. Len(l) \in Nat /\ ToSet(l) = {l[i] : i \in 1 .. Len(l)}
          BY <2>5, SequenceFacts
        <4>2. Len(l) # 0 => 1 \in 1 .. Len(l)
          BY <4>1
        <4> QED
          BY <4>1, <4>2
      <3> QED
        BY <2>5, <3>1, EmptySeq DEF IsSequence
    <2>8. l = << >> => ToSet(l) = {}
      BY EmptyIsSequence
    <2> QED
      BY <2>4, <2>6, <2>7, <2>8 DEF given, l
  <1> QED
    BY <1>5, <1>6, <1>7

\* No call of curl:set gives headers, parameters or recipients.
PlainSets ==
    \A args \in SetArgs : \A arg \in ToSet(args) : \A elem \in ToSet(arg) : elem.key \notin Lists

\* Without lists a copy is the same, nothing is shared and nothing freed.
LEMMA PlainOptions ==
    ASSUME PlainSets, NEW o, Shaped(o), NEW telling, Told(telling), ToSet(telling) \subseteq SetArgs,
           Matches(o, telling, Places(telling))
    PROVE  /\ OptionsCopy(o) = o /\ OptionsRelease(o) = {}
           /\ \A copy : Own(o, copy) = NoOptions.list
  <1>1. ASSUME NEW k \in Lists PROVE GivenIn(telling, k) = {}
    <2> SUFFICES ASSUME NEW p \in Places(telling), ElementAt(telling, p).key = k PROVE FALSE
      BY DEF GivenIn
    <2>1. PICK c \in 1 .. Len(telling) : p \in CallPlaces(telling, c)
      BY PlacesByCall
    <2>2. PICK a \in 1 .. Len(telling[c]) : \E e \in 1 .. Len(telling[c][a]) : p = <<c, a, e>>
      BY <2>1, PlacesByCall
    <2>3. PICK e \in 1 .. Len(telling[c][a]) : p = <<c, a, e>>
      BY <2>2
    <2>4. telling[c] \in ToSet(telling)
      BY SequenceFacts DEF Told
    <2>5. telling[c][a] \in ToSet(telling[c])
      BY SequenceFacts DEF Told
    <2>6. telling[c][a][e] \in ToSet(telling[c][a])
      BY SequenceFacts DEF Told
    <2>7. ElementAt(telling, p) = telling[c][a][e]
      BY <2>3 DEF ElementAt
    <2> QED
      BY <2>4, <2>5, <2>6, <2>7 DEF PlainSets
  <1> DEFINE nil == << >>
  <1>2. \A k \in Lists : o.list[k] = nil
    BY <1>1, AskedFor
  <1>3. FirstOf(nil) = nil
    BY DEF FirstOf
  <1> HIDE DEF nil
  <1>4. o.list = [k \in Lists |-> nil] /\ o = [string |-> o.string, flags |-> o.flags, list |-> o.list]
    BY <1>2 DEF Shaped
  <1>5. [k \in Lists |-> FirstOf(o.list[k])] = [k \in Lists |-> nil]
    BY <1>2, <1>3
  <1>6. OptionsCopy(o) = o
    <2> DEFINE l == [k \in Lists |-> FirstOf(o.list[k])]
    <2>1. OptionsCopy(o) = [o EXCEPT !.list = l]
      BY Zenon DEF OptionsCopy
    <2>2. l = o.list
      BY <1>4, <1>5
    <2> HIDE DEF l
    <2>3. [o EXCEPT !.list = l] = [string |-> o.string, flags |-> o.flags, list |-> l]
      BY <1>4
    <2> QED
      BY <1>4, <2>1, <2>2, <2>3
  <1>7. OptionsRelease(o) = {}
    BY <1>2 DEF OptionsRelease, nil
  <1>8. NoOptions.list = [k \in Lists |-> nil]
    BY DEF NoOptions, nil
  <1>9. \A copy : Own(o, copy) = [k \in Lists |-> nil]
    BY <1>2 DEF Own, nil
  <1> QED
    BY <1>6, <1>7, <1>8, <1>9

-----------------------------------------------------------------------------
(* What is sent for options *)

SetBy(o) ==
    {<<k, o.string[k]>> : k \in {c \in {"username", "password", "timeout",
                                        "connect-timeout"} : o.string[c] # None}}
    \cup {<<f, "on">> : f \in o.flags \cap {"fail-on-error", "verbose", "insecure"}}
SetAfter(o) == SetBy(o) \cup (IF "secure" \in o.flags THEN {<<"secure", "on">>} ELSE {})

Sending(o, stale) == DoPerform(Unset, NoOptions.list, o, stale)

\* What the easy handle held before does not matter: it is reset first.
LEMMA ResetForgets ==
    ASSUME NEW easy, NEW own, own = NoOptions.list, NEW o, NEW stale
    PROVE  DoPerform(easy, own, o, stale) = Sending(o, stale)
  BY DEF DoPerform, Sending, EasyReset

LEMMA CommonIs ==
    ASSUME NEW o
    PROVE  Common(Unset, o) =
              [verbs |-> Verbs(o), set |-> SetBy(o), url |-> << >>, headers |-> << >>,
               from |-> None, rcpt |-> << >>, body |-> << >>]
  <1> DEFINE nil == << >>
             none == {}
             from == None
             u == [verbs |-> none, set |-> none, url |-> nil, headers |-> nil, from |-> from,
                   rcpt |-> nil, body |-> nil]
             v == Verbs(o)
             s == SetBy(o)
  <1>1. Unset = u
    BY DEF Unset
  <1>2. u.verbs \cup v = v /\ u.set \cup s = s
    OBVIOUS
  <1>3. Common(u, o) = [u EXCEPT !.verbs = u.verbs \cup v, !.set = u.set \cup s]
    <2> HIDE DEF u
    <2>1. \A a, b, c : (a \cup b) \cup c = a \cup (b \cup c)
      OBVIOUS
    <2> QED
      BY <2>1, Zenon DEF Common, SetBy
  <1> HIDE DEF s, v, nil, none, from
  <1>4. [u EXCEPT !.verbs = v, !.set = s] =
           [verbs |-> v, set |-> s, url |-> nil, headers |-> nil, from |-> from,
            rcpt |-> nil, body |-> nil]
    <2> DEFINE w == [u EXCEPT !.verbs = v]
    <2>1. u = [verbs |-> none, set |-> none, url |-> nil, headers |-> nil, from |-> from,
               rcpt |-> nil, body |-> nil]
      OBVIOUS
    <2> HIDE DEF u
    <2>2. w = [verbs |-> v, set |-> none, url |-> nil, headers |-> nil, from |-> from,
               rcpt |-> nil, body |-> nil]
      BY <2>1
    <2>3. [u EXCEPT !.verbs = v, !.set = s] = [w EXCEPT !.set = s]
      BY Zenon
    <2> HIDE DEF w
    <2> QED
      BY <2>2, <2>3
  <1> QED
    BY <1>1, <1>2, <1>3, <1>4 DEF nil, v, s, from

LEMMA MailIs ==
    ASSUME NEW o, NEW stale, IsEmail(o), NEW r, r = Sending(o, stale)
    PROVE  /\ r.set = SetBy(o) /\ r.from = o.string["from"] /\ r.headers = << >>
           /\ r.url[2] = o.string["server"] /\ r.rcpt = o.list["to"] \o o.list["cc"]
  <1> DEFINE nil == << >>
             c == Common(Unset, o)
             v == Verbs(o)
             s == SetBy(o)
             url == <<IF "secure" \in o.flags THEN "smtps" ELSE "smtp", o.string["server"],
                      o.string["local"]>>
             from == o.string["from"]
             rcpt == o.list["to"] \o o.list["cc"]
             body == <<"read", BuildEmail(o)>>
             old == None
  <1>1. r = DoEmail(c, o)
    BY DEF Sending, DoPerform, EasyReset
  <1>2. DoEmail(c, o) = [c EXCEPT !.url = url, !.from = from, !.rcpt = rcpt, !.body = body]
    BY Zenon DEF DoEmail
  <1>3. c = [verbs |-> v, set |-> s, url |-> nil, headers |-> nil, from |-> old,
             rcpt |-> nil, body |-> nil]
    BY CommonIs
  <1>4. url[2] = o.string["server"]
    OBVIOUS
  <1> HIDE DEF c, v, s, url, from, rcpt, body, nil, old
  <1>5. r.set = s /\ r.from = from /\ r.headers = nil /\ r.url = url /\ r.rcpt = rcpt
    BY <1>1, <1>2, <1>3
  <1> QED
    BY <1>4, <1>5 DEF s, from, rcpt, nil

LEMMA TransferIs ==
    ASSUME NEW o, NEW stale, ~IsEmail(o), NEW r, r = Sending(o, stale)
    PROVE  LET own == NoOptions.list
               params == BuildParamData(own, o)
           IN  /\ r.set = SetAfter(o) /\ r.from = None /\ r.headers = BuildHeaders(own, o)
               /\ r.url = IF Verbs(o) \cap {"get", "delete"} # {} /\ params # << >>
                          THEN <<o.string["url"], params>> ELSE <<o.string["url"]>>
               /\ r.body = Body(Verbs(o), o, params, stale)
  <1> DEFINE nil == << >>
             own == NoOptions.list
             params == BuildParamData(own, o)
             c == Common(Unset, o)
             v == Verbs(o)
             s == SetBy(o)
             more == IF "secure" \in o.flags THEN {<<"secure", "on">>} ELSE {}
             set == c.set \cup more
             url == IF c.verbs \cap {"get", "delete"} # {} /\ params # << >>
                    THEN <<o.string["url"], params>> ELSE <<o.string["url"]>>
             headers == BuildHeaders(own, o)
             body == Body(c.verbs, o, params, stale)
             old == None
  <1>1. r = Transfer(c, own, o, stale)
    BY DEF Sending, DoPerform, EasyReset
  <1>2. Transfer(c, own, o, stale) =
           [c EXCEPT !.set = set, !.url = url, !.headers = headers, !.body = body]
    <2> HIDE DEF c
    <2> QED
      BY Zenon DEF Transfer
  <1>3. c = [verbs |-> v, set |-> s, url |-> nil, headers |-> nil, from |-> old,
             rcpt |-> nil, body |-> nil]
    BY CommonIs
  <1>4. c.verbs = v /\ c.set = s
    <2> HIDE DEF c, v, s, nil, old
    <2> QED
      BY <1>3
  <1> HIDE DEF c, v, s, url, set, headers, body, nil, old
  <1>5. r.set = set /\ r.from = old /\ r.headers = headers /\ r.url = url /\ r.body = body
    BY <1>1, <1>2, <1>3
  <1>6. set = SetAfter(o)
    BY <1>4 DEF set, s, SetAfter
  <1>7. url = IF v \cap {"get", "delete"} # {} /\ params # << >>
              THEN <<o.string["url"], params>> ELSE <<o.string["url"]>>
    BY <1>4 DEF url
  <1>8. body = Body(v, o, params, stale)
    BY <1>4 DEF body
  <1> QED
    BY <1>5, <1>6, <1>7, <1>8 DEF old, headers, v

LEMMA ResultIs ==
    ASSUME NEW o, NEW reply, NEW code, NEW res, res = BuildResults(o, reply, code)
    PROVE  LET data == BuildData(reply.chunks)
           IN  /\ res.success = reply.ok
               /\ res.raw = IF reply.ok THEN data ELSE << >>
               /\ res.parsed = IF reply.ok /\ data # << >> /\ code < 300
                               THEN BuildDataParsed(o.string["format"], data) ELSE << >>
  <1> DEFINE data == BuildData(reply.chunks)
             url == o.string["url"]
             ok == reply.ok
             fields == IF reply.ok THEN BuildReplyHeaders(reply.heads) ELSE << >>
             raw == IF reply.ok THEN data ELSE << >>
             parsed == IF reply.ok /\ data # << >> /\ code < 300
                       THEN BuildDataParsed(o.string["format"], data) ELSE << >>
  <1>1. res = [url |-> url, success |-> ok, fields |-> fields, raw |-> raw, parsed |-> parsed]
    BY Zenon DEF BuildResults
  <1> HIDE DEF url, ok, fields, raw, parsed
  <1>2. res.success = ok /\ res.raw = raw /\ res.parsed = parsed
    BY <1>1
  <1> QED
    BY <1>2 DEF ok, raw, parsed

\* What a transfer sent and reported are of options that match what was told.
AnsweredBy(l, o, stale, code) ==
    /\ Shaped(o) /\ Matches(o, l.telling, Places(l.telling))
    /\ l.reply \in Replies \cup {Silence}
    /\ ~MissingUrl(o) => l.request = Sending(o, stale)
    /\ l.result = BuildResults(o, l.reply, Code(code, l.reply))

SettingsAsAsked(o) ==
    (IF IsEmail(o) THEN SetBy(o) ELSE SetAfter(o)) =
        {<<k, Asked(k)>> : k \in {c \in {"username", "password", "timeout",
                                         "connect-timeout"} : Asked(c) # None}}
        \cup {<<f, "on">> : f \in {g \in Flags \ {"upload"} :
                                   Given(g) # {} /\ (g = "secure" => ~Mail)}}

\* Of the options that libcurl knows by name, those asked for are set.
LEMMA SettingsAsked ==
    ASSUME NEW o, \A k \in Strings : o.string[k] = Asked(k),
           o.flags = {f \in Flags : Given(f) # {}}, Mail <=> IsEmail(o)
    PROVE  SettingsAsAsked(o)
  <1> DEFINE Keys == {"username", "password", "timeout", "connect-timeout"}
             Three == {"fail-on-error", "verbose", "insecure"}
             Told1 == {<<k, o.string[k]>> : k \in {c \in Keys : o.string[c] # None}}
             Asked1 == {<<k, Asked(k)>> : k \in {c \in Keys : Asked(c) # None}}
             On(S) == {<<f, "on">> : f \in S}
             S1 == o.flags \cap Three
             S2 == {g \in Flags \ {"upload"} : Given(g) # {} /\ (g = "secure" => ~Mail)}
             S3 == IF ~IsEmail(o) /\ "secure" \in o.flags THEN {"secure"} ELSE {}
  <1>1. Told1 = Asked1
    <2>1. \A k \in Keys : o.string[k] = Asked(k)
      BY DEF Strings
    <2> HIDE DEF Keys
    <2> QED
      BY <2>1
  <1>2. S1 \cup S3 = S2
    <2>1. \A f : f \in o.flags <=> f \in Flags /\ Given(f) # {}
      OBVIOUS
    <2>2. Flags \ {"upload"} = Three \cup {"secure"} /\ "secure" \notin Three
      BY DEF Flags
    <2>3. Three \cup {"secure"} \subseteq Flags
      BY DEF Flags
    <2> HIDE DEF Three
    <2>4. \A f : f \in S2 <=> f \in S1 \cup S3
      BY <2>1, <2>2, <2>3
    <2> HIDE DEF S1, S2, S3
    <2> QED
      BY <2>4
  <1>3. \A A, B : On(A \cup B) = On(A) \cup On(B)
    OBVIOUS
  <1>4. (IF IsEmail(o) THEN SetBy(o) ELSE SetAfter(o)) = Told1 \cup (On(S1) \cup On(S3))
    <2>1. SetBy(o) = Told1 \cup On(S1)
      BY DEF SetBy
    <2>2. CASE IsEmail(o)
      <3>1. S3 = {} /\ On({}) = {}
        BY <2>2
      <3> HIDE DEF Told1, On, S3
      <3> QED
        BY <2>1, <2>2, <3>1
    <2>3. CASE ~IsEmail(o) /\ "secure" \in o.flags
      <3>1. S3 = {"secure"} /\ On({"secure"}) = {<<"secure", "on">>}
        BY <2>3
      <3>2. SetAfter(o) = SetBy(o) \cup {<<"secure", "on">>}
        BY <2>3 DEF SetAfter
      <3> HIDE DEF Told1, On, S3
      <3> QED
        BY <2>1, <2>3, <3>1, <3>2
    <2>4. CASE ~IsEmail(o) /\ "secure" \notin o.flags
      <3>1. S3 = {} /\ On({}) = {}
        BY <2>4
      <3>2. SetAfter(o) = SetBy(o)
        BY <2>4 DEF SetAfter
      <3> HIDE DEF Told1, On, S3
      <3> QED
        BY <2>1, <2>4, <3>1, <3>2
    <2> QED
      BY <2>2, <2>3, <2>4
  <1> HIDE DEF Told1, S1, S3
  <1>5. (IF IsEmail(o) THEN SetBy(o) ELSE SetAfter(o)) = Asked1 \cup On(S2)
    <2> HIDE DEF Asked1, S2, On
    <2> QED
      BY <1>1, <1>2, <1>3, <1>4
  <1> QED
    BY <1>5 DEF SettingsAsAsked

\* What is in a list that is sent.
LEMMA RangeOf ==
    /\ \A s : Range(s) = ToSet(s)
    /\ \A s, t : IsSequence(s) /\ IsSequence(t) =>
          IsSequence(s \o t) /\ ToSet(s \o t) = ToSet(s) \cup ToSet(t)
  <1>1. ASSUME NEW s PROVE Range(s) = ToSet(s)
    BY DEF Range, ToSet
  <1> QED
    BY <1>1, ConcatIsSequence

\* The first half of the property: what is sent.
LEMMA SentAsAsked ==
    ASSUME NEW o, NEW stale, NEW code, AnsweredBy(last, o, stale, code), ~NoUrl
    PROVE  LET r == last.request
               posts == Asked("method") \in {"post", "put"}
               sent == {Escaped(v) : v \in Values("param")}
           IN  /\ r.set = {<<k, Asked(k)>> : k \in {c \in {"username", "password", "timeout",
                                                           "connect-timeout"} : Asked(c) # None}}
                          \cup {<<f, "on">> : f \in {g \in Flags \ {"upload"} :
                                                 Given(g) # {} /\ (g = "secure" => ~Mail)}}
               /\ Mail => /\ Range(r.rcpt) = Values("to") \cup Values("cc")
                          /\ r.from = Asked("from") /\ r.url[2] = Asked("server")
                          /\ r.headers = << >>
               /\ ~Mail => /\ r.url[1] = Asked("url") /\ r.from = None
                           /\ Range(r.headers) = {"Expect:"} \cup Values("header")
                                                 \cup ({Asked("content-type")} \ {None})
               /\ posts /\ Given("param") = {} => r.body = <<"fields", Asked("contents")>>
               /\ posts /\ Given("param") # {} /\ Asked("contents") = None =>
                    r.body[1] = "params" /\ Range(r.body[2]) = sent
               /\ Given("param") # {} /\ Asked("method") = None => Range(r.url[2]) = sent
  <1> DEFINE r == last.request
             m == Asked("method")
             own == NoOptions.list
             params == BuildParamData(own, o)
  <1>1. /\ Shaped(o) /\ Matches(o, last.telling, Places(last.telling))
        /\ ~MissingUrl(o) => r = Sending(o, stale)
    BY DEF AnsweredBy
  <1>2. /\ \A k \in Strings : o.string[k] = Asked(k)
        /\ o.flags = {f \in Flags : Given(f) # {}}
        /\ \A k \in Lists : /\ ToSet(o.list[k]) = {Sent(k, v) : v \in Values(k)}
                            /\ Given(k) = {} <=> o.list[k] = << >>
    BY <1>1, AskedFor DEF Asked, Given, Values
  <1>3. /\ o.string["method"] = m /\ o.string["url"] = Asked("url")
        /\ o.string["from"] = Asked("from") /\ o.string["server"] = Asked("server")
        /\ o.string["content-type"] = Asked("content-type")
        /\ o.string["contents"] = Asked("contents")
    BY <1>2 DEF Strings
  <1>4. /\ ToSet(o.list["header"]) = Values("header") /\ ToSet(o.list["to"]) = Values("to")
        /\ ToSet(o.list["cc"]) = Values("cc")
        /\ ToSet(o.list["param"]) = {Escaped(v) : v \in Values("param")}
        /\ Given("param") = {} <=> o.list["param"] = << >>
    <2>1. "header" \in Lists /\ "to" \in Lists /\ "cc" \in Lists /\ "param" \in Lists
      BY DEF Lists
    <2>2. \A v : Sent("header", v) = v /\ Sent("to", v) = v /\ Sent("cc", v) = v
                 /\ Sent("param", v) = Escaped(v)
      BY DEF Sent
    <2>3. ASSUME NEW k \in Lists, \A v : Sent(k, v) = v PROVE ToSet(o.list[k]) = Values(k)
      <3> DEFINE V == Values(k)
                 s(v) == Sent(k, v)
      <3>1. ToSet(o.list[k]) = {s(v) : v \in V}
        BY <1>2
      <3>2. \A v : s(v) = v
        BY <2>3
      <3> HIDE DEF V, s
      <3>3. {s(v) : v \in V} = V
        BY <3>2
      <3> QED
        BY <3>1, <3>3 DEF V
    <2>4. ToSet(o.list["param"]) = {Sent("param", v) : v \in Values("param")}
      BY <1>2, <2>1
    <2>5. ToSet(o.list["param"]) = {Escaped(v) : v \in Values("param")}
      BY <2>2, <2>4
    <2>6. Given("param") = {} <=> o.list["param"] = << >>
      BY <1>2, <2>1
    <2>7. ToSet(o.list["header"]) = Values("header")
      BY <2>1, <2>2, <2>3
    <2>8. ToSet(o.list["to"]) = Values("to")
      BY <2>1, <2>2, <2>3
    <2>9. ToSet(o.list["cc"]) = Values("cc")
      BY <2>1, <2>2, <2>3
    <2> QED
      BY <2>5, <2>6, <2>7, <2>8, <2>9
  <1>5. \A k \in Lists : IsSequence(o.list[k]) /\ own[k] = << >>
    BY <1>1, NothingTold DEF Shaped
  <1>6. Mail <=> IsEmail(o)
    BY <1>3 DEF Mail, IsEmail, Verbs, Methods
  <1>7. r = Sending(o, stale)
    BY <1>1, <1>3, <1>6 DEF NoUrl, MissingUrl
  <1>8. SettingsAsAsked(o)
    BY <1>2, <1>6, SettingsAsked
  <1>9. params = o.list["param"]
    <2>1. own["param"] = << >> /\ IsSequence(o.list["param"])
      BY <1>5 DEF Lists
    <2> DEFINE l == o.list["param"]
    <2>2. l \in Seq(ToSet(l))
      BY <2>1 DEF IsSequence
    <2> HIDE DEF l
    <2>3. << >> \o l = l
      BY <2>2
    <2> QED
      BY <2>1, <2>3 DEF BuildParamData, l
  <1> HIDE DEF r, m, own
  <1>10. CASE Mail
    <2>1. /\ r.set = SetBy(o) /\ r.from = o.string["from"] /\ r.headers = << >>
          /\ r.url[2] = o.string["server"] /\ r.rcpt = o.list["to"] \o o.list["cc"]
      BY <1>6, <1>7, <1>10, MailIs
    <2>2. Range(r.rcpt) = Values("to") \cup Values("cc")
      <3>1. "to" \in Lists /\ "cc" \in Lists
        BY DEF Lists
      <3> QED
        BY <1>4, <1>5, <2>1, <3>1, RangeOf
    <2>3. m = "email" /\ None # "email"
      BY <1>10 DEF Mail, m, None
    <2> QED
      BY <1>3, <1>6, <1>8, <1>10, <2>1, <2>2, <2>3 DEF SettingsAsAsked, r, m, None
  <1>11. CASE ~Mail
    <2>1. /\ r.set = SetAfter(o) /\ r.from = None /\ r.headers = BuildHeaders(own, o)
          /\ r.url = IF Verbs(o) \cap {"get", "delete"} # {} /\ params # << >>
                     THEN <<o.string["url"], params>> ELSE <<o.string["url"]>>
          /\ r.body = Body(Verbs(o), o, params, stale)
      BY <1>6, <1>7, <1>11, TransferIs DEF own
    <2>2. r.set = {<<k, Asked(k)>> : k \in {c \in {"username", "password", "timeout",
                                                   "connect-timeout"} : Asked(c) # None}}
                  \cup {<<f, "on">> : f \in {g \in Flags \ {"upload"} :
                                         Given(g) # {} /\ (g = "secure" => ~Mail)}}
      BY <1>6, <1>8, <1>11, <2>1 DEF SettingsAsAsked
    <2>3. r.url[1] = Asked("url")
      BY <1>3, <2>1
    <2>4. Range(r.headers) = {"Expect:"} \cup Values("header")
                             \cup ({Asked("content-type")} \ {None})
      <3> DEFINE a == <<"Expect:">>
                 b == IF o.string["content-type"] = None THEN << >> ELSE <<o.string["content-type"]>>
                 nil == << >>
                 l == o.list["header"]
      <3>1. r.headers = ((a \o b) \o nil) \o l
        <4>1. own["header"] = nil
          BY <1>5 DEF Lists
        <4> QED
          BY <2>1, <4>1 DEF BuildHeaders
      <3>2. IsSequence(a) /\ ToSet(a) = {"Expect:"}
        <4>1. <<"Expect:">> \in Seq({"Expect:"}) /\ Len(<<"Expect:">>) = 1
          OBVIOUS
        <4>2. IsSequence(a) /\ ToSet(a) = {a[i] : i \in 1 .. 1}
          BY <4>1, SequenceOf
        <4>3. 1 .. 1 = {1}
          OBVIOUS
        <4> QED
          BY <4>2, <4>3
      <3>3. IsSequence(nil) /\ ToSet(nil) = {}
        BY EmptyIsSequence
      <3>4. IsSequence(b) /\ ToSet(b) = {Asked("content-type")} \ {None}
        <4> DEFINE t == o.string["content-type"]
        <4>1. t = Asked("content-type")
          BY <1>3
        <4> HIDE DEF t
        <4>2. IsSequence(<<t>>) /\ ToSet(<<t>>) = {t}
          <5>1. <<t>> \in Seq({t}) /\ Len(<<t>>) = 1
            OBVIOUS
          <5>2. IsSequence(<<t>>) /\ ToSet(<<t>>) = {<<t>>[i] : i \in 1 .. 1}
            BY <5>1, SequenceOf
          <5>3. 1 .. 1 = {1}
            OBVIOUS
          <5> QED
            BY <5>2, <5>3
        <4>3. CASE t = None
          <5>1. b = nil
            BY <4>3 DEF t
          <5> QED
            BY <3>3, <4>1, <4>3, <5>1
        <4>4. CASE t # None
          <5>1. b = <<t>>
            BY <4>4 DEF t
          <5> QED
            BY <4>1, <4>2, <4>4, <5>1
        <4> QED
          BY <4>3, <4>4
      <3>5. IsSequence(l) /\ ToSet(l) = Values("header")
        BY <1>4, <1>5 DEF Lists
      <3> HIDE DEF a, b, nil, l
      <3>6. IsSequence(a \o b) /\ ToSet(a \o b) = {"Expect:"} \cup ({Asked("content-type")} \ {None})
        BY <3>2, <3>4, RangeOf
      <3>7. /\ IsSequence((a \o b) \o nil)
            /\ ToSet((a \o b) \o nil) = {"Expect:"} \cup ({Asked("content-type")} \ {None})
        BY <3>3, <3>6, RangeOf
      <3>8. ToSet(((a \o b) \o nil) \o l) =
               ({"Expect:"} \cup ({Asked("content-type")} \ {None})) \cup Values("header")
        BY <3>5, <3>7, RangeOf
      <3> QED
        BY <3>1, <3>8, RangeOf
    <2>5. m \in {"post", "put"} =>
             r.body = IF params = << >> THEN <<"fields", Asked("contents")>> ELSE <<"params", params>>
      <3> SUFFICES ASSUME m \in {"post", "put"}
                   PROVE  r.body = IF params = << >> THEN <<"fields", Asked("contents")>>
                                   ELSE <<"params", params>>
        OBVIOUS
      <3>1. Verbs(o) \cap {"post", "put"} # {}
        BY <1>3 DEF Verbs, Methods
      <3> HIDE DEF params
      <3> QED
        BY <1>3, <2>1, <3>1 DEF Body
    <2>6. m = None => Verbs(o) \cap {"get", "delete"} # {}
      BY <1>3 DEF Verbs, Methods, None
    <2> DEFINE posts == m \in {"post", "put"}
               sent == {Escaped(v) : v \in Values("param")}
    <2>7. None \notin {"post", "put"}
      BY DEF None
    <2>8. params = << >> <=> Given("param") = {}
      BY <1>4, <1>9
    <2>9. Range(params) = sent
      BY <1>4, <1>9, RangeOf
    <2> HIDE DEF params
    <2> HIDE DEF sent
    <2>10. posts /\ Given("param") = {} => r.body = <<"fields", Asked("contents")>>
      BY <2>5, <2>8
    <2>11. posts /\ Given("param") # {} => r.body[1] = "params" /\ Range(r.body[2]) = sent
      <3> SUFFICES ASSUME posts, Given("param") # {}
                   PROVE  r.body[1] = "params" /\ r.body[2] = params
        BY <2>9
      <3>1. r.body = <<"params", params>>
        BY <2>5, <2>8
      <3> QED
        BY <3>1
    <2>12. Given("param") # {} /\ m = None => Range(r.url[2]) = sent
      <3> SUFFICES ASSUME Given("param") # {}, m = None
                   PROVE  r.url[2] = params
        BY <2>9
      <3>1. r.url = <<o.string["url"], params>>
        BY <2>1, <2>6, <2>8
      <3> QED
        BY <3>1
    <2> QED
      BY <1>11, <2>1, <2>2, <2>3, <2>4, <2>10, <2>11, <2>12 DEF r, m, sent
  <1> QED
    BY <1>10, <1>11

\* The second half: what is reported.
LEMMA ReportedAsSent ==
    ASSUME NEW o, NEW stale, NEW code, AnsweredBy(last, o, stale, code)
    PROVE  LET res == last.result
           IN  /\ res.success = last.reply.ok
               /\ res.success => res.raw = FlattenSeq(last.reply.chunks)
               /\ res.success /\ last.reply.form # None /\ last.reply.form = Asked("format") =>
                    res.parsed = (IF Head(last.reply.heads).code < 300
                                  THEN last.reply.pairs ELSE << >>)
  <1> DEFINE reply == last.reply
             res == last.result
             data == BuildData(reply.chunks)
             c == Code(code, reply)
  <1>1. /\ Shaped(o) /\ Matches(o, last.telling, Places(last.telling))
        /\ reply \in Replies \cup {Silence} /\ res = BuildResults(o, reply, c)
    BY DEF AnsweredBy
  <1>2. o.string["format"] = Asked("format")
    BY <1>1, AskedFor DEF Asked, Strings
  <1> HIDE DEF reply, res, c
  <1>3. /\ res.success = reply.ok
        /\ res.raw = IF reply.ok THEN data ELSE << >>
        /\ res.parsed = IF reply.ok /\ data # << >> /\ c < 300
                        THEN BuildDataParsed(o.string["format"], data) ELSE << >>
    BY <1>1, ResultIs
  <1>4. reply.ok /\ reply.form # None =>
           /\ reply.heads # << >> /\ Head(reply.heads).kind = "status"
           /\ Head(reply.heads).code < 300 =>
                  data # << >> /\ reply.pairs = BuildDataParsed(reply.form, data)
    <2>1. Silence.form = None
      BY DEF Silence
    <2> QED
      BY <1>1, <2>1, CurlAssumption
  <1>5. reply.ok /\ reply.form # None => c = Head(reply.heads).code
    BY <1>4 DEF c, Code
  <1>6. data = FlattenSeq(reply.chunks)
    BY DEF BuildData
  <1> HIDE DEF data
  <1>7. reply.ok /\ reply.form # None /\ reply.form = Asked("format") =>
           res.parsed = (IF Head(reply.heads).code < 300 THEN reply.pairs ELSE << >>)
    BY <1>2, <1>3, <1>4, <1>5
  <1> QED
    BY <1>3, <1>6, <1>7 DEF reply, res

LEMMA AnsweredAsAsked ==
    ASSUME NEW o, NEW stale, NEW code, AnsweredBy(last, o, stale, code)
    PROVE  TransfersAsAsked
  BY SentAsAsked, ReportedAsSent DEF TransfersAsAsked

-----------------------------------------------------------------------------
(* The invariant *)

\* A handle has the options it was told, in lists that are its own.
HandleKeeps(p, telling) ==
    /\ p = [opts |-> p.opts, freed |-> p.freed, code |-> p.code, easy |-> p.easy]
    /\ p.freed = {}
    /\ Told(telling) /\ ToSet(telling) \subseteq SetArgs
    /\ Shaped(p.opts) /\ Matches(p.opts, telling, Places(telling))

CurlInv ==
    /\ handles = [h \in DOMAIN handles |-> handles[h]]
    /\ told = [h \in DOMAIN handles |-> told[h]]
    /\ \A h \in DOMAIN handles : HandleKeeps(handles[h], told[h])
    /\ last = NoTransfer \/ \E o, stale, code : AnsweredBy(last, o, stale, code)

LEMMA CurlInvAsAsked ==
    CurlInv => TransfersAsAsked
  <1>1. CASE last = NoTransfer
    BY <1>1 DEF TransfersAsAsked
  <1>2. ASSUME CurlInv, last # NoTransfer PROVE TransfersAsAsked
    <2>1. PICK o, stale, code : AnsweredBy(last, o, stale, code)
      BY <1>2 DEF CurlInv
    <2> QED
      BY <2>1, AnsweredAsAsked
  <1> QED
    BY <1>1, <1>2

LEMMA CurlInvInit == Init => CurlInv
  <1> SUFFICES ASSUME Init PROVE CurlInv
    OBVIOUS
  <1> DEFINE nil == << >>
  <1>1. handles = nil /\ told = nil /\ last = NoTransfer
    BY DEF Init
  <1>2. DOMAIN nil = {} /\ nil = [h \in {} |-> nil[h]]
    <2>1. nil \in Seq({}) /\ Len(nil) = 0
      BY EmptySeq
    <2>2. DOMAIN nil = 1 .. 0 /\ 1 .. 0 = {}
      BY <2>1, LenProperties
    <2>3. nil \in [1 .. 0 -> {}]
      BY <2>1, <2>2, LenProperties
    <2> HIDE DEF nil
    <2> QED
      BY <2>2, <2>3
  <1> HIDE DEF nil
  <1> QED
    BY <1>1, <1>2 DEF CurlInv

\* What may be given to curl:set and to a transfer.
LEMMA ArgsSequences ==
    ASSUME NEW args \in SetArgs \cup PerformArgs
    PROVE  IsSequence(args) /\ \A a \in 1 .. Len(args) : IsSequence(args[a])
  <1>1. IsSequence(args) /\ \A arg \in ToSet(args) : IsSequence(arg)
    BY CurlAssumption DEF IsSequence
  <1> QED
    BY <1>1, SequenceFacts

LEMMA OpenKeeps ==
    ASSUME CurlInv, Open PROVE CurlInv'
  <1> DEFINE n == seed'
  <1>1. /\ handles' = [h \in DOMAIN handles \cup {n} |-> IF h = n THEN NewHandle ELSE handles[h]]
        /\ told' = [h \in DOMAIN handles' |-> IF h = n THEN << >> ELSE told[h]]
        /\ last' = last
    BY DEF Open
  <1>2. HandleKeeps(NewHandle, << >>)
    <2> DEFINE o == NoOptions
               f == {}
               c == 0
               e == Unset
    <2>1. NewHandle = [opts |-> o, freed |-> f, code |-> c, easy |-> e]
      BY DEF NewHandle
    <2> HIDE DEF o, f, c, e
    <2>2. /\ NewHandle.opts = o /\ NewHandle.freed = f
          /\ NewHandle = [opts |-> NewHandle.opts, freed |-> NewHandle.freed,
                          code |-> NewHandle.code, easy |-> NewHandle.easy]
      BY <2>1
    <2>3. ToSet(<< >>) = {}
      BY EmptyIsSequence
    <2> QED
      BY <2>2, <2>3, NothingTold DEF HandleKeeps, o, f
  <1> HIDE DEF n
  <1>3. DOMAIN handles' = DOMAIN handles \cup {n}
    BY <1>1
  <1>4. ASSUME NEW h \in DOMAIN handles' PROVE HandleKeeps(handles'[h], told'[h])
    <2>1. CASE h = n
      <3>1. handles'[h] = NewHandle /\ told'[h] = << >>
        BY <1>1, <1>3, <2>1
      <3> QED
        BY <1>2, <3>1
    <2>2. CASE h # n
      <3>1. h \in DOMAIN handles /\ handles'[h] = handles[h] /\ told'[h] = told[h]
        BY <1>1, <1>3, <2>2
      <3> QED
        BY <3>1 DEF CurlInv
    <2> QED
      BY <2>1, <2>2
  <1>5. handles' = [h \in DOMAIN handles' |-> handles'[h]] /\ told' = [h \in DOMAIN handles' |-> told'[h]]
    BY <1>1, <1>3
  <1>6. last' = NoTransfer \/ \E o, stale, code : AnsweredBy(last', o, stale, code)
    BY <1>1 DEF CurlInv
  <1> QED
    BY <1>4, <1>5, <1>6 DEF CurlInv

LEMMA CloseKeeps ==
    ASSUME CurlInv, NEW h, Close(h) PROVE CurlInv'
  <1>1. /\ handles' = [g \in DOMAIN handles \ {h} |-> handles[g]]
        /\ told' = [g \in DOMAIN handles' |-> told[g]]
        /\ last' = last
    BY DEF Close
  <1>2. DOMAIN handles' = DOMAIN handles \ {h}
    BY <1>1
  <1>3. ASSUME NEW g \in DOMAIN handles' PROVE HandleKeeps(handles'[g], told'[g])
    <2>1. g \in DOMAIN handles /\ handles'[g] = handles[g] /\ told'[g] = told[g]
      BY <1>1, <1>2
    <2> QED
      BY <2>1 DEF CurlInv
  <1>4. handles' = [g \in DOMAIN handles' |-> handles'[g]] /\ told' = [g \in DOMAIN handles' |-> told'[g]]
    BY <1>1, <1>2
  <1>5. last' = NoTransfer \/ \E o, stale, code : AnsweredBy(last', o, stale, code)
    BY <1>1 DEF CurlInv
  <1> QED
    BY <1>3, <1>4, <1>5 DEF CurlInv

\* A step that changes one handle.
LEMMA OneHandleKeeps ==
    ASSUME CurlInv, NEW h \in DOMAIN handles, NEW p, handles' = [handles EXCEPT ![h] = p],
           NEW t, told' = [told EXCEPT ![h] = t], HandleKeeps(p, t),
           last' = NoTransfer \/ \E o, stale, code : AnsweredBy(last', o, stale, code)
    PROVE  CurlInv'
  <1>1. /\ handles = [g \in DOMAIN handles |-> handles[g]]
        /\ told = [g \in DOMAIN handles |-> told[g]]
        /\ \A g \in DOMAIN handles : HandleKeeps(handles[g], told[g])
    BY DEF CurlInv
  <1>2. DOMAIN told = DOMAIN handles
    BY <1>1
  <1>3. /\ DOMAIN handles' = DOMAIN handles
        /\ handles' = [g \in DOMAIN handles |-> IF g = h THEN p ELSE handles[g]]
        /\ told' = [g \in DOMAIN handles |-> IF g = h THEN t ELSE told[g]]
    BY <1>2
  <1>4. ASSUME NEW g \in DOMAIN handles' PROVE HandleKeeps(handles'[g], told'[g])
    BY <1>1, <1>3
  <1>5. handles' = [g \in DOMAIN handles' |-> handles'[g]] /\ told' = [g \in DOMAIN handles' |-> told'[g]]
    BY <1>3
  <1> QED
    BY <1>4, <1>5 DEF CurlInv

SetOpts(p, o) == [p EXCEPT !.opts = o]
Performed(p, code, freed, easy) == [p EXCEPT !.code = code, !.freed = freed, !.easy = easy]

LEMMA HandleChanges ==
    ASSUME NEW p, NEW telling, HandleKeeps(p, telling)
    PROVE  /\ \A o : /\ SetOpts(p, o).opts = o /\ SetOpts(p, o).freed = {}
                     /\ SetOpts(p, o) = [opts |-> o, freed |-> p.freed, code |-> p.code,
                                         easy |-> p.easy]
           /\ \A code, freed, easy : freed = {} =>
                 HandleKeeps(Performed(p, code, freed, easy), telling)
  <1>1. p = [opts |-> p.opts, freed |-> p.freed, code |-> p.code, easy |-> p.easy] /\ p.freed = {}
    BY DEF HandleKeeps
  <1>2. ASSUME NEW o
        PROVE  /\ SetOpts(p, o).opts = o /\ SetOpts(p, o).freed = {}
               /\ SetOpts(p, o) = [opts |-> o, freed |-> p.freed, code |-> p.code, easy |-> p.easy]
    <2> DEFINE none == {}
    <2>1. p.freed = none
      BY <1>1
    <2> HIDE DEF none
    <2>2. SetOpts(p, o) = [opts |-> o, freed |-> p.freed, code |-> p.code, easy |-> p.easy]
      BY <1>1 DEF SetOpts
    <2> QED
      BY <2>1, <2>2 DEF none
  <1>3. ASSUME NEW code, NEW freed, NEW easy, freed = {}
        PROVE  HandleKeeps(Performed(p, code, freed, easy), telling)
    <2> DEFINE q == [p EXCEPT !.code = code]
               r == [q EXCEPT !.freed = freed]
               s == [r EXCEPT !.easy = easy]
    <2>1. Performed(p, code, freed, easy) = s
      BY Zenon DEF Performed
    <2>2. q = [opts |-> p.opts, freed |-> p.freed, code |-> code, easy |-> p.easy]
      BY <1>1
    <2> HIDE DEF q
    <2>3. r = [opts |-> p.opts, freed |-> freed, code |-> code, easy |-> p.easy]
      BY <2>2
    <2> HIDE DEF r
    <2>4. s = [opts |-> p.opts, freed |-> freed, code |-> code, easy |-> easy]
      BY <2>3
    <2> HIDE DEF s
    <2>5. /\ s.opts = p.opts /\ s.freed = freed
          /\ s = [opts |-> s.opts, freed |-> s.freed, code |-> s.code, easy |-> s.easy]
      BY <2>4
    <2> QED
      BY <1>3, <2>1, <2>5 DEF HandleKeeps
  <1> QED
    BY <1>2, <1>3

LEMMA SetKeeps ==
    ASSUME CurlInv, NEW h, NEW args \in SetArgs, Set(h, args) PROVE CurlInv'
  <1> DEFINE p == handles[h]
             o == OptionsParse(p.opts, args)
             q == SetOpts(p, o)
             t == Append(told[h], args)
  <1>1. h \in DOMAIN handles /\ last' = last
    BY DEF Set, Live
  <1>2. HandleKeeps(p, told[h])
    BY <1>1 DEF CurlInv
  <1>3. handles' = [handles EXCEPT ![h] = q] /\ told' = [told EXCEPT ![h] = t]
    <2>1. handles' = [handles EXCEPT ![h].opts = OptionsParse(@, args)]
      BY DEF Set
    <2>2. told' = [told EXCEPT ![h] = t]
      BY DEF Set
    <2>3. handles' = [handles EXCEPT ![h] = q]
      BY <2>1, Zenon DEF SetOpts
    <2> QED
      BY <2>2, <2>3
  <1>4. Shaped(o) /\ Told(t) /\ Matches(o, t, Places(t))
    BY <1>2, ArgsSequences, CallParsed DEF HandleKeeps
  <1>5. ToSet(t) \subseteq SetArgs
    <2>1. ToSet(t) = ToSet(told[h]) \cup {args}
      BY <1>2, AppendIsSequence DEF HandleKeeps, Told
    <2> QED
      BY <1>2, <2>1 DEF HandleKeeps
  <1> HIDE DEF p, o, t
  <1>6. /\ q.opts = o /\ q.freed = {}
        /\ q = [opts |-> q.opts, freed |-> q.freed, code |-> q.code, easy |-> q.easy]
    <2>1. /\ q.opts = o /\ q.freed = {}
          /\ q = [opts |-> o, freed |-> p.freed, code |-> p.code, easy |-> p.easy]
      BY <1>2, HandleChanges
    <2> HIDE DEF q
    <2> QED
      BY <2>1
  <1> HIDE DEF q
  <1>7. HandleKeeps(q, t)
    BY <1>4, <1>5, <1>6 DEF HandleKeeps
  <1>8. last' = NoTransfer \/ \E a, stale, code : AnsweredBy(last', a, stale, code)
    BY <1>1 DEF CurlInv
  <1> QED
    BY <1>1, <1>3, <1>7, <1>8, OneHandleKeeps

\* A transfer with options that match leaves them as those of the last one.
LEMMA AnsweredIs ==
    ASSUME NEW telling, NEW code, NEW easy, NEW o, NEW reply \in Replies \cup {Silence}, NEW stale,
           Shaped(o), Matches(o, telling, Places(telling)), easy = Sending(o, stale),
           Answered(telling, code, easy, o, reply)
    PROVE  \E a, s, c : AnsweredBy(last', a, s, c)
  <1> DEFINE request == IF MissingUrl(o) THEN EasyReset(easy) ELSE easy
             result == BuildResults(o, reply, Code(code, reply))
  <1>1. last' = [telling |-> telling, reply |-> reply, request |-> request, result |-> result]
    BY DEF Answered
  <1>2. ~MissingUrl(o) => request = easy
    OBVIOUS
  <1> HIDE DEF request
  <1>3. last'.telling = telling /\ last'.reply = reply /\ last'.request = request
        /\ last'.result = result
    <2> HIDE DEF result
    <2> QED
      BY <1>1
  <1>4. AnsweredBy(last', o, stale, code)
    BY <1>2, <1>3 DEF AnsweredBy
  <1> QED
    BY <1>4

LEMMA PerformKeeps ==
    ASSUME PlainSets, CurlInv, NEW h, NEW args \in PerformArgs,
           NEW reply \in Replies \cup {Silence}, NEW stale, Perform(h, args, reply, stale)
    PROVE  CurlInv'
  <1> DEFINE p == handles[h]
             o == OptionsParse(OptionsCopy(p.opts), args)
             easy == DoPerform(p.easy, Own(p.opts, o), o, stale)
             t == Append(told[h], args)
             code == Code(p.code, reply)
             freed == OptionsRelease(p.opts)
             left == IF MissingUrl(o) THEN Common(EasyReset(p.easy), o) ELSE EasyReset(p.easy)
             q == Performed(p, code, freed, left)
  <1>1. h \in DOMAIN handles /\ told' = told /\ Answered(t, p.code, easy, o, reply)
    BY DEF Perform, Live
  <1>2. HandleKeeps(p, told[h])
    BY <1>1 DEF CurlInv
  <1>3. handles' = [handles EXCEPT ![h] = q]
    BY Zenon DEF Perform, Performed
  <1>4. OptionsCopy(p.opts) = p.opts /\ freed = {} /\ \A copy : Own(p.opts, copy) = NoOptions.list
    BY <1>2, PlainOptions DEF HandleKeeps
  <1>5. Shaped(o) /\ Matches(o, t, Places(t))
    <2>1. o = OptionsParse(p.opts, args)
      BY <1>4
    <2> HIDE DEF o, t, p
    <2>2. LET a == OptionsParse(p.opts, args)
              b == Append(told[h], args)
          IN  Shaped(a) /\ Told(b) /\ Matches(a, b, Places(b))
      BY <1>2, ArgsSequences, CallParsed DEF HandleKeeps
    <2> QED
      BY <2>1, <2>2 DEF t
  <1>6. easy = Sending(o, stale)
    <2> DEFINE own == Own(p.opts, o)
    <2>1. own = NoOptions.list
      BY <1>4
    <2> DEFINE e == p.easy
    <2>2. easy = DoPerform(e, own, o, stale)
      OBVIOUS
    <2> HIDE DEF own, o, p, e, easy
    <2>3. DoPerform(e, own, o, stale) = Sending(o, stale)
      BY <2>1, ResetForgets
    <2> QED
      BY <2>2, <2>3
  <1> HIDE DEF p, o, easy, t
  <1>7. \E a, s, c : AnsweredBy(last', a, s, c)
    BY <1>1, <1>5, <1>6, AnsweredIs
  <1> HIDE DEF code, freed, left
  <1>8. HandleKeeps(q, told[h])
    BY <1>2, <1>4, HandleChanges
  <1> HIDE DEF q
  <1> DEFINE d == told[h]
  <1>9. told' = [told EXCEPT ![h] = d]
    BY <1>1 DEF CurlInv
  <1> HIDE DEF d
  <1>10. HandleKeeps(q, d)
    BY <1>8 DEF d
  <1> QED
    BY <1>1, <1>3, <1>7, <1>9, <1>10, OneHandleKeeps

LEMMA SingleKeeps ==
    ASSUME CurlInv, NEW args \in PerformArgs,
           NEW reply \in Replies \cup {Silence}, NEW stale, Single(args, reply, stale)
    PROVE  CurlInv'
  <1> DEFINE o == OptionsParse(NoOptions, args)
             easy == DoPerform(Unset, NoOptions.list, o, stale)
             t == <<args>>
  <1>1. handles' = handles /\ told' = told /\ Answered(t, 0, easy, o, reply)
    BY DEF Single
  <1>2. easy = Sending(o, stale)
    BY DEF Sending
  <1>3. Shaped(o) /\ Matches(o, t, Places(t))
    <2>1. t = Append(<< >>, args)
      OBVIOUS
    <2> HIDE DEF o, t
    <2>2. LET a == OptionsParse(NoOptions, args)
              b == Append(<< >>, args)
          IN  Shaped(a) /\ Told(b) /\ Matches(a, b, Places(b))
      BY NothingTold, ArgsSequences, CallParsed
    <2> QED
      BY <2>1, <2>2 DEF o
  <1> HIDE DEF o, easy, t
  <1>4. \E a, s, c : AnsweredBy(last', a, s, c)
    BY <1>1, <1>2, <1>3, AnsweredIs
  <1> QED
    BY <1>1, <1>4 DEF CurlInv

LEMMA CurlInvNext ==
    ASSUME PlainSets PROVE CurlInv /\ [Next]_vars => CurlInv'
  <1> SUFFICES ASSUME CurlInv, [Next]_vars PROVE CurlInv'
    OBVIOUS
  <1>1. CASE Open
    BY <1>1, OpenKeeps
  <1>2. ASSUME NEW h, Close(h) PROVE CurlInv'
    BY <1>2, CloseKeeps
  <1>3. ASSUME handles' = handles, told' = told, last' = last PROVE CurlInv'
    BY <1>3 DEF CurlInv
  <1>4. ASSUME NEW h, Unknown(h) PROVE CurlInv'
    BY <1>3, <1>4 DEF Unknown, vars
  <1>5. ASSUME NEW h, NEW args \in SetArgs, Set(h, args) PROVE CurlInv'
    BY <1>5, SetKeeps
  <1>6. ASSUME NEW args \in PerformArgs, NEW reply \in Replies \cup {Silence}, NEW stale,
               (\E h \in 1 .. MaxHandles : Perform(h, args, reply, stale))
               \/ Single(args, reply, stale)
        PROVE  CurlInv'
    BY <1>6, PerformKeeps, SingleKeeps
  <1>7. CASE UNCHANGED vars
    BY <1>3, <1>7 DEF vars
  <1> QED
    BY <1>1, <1>2, <1>4, <1>5, <1>6, <1>7 DEF Next

\* What a transfer with a URL sends is asked for by its handle and its call,
\* first the call, and by nothing else, through any mix of handles, sets and
\* transfers: no option of a transfer stays in libcurl's handle for the next
\* one, and what is reported is what came back.  Nothing is said of a call
\* without a URL, of the body where contents and parameters are both given, nor
\* of the upload flag: there the code is not what is written of it.  As long as
\* no list is set on a handle, whose copy loses its tail
\* (extCurlPerform, extCurlOptionsCopy, extCurlDoPerform).
THEOREM TransfersAlwaysAsAsked ==
    ASSUME PlainSets PROVE Spec => []TransfersAsAsked
  <1>1. CurlInv /\ [Next]_vars => CurlInv'
    BY CurlInvNext
  <1>2. CurlInv => TransfersAsAsked
    BY CurlInvAsAsked
  <1> QED
    BY <1>1, <1>2, CurlInvInit, PTL DEF Spec

-----------------------------------------------------------------------------
(* Tables and batches of db: *)

\* A table has rows of batches that went into its file.
TableSound(t, f, tried) ==
    /\ t = [made |-> t.made, rows |-> t.rows] /\ IsSequence(t.rows)
    /\ ~t.made => t.rows = << >>
    /\ \A r \in ToSet(t.rows) :
          /\ r = [k |-> r.k, v |-> r.v, b |-> r.b] /\ r.k \in DbKeys /\ r.v \in DbValues
          /\ r.b \in DOMAIN tried /\ tried[r.b].file = f

\* Which keys of which batches rows have.
PairsOf(rows) == {<<r.k, r.b>> : r \in ToSet(rows)}

\* A batch is in its table whole, less what was deleted, or not at all.
BatchSound(b, tried, table, deleted) ==
    IF tried[b].done
    THEN \A k : <<k, b>> \in PairsOf(table.rows) <=>
                   k \in ToSet(tried[b].keys) /\ <<k, b>> \notin deleted
    ELSE \A k : <<k, b>> \notin PairsOf(table.rows)

HandleOf(file, listed, live, lock, txn, mine) ==
    [file |-> file, listed |-> listed, live |-> live, lock |-> lock, txn |-> txn, mine |-> mine]

IsHandle(p) == p = HandleOf(p.file, p.listed, p.live, p.lock, p.txn, p.mine)

\* A connection with a lock is in a transaction and has a copy of its own.
HandleSound(p, tried) ==
    /\ IsHandle(p) /\ p.file \in Databases
    /\ p.lock # "none" => p.txn /\ TableSound(p.mine, p.file, tried)

(* No transaction that was left open is ever committed: what a connection  *)
(* with a lock has stays its own, and what is committed is of connections  *)
(* without a transaction.                                                  *)
DbInv ==
    /\ IsSequence(batches) /\ IsSequence(bases)
    /\ files = [f \in Databases |-> files[f]]
    /\ \A f \in Databases : TableSound(files[f], f, batches)
    /\ \A h \in DOMAIN bases : HandleSound(bases[h], batches)
    /\ \A p \in gone : p[2] \in DOMAIN batches
    /\ \A b \in DOMAIN batches :
          /\ batches[b].file \in Databases
          /\ BatchSound(b, batches, files[batches[b].file], gone)

\* What conditions leave of the rows is some of them.
LEMMA RestIsOfRows ==
    ASSUME NEW rows, IsSequence(rows), NEW cond
    PROVE  IsSequence(Db!Rest(rows, cond)) /\ ToSet(Db!Rest(rows, cond)) \subseteq ToSet(rows)
  <1> DEFINE n == Len(rows)
             Left(s, i) == IF Selects(cond, rows[i].k, rows[i].v) THEN s ELSE Append(s, rows[i])
             Made(m, f) == f = [i \in 0 .. m |-> IF i = 0 THEN << >> ELSE Left(f[i - 1], i)]
             rest == CHOOSE f : Made(n, f)
             Reached == {m \in Nat : \E f : Made(m, f)}
             Fine(s) == IsSequence(s) /\ ToSet(s) \subseteq ToSet(rows)
             K == {m \in Nat : m <= n => Fine(rest[m])}
  <1>0. n \in Nat /\ ToSet(rows) = {rows[i] : i \in 1 .. n}
    BY SequenceFacts
  <1>1. 0 \in Reached
    <2>1. Made(0, [i \in 0 .. 0 |-> << >>])
      OBVIOUS
    <2> HIDE DEF Made
    <2> QED
      BY <2>1
  <1>2. ASSUME NEW m \in Nat, m \in Reached PROVE m + 1 \in Reached
    <2>1. PICK f : Made(m, f)
      BY <1>2
    <2> DEFINE g == [i \in 0 .. (m + 1) |-> IF i = 0 THEN << >> ELSE Left(f[i - 1], i)]
    <2> HIDE DEF Left
    <2>2. \A i \in 0 .. m : g[i] = f[i]
      BY <2>1
    <2>3. ASSUME NEW i \in 0 .. (m + 1)
          PROVE  g[i] = IF i = 0 THEN << >> ELSE Left(g[i - 1], i)
      <3>1. i # 0 => i - 1 \in 0 .. m
        OBVIOUS
      <3> QED
        BY <2>2, <3>1
    <2>4. g = [i \in 0 .. (m + 1) |-> g[i]]
      OBVIOUS
    <2> HIDE DEF g
    <2>5. Made(m + 1, g)
      BY <2>3, <2>4
    <2> HIDE DEF Made
    <2> QED
      BY <2>5
  <1>3. Made(n, rest)
    <2> HIDE DEF Reached, Made
    <2>1. n \in Reached
      BY <1>0, <1>1, <1>2, SetInduction
    <2> QED
      BY <2>1 DEF Reached
  <1>4. Db!Rest(rows, cond) = rest[n]
    BY Zenon DEF Db!Rest
  <1> HIDE DEF rest, Left
  <1>5. 0 \in K
    BY <1>0, <1>3, EmptyIsSequence
  <1>6. ASSUME NEW m \in Nat, m \in K PROVE m + 1 \in K
    <2> SUFFICES ASSUME m + 1 <= n PROVE Fine(rest[m + 1])
      OBVIOUS
    <2>1. rest[m + 1] = Left(rest[m], m + 1) /\ Fine(rest[m])
      <3>1. m + 1 \in 0 .. n /\ m + 1 # 0 /\ (m + 1) - 1 = m /\ m <= n
        BY <1>0
      <3>2. Fine(rest[m])
        BY <1>6, <3>1
      <3> HIDE DEF Fine
      <3> QED
        BY <1>3, <3>1, <3>2
    <2>2. rows[m + 1] \in ToSet(rows)
      BY <1>0
    <2> QED
      BY <2>1, <2>2, AppendIsSequence DEF Left
  <1> HIDE DEF K
  <1>7. n \in K
    BY <1>0, <1>5, <1>6, SetInduction
  <1> QED
    BY <1>0, <1>4, <1>7 DEF K

\* A batch more leaves a table what it was.
LEMMA TableKept ==
    ASSUME NEW tried, IsSequence(tried), NEW e, NEW t, NEW f, TableSound(t, f, tried)
    PROVE  TableSound(t, f, Append(tried, e))
  <1>1. ASSUME NEW b \in DOMAIN tried
        PROVE  b \in DOMAIN Append(tried, e) /\ Append(tried, e)[b] = tried[b]
    BY AppendIsSequence, SequenceFacts
  <1> QED
    BY <1>1 DEF TableSound

LEMMA TableWithRows ==
    ASSUME NEW t, t = [made |-> t.made, rows |-> t.rows], NEW rows
    PROVE  [t EXCEPT !.rows = rows] = [made |-> t.made, rows |-> rows]
  OBVIOUS

\* Rows taken from a table, with new values or not.
LEMMA TableOfSome ==
    ASSUME NEW tried, NEW t, NEW f, TableSound(t, f, tried), t.made,
           NEW rows, IsSequence(rows),
           \A r \in ToSet(rows) : /\ r = [k |-> r.k, v |-> r.v, b |-> r.b] /\ r.v \in DbValues
                                  /\ \E q \in ToSet(t.rows) : r.k = q.k /\ r.b = q.b
    PROVE  /\ TableSound([t EXCEPT !.rows = rows], f, tried)
           /\ PairsOf([t EXCEPT !.rows = rows].rows) \subseteq PairsOf(t.rows)
  <1> DEFINE u == [t EXCEPT !.rows = rows]
  <1>0. t = [made |-> t.made, rows |-> t.rows]
    BY DEF TableSound
  <1>1. u = [made |-> t.made, rows |-> rows]
    BY <1>0, TableWithRows, Zenon
  <1>2. u.made /\ u.rows = rows /\ u = [made |-> u.made, rows |-> u.rows]
    BY <1>1
  <1> HIDE DEF u
  <1>3. TableSound(u, f, tried)
    <2>1. \A q \in ToSet(t.rows) : q.k \in DbKeys /\ q.b \in DOMAIN tried /\ tried[q.b].file = f
      BY DEF TableSound
    <2>2. ASSUME NEW r \in ToSet(rows)
          PROVE  /\ r = [k |-> r.k, v |-> r.v, b |-> r.b] /\ r.k \in DbKeys /\ r.v \in DbValues
                 /\ r.b \in DOMAIN tried /\ tried[r.b].file = f
      <3>1. PICK q \in ToSet(t.rows) : r.k = q.k /\ r.b = q.b
        OBVIOUS
      <3>2. r = [k |-> r.k, v |-> r.v, b |-> r.b] /\ r.v \in DbValues
        OBVIOUS
      <3> QED
        BY <2>1, <3>1, <3>2
    <2> QED
      BY <1>2, <2>2, Zenon DEF TableSound
  <1>4. PairsOf(u.rows) \subseteq PairsOf(t.rows)
    BY <1>2 DEF PairsOf
  <1> QED
    BY <1>3, <1>4 DEF u

\* What a batch adds to a table, if all its keys fit.
LEMMA AddedToTable ==
    ASSUME IsSequence(batches), NEW t, NEW f, TableSound(t, f, batches), t.made,
           NEW keys, IsSequence(keys), ToSet(keys) \subseteq DbKeys, NEW e, e.file = f
    PROVE  LET new == Db!Added(t, keys)
               rows == new.rows
           IN  /\ TableSound(new, f, Append(batches, e))
               /\ Len(rows) = Len(t.rows) + Len(keys) =>
                     PairsOf(rows) = PairsOf(t.rows)
                                        \cup {<<k, Len(batches) + 1>> : k \in ToSet(keys)}
  <1> DEFINE n == Len(batches) + 1
             fits == Db!Fits(t.rows, keys)
             more == [i \in 1 .. fits |-> Db!Row(keys[i])]
             new == Db!Added(t, keys)
             tried == Append(batches, e)
  <1>1. Len(batches) \in Nat /\ DOMAIN batches = 1 .. Len(batches)
    BY SequenceFacts
  <1>2. /\ Len(keys) \in Nat /\ DOMAIN keys = 1 .. Len(keys)
        /\ ToSet(keys) = {keys[i] : i \in 1 .. Len(keys)}
    BY SequenceFacts
  <1>3. fits \in Nat /\ fits <= Len(keys)
    <2> DEFINE bad == {i \in DOMAIN keys : (\E j \in DOMAIN t.rows : t.rows[j].k = keys[i])
                                              \/ \E j \in 1 .. i - 1 : keys[j] = keys[i]}
    <2>1. fits = IF bad = {} THEN Len(keys) ELSE Db!Min(bad) - 1
      BY DEF Db!Fits
    <2>2. bad \subseteq 1 .. Len(keys)
      BY <1>2
    <2> HIDE DEF bad, fits
    <2>3. bad # {} => Db!Min(bad) \in bad
      <3>1. bad \subseteq Nat
        BY <1>2, <2>2
      <3>2. bad # {} => \E i \in bad : \A j \in bad : i <= j
        BY <3>1, LeastNatural
      <3> QED
        BY <3>2 DEF Db!Min
    <2>4. bad # {} => Db!Min(bad) - 1 \in Nat /\ Db!Min(bad) - 1 <= Len(keys)
      <3> DEFINE m == Db!Min(bad)
      <3>1. bad # {} => m \in 1 .. Len(keys)
        BY <2>2, <2>3
      <3> HIDE DEF m
      <3>2. bad # {} => m - 1 \in Nat /\ m - 1 <= Len(keys)
        BY <1>2, <3>1
      <3> QED
        BY <3>2 DEF m
    <2> QED
      BY <1>2, <2>1, <2>4
  <1> HIDE DEF fits
  <1>4. /\ IsSequence(more) /\ Len(more) = fits
        /\ \A i \in 1 .. fits : more[i] = [k |-> keys[i], v |-> 0, b |-> n]
    <2> DEFINE T == {Db!Row(keys[i]) : i \in 1 .. fits}
    <2>1. more \in [1 .. fits -> T]
      OBVIOUS
    <2>2. \A i \in 1 .. fits : more[i] = [k |-> keys[i], v |-> 0, b |-> n]
      BY DEF Db!Row
    <2>3. more \in Seq(T) /\ Len(more) = fits
      <3> HIDE DEF more, T
      <3>1. more \in Seq(T)
        BY <1>3, <2>1, SeqDef
      <3>2. DOMAIN more = 1 .. fits
        BY <2>1
      <3> QED
        BY <1>3, <3>1, <3>2, LenProperties
    <2> HIDE DEF more, T
    <2> QED
      BY <2>2, <2>3, SequenceOf
  <1>5. t = [made |-> t.made, rows |-> t.rows] /\ IsSequence(t.rows)
    BY DEF TableSound
  <1>6. new = [made |-> t.made, rows |-> t.rows \o more]
    <2>1. new = [t EXCEPT !.rows = t.rows \o more]
      BY Zenon DEF Db!Added, fits
    <2> HIDE DEF new, more
    <2> QED
      BY <1>5, <2>1, TableWithRows, Zenon
  <1> HIDE DEF new, more
  <1>7. new.made /\ new.rows = t.rows \o more /\ new = [made |-> new.made, rows |-> new.rows]
    BY <1>6
  <1>8. /\ IsSequence(new.rows) /\ ToSet(new.rows) = ToSet(t.rows) \cup ToSet(more)
        /\ Len(new.rows) = Len(t.rows) + fits
    BY <1>4, <1>5, <1>7, ConcatIsSequence
  <1>9. /\ n \in DOMAIN tried /\ tried[n] = e
        /\ \A b \in DOMAIN batches : b \in DOMAIN tried /\ tried[b] = batches[b]
    <2>1. /\ IsSequence(tried) /\ Len(tried) = n /\ tried[n] = e
          /\ \A b \in 1 .. Len(batches) : tried[b] = batches[b]
      BY AppendIsSequence
    <2>2. DOMAIN tried = 1 .. n
      BY <2>1, SequenceFacts
    <2> HIDE DEF tried
    <2> QED
      BY <1>1, <2>1, <2>2
  <1> HIDE DEF tried
  <1>10. ToSet(more) = {[k |-> keys[i], v |-> 0, b |-> n] : i \in 1 .. fits}
    <2>1. ToSet(more) = {more[i] : i \in 1 .. fits}
      BY <1>4, SequenceFacts
    <2> QED
      BY <1>4, <2>1
  <1>11. TableSound(new, f, tried)
    <2>1. ASSUME NEW r \in ToSet(new.rows)
          PROVE  /\ r = [k |-> r.k, v |-> r.v, b |-> r.b] /\ r.k \in DbKeys /\ r.v \in DbValues
                 /\ r.b \in DOMAIN tried /\ tried[r.b].file = f
      <3>1. CASE r \in ToSet(t.rows)
        BY <1>9, <3>1 DEF TableSound
      <3>2. CASE r \in ToSet(more)
        <4>1. PICK i \in 1 .. fits : r = [k |-> keys[i], v |-> 0, b |-> n]
          BY <1>10, <3>2
        <4>2. r.k = keys[i] /\ r.v = 0 /\ r.b = n
          BY <4>1
        <4>3. keys[i] \in DbKeys
          BY <1>2, <1>3
        <4>4. 0 \in DbValues
          BY DEF DbValues
        <4> HIDE DEF n
        <4> QED
          BY <1>9, <4>1, <4>2, <4>3, <4>4
      <3> QED
        BY <1>8, <3>1, <3>2
    <2> QED
      BY <1>7, <1>8, <2>1, Zenon DEF TableSound
  <1>12. ASSUME Len(new.rows) = Len(t.rows) + Len(keys)
         PROVE  PairsOf(new.rows) = PairsOf(t.rows) \cup {<<k, n>> : k \in ToSet(keys)}
    <2>1. fits = Len(keys)
      <3>1. Len(t.rows) \in Nat
        BY <1>5, SequenceFacts
      <3> DEFINE a == Len(t.rows)
                 c == Len(keys)
      <3>2. a + fits = a + c /\ a \in Nat /\ c \in Nat
        BY <1>2, <1>8, <1>12, <3>1
      <3> HIDE DEF a, c
      <3>3. fits = c
        BY <1>3, <3>2
      <3> QED
        BY <3>3 DEF c
    <2>2. PairsOf(more) = {<<k, n>> : k \in ToSet(keys)}
      <3>1. PairsOf(more) = {<<keys[i], n>> : i \in 1 .. fits}
        <4> DEFINE row(i) == [k |-> keys[i], v |-> 0, b |-> n]
        <4>1. \A i \in 1 .. fits : row(i).k = keys[i] /\ row(i).b = n
          OBVIOUS
        <4>2. ToSet(more) = {row(i) : i \in 1 .. fits}
          BY <1>10
        <4> HIDE DEF row, n
        <4> QED
          BY <4>1, <4>2 DEF PairsOf
      <3> HIDE DEF n
      <3> QED
        BY <1>2, <2>1, <3>1
    <2> QED
      BY <1>8, <2>2 DEF PairsOf
  <1> QED
    BY <1>11, <1>12 DEF new, tried

\* A step in which no batch is tried: every table has some of the rows it had, and what it has
\* no more counts as deleted.
LEMMA BatchesKept ==
    ASSUME DbInv, UNCHANGED batches, IsSequence(bases'),
           \A h \in DOMAIN bases' : HandleSound(bases'[h], batches),
           NEW f \in Databases, NEW new, TableSound(new, f, batches),
           PairsOf(new.rows) \subseteq PairsOf(files[f].rows),
           files' = [files EXCEPT ![f] = new],
           gone' = gone \cup (PairsOf(files[f].rows) \ PairsOf(new.rows))
    PROVE  DbInv'
  <1>1. /\ files = [g \in Databases |-> files[g]]
        /\ \A g \in Databases : TableSound(files[g], g, batches)
    BY DEF DbInv
  <1>2. files' = [g \in Databases |-> IF g = f THEN new ELSE files[g]]
    BY <1>1
  <1>3. files' = [g \in Databases |-> files'[g]]
    BY <1>2
  <1>4. \A g \in Databases : TableSound(files'[g], g, batches)
    BY <1>1, <1>2
  <1>5. ASSUME NEW p \in PairsOf(files[f].rows)
        PROVE  p[2] \in DOMAIN batches /\ batches[p[2]].file = f
    <2>1. PICK r \in ToSet(files[f].rows) : p = <<r.k, r.b>>
      BY DEF PairsOf
    <2>2. r.b \in DOMAIN batches /\ batches[r.b].file = f
      BY <1>1, <2>1 DEF TableSound
    <2> QED
      BY <2>1, <2>2
  <1>6. \A p \in gone' : p[2] \in DOMAIN batches
    BY <1>5 DEF DbInv
  <1>7. ASSUME NEW b \in DOMAIN batches
        PROVE  /\ batches[b].file \in Databases
               /\ BatchSound(b, batches, files'[batches[b].file], gone')
    <2>1. batches[b].file \in Databases /\ BatchSound(b, batches, files[batches[b].file], gone)
      BY DEF DbInv
    <2>2. CASE batches[b].file = f
      <3>1. files'[f] = new
        BY <1>2
      <3>2. BatchSound(b, batches, new, gone')
        BY <2>1, <2>2 DEF BatchSound
      <3> QED
        BY <2>1, <2>2, <3>1, <3>2
    <2>3. CASE batches[b].file # f
      <3>1. files'[batches[b].file] = files[batches[b].file]
        BY <1>2, <2>1, <2>3
      <3>2. \A k : <<k, b>> \in gone' <=> <<k, b>> \in gone
        <4>1. ASSUME NEW k, <<k, b>> \in PairsOf(files[f].rows) PROVE FALSE
          <5>1. <<k, b>>[2] = b
            OBVIOUS
          <5> QED
            BY <1>5, <2>3, <4>1, <5>1
        <4> QED
          BY <4>1
      <3> QED
        BY <2>1, <3>1, <3>2 DEF BatchSound
    <2> QED
      BY <2>2, <2>3
  <1> QED
    BY <1>3, <1>4, <1>6, <1>7 DEF DbInv

LEMMA HandlesKept ==
    ASSUME NEW tried, IsSequence(bases), \A h \in DOMAIN bases : HandleSound(bases[h], tried),
           NEW h \in DOMAIN bases, NEW p, HandleSound(p, tried), bases' = [bases EXCEPT ![h] = p]
    PROVE  /\ IsSequence(bases') /\ DOMAIN bases' = DOMAIN bases
           /\ \A g \in DOMAIN bases' : HandleSound(bases'[g], tried)
  <1>1. Len(bases) \in Nat /\ DOMAIN bases = 1 .. Len(bases)
    BY SequenceFacts
  <1>2. bases = [g \in 1 .. Len(bases) |-> bases[g]]
    BY <1>1, SequenceFacts, LenProperties DEF IsSequence
  <1>3. bases' = [g \in 1 .. Len(bases) |-> IF g = h THEN p ELSE bases[g]]
    BY <1>1, <1>2
  <1>4. DOMAIN bases' = DOMAIN bases
    BY <1>1, <1>3
  <1>5. IsSequence(bases')
    <2> DEFINE T == {bases'[g] : g \in 1 .. Len(bases)}
    <2>1. bases' \in [1 .. Len(bases) -> T]
      BY <1>3
    <2>2. bases' \in Seq(T)
      <3> HIDE DEF T
      <3> QED
        BY <1>1, <2>1, SeqDef
    <2> HIDE DEF T
    <2> QED
      BY <2>2, SequenceOf
  <1> QED
    BY <1>1, <1>3, <1>4, <1>5

\* What becomes of a handle: what it has of its own, a transaction left open, closed with its
\* connection kept, and closed.
LEMMA HandleWorks ==
    ASSUME NEW p, IsHandle(p), NEW lock, NEW mine
    PROVE  [p EXCEPT !.lock = lock, !.mine = mine] = HandleOf(p.file, p.listed, p.live, lock, p.txn, mine)
  <1> DEFINE q1 == [p EXCEPT !.lock = lock]
             q2 == [q1 EXCEPT !.mine = mine]
  <1>0. [p EXCEPT !.lock = lock, !.mine = mine] = q2
    BY Zenon
  <1>1. q1 = HandleOf(p.file, p.listed, p.live, lock, p.txn, p.mine)
    BY DEF IsHandle, HandleOf
  <1> HIDE DEF q1
  <1>2. q2 = HandleOf(p.file, p.listed, p.live, lock, p.txn, mine)
    BY <1>1 DEF HandleOf
  <1> HIDE DEF q2
  <1> QED
    BY <1>0, <1>2, Zenon

LeftOpen(p, lock, mine) == [p EXCEPT !.txn = TRUE, !.lock = lock, !.mine = mine]

LEMMA HandleLeftOpen ==
    ASSUME NEW p, IsHandle(p), NEW lock, NEW mine
    PROVE  /\ IsHandle(LeftOpen(p, lock, mine)) /\ LeftOpen(p, lock, mine).file = p.file
           /\ LeftOpen(p, lock, mine).lock = lock /\ LeftOpen(p, lock, mine).txn
           /\ LeftOpen(p, lock, mine).mine = mine
  <1> DEFINE yes == TRUE
             q1 == [p EXCEPT !.txn = yes]
             q2 == [q1 EXCEPT !.lock = lock]
             q3 == [q2 EXCEPT !.mine = mine]
  <1>1. LeftOpen(p, lock, mine) = q3
    BY Zenon DEF LeftOpen
  <1>2. yes = TRUE
    OBVIOUS
  <1> HIDE DEF yes
  <1>3. q1 = HandleOf(p.file, p.listed, p.live, p.lock, yes, p.mine)
    BY DEF IsHandle, HandleOf
  <1> HIDE DEF q1
  <1>4. q2 = HandleOf(p.file, p.listed, p.live, lock, yes, p.mine)
    BY <1>3 DEF HandleOf
  <1> HIDE DEF q2
  <1>5. q3 = HandleOf(p.file, p.listed, p.live, lock, yes, mine)
    BY <1>4 DEF HandleOf
  <1> HIDE DEF q3
  <1>6. /\ IsHandle(q3) /\ q3.file = p.file /\ q3.lock = lock /\ q3.txn = yes
        /\ q3.mine = mine
    BY <1>5 DEF IsHandle, HandleOf
  <1>7. q3.txn
    BY <1>2, <1>6
  <1> QED
    BY <1>1, <1>6, <1>7, Zenon

LEMMA HandleUnlisted ==
    ASSUME NEW p, IsHandle(p), NEW listed
    PROVE  [p EXCEPT !.listed = listed] = HandleOf(p.file, listed, p.live, p.lock, p.txn, p.mine)
  BY DEF IsHandle, HandleOf

LEMMA HandleClosed ==
    ASSUME NEW p, IsHandle(p), NEW listed, NEW live, NEW lock, NEW txn
    PROVE  [p EXCEPT !.listed = listed, !.live = live, !.lock = lock, !.txn = txn]
              = HandleOf(p.file, listed, live, lock, txn, p.mine)
  <1> DEFINE q1 == [p EXCEPT !.listed = listed]
             q2 == [q1 EXCEPT !.live = live]
             q3 == [q2 EXCEPT !.lock = lock]
             q4 == [q3 EXCEPT !.txn = txn]
  <1>0. [p EXCEPT !.listed = listed, !.live = live, !.lock = lock, !.txn = txn] = q4
    BY Zenon
  <1>1. q1 = HandleOf(p.file, listed, p.live, p.lock, p.txn, p.mine)
    BY DEF IsHandle, HandleOf
  <1> HIDE DEF q1
  <1>2. q2 = HandleOf(p.file, listed, live, p.lock, p.txn, p.mine)
    BY <1>1 DEF HandleOf
  <1> HIDE DEF q2
  <1>3. q3 = HandleOf(p.file, listed, live, lock, p.txn, p.mine)
    BY <1>2 DEF HandleOf
  <1> HIDE DEF q3
  <1>4. q4 = HandleOf(p.file, listed, live, lock, txn, p.mine)
    BY <1>3 DEF HandleOf
  <1> HIDE DEF q4
  <1> QED
    BY <1>0, <1>4, Zenon

\* A connection writes what it wants to; without a transaction it is committed.
LEMMA WritesKeep ==
    ASSUME DbInv, NEW h \in DOMAIN bases, NEW new,
           TableSound(new, bases[h].file, batches),
           PairsOf(new.rows) \subseteq PairsOf(Db!Sees(h).rows),
           Db!Writes(h, new), UNCHANGED batches
    PROVE  DbInv'
  <1> DEFINE p == bases[h]
             f == p.file
  <1>1. /\ IsHandle(p) /\ f \in Databases /\ (p.lock # "none" => p.txn)
    BY DEF DbInv, HandleSound
  <1>2. CASE UNCHANGED <<files, bases, gone>>
    BY <1>2 DEF DbInv
  <1>3. CASE p.txn /\ ~UNCHANGED <<files, bases, gone>>
    <2> DEFINE lock == IF p.lock = "none" THEN "reserved" ELSE p.lock
               q == [p EXCEPT !.lock = lock, !.mine = new]
    <2>1. bases' = [bases EXCEPT ![h] = q] /\ UNCHANGED <<files, gone>>
      <3>1. CASE ~Db!MayWrite(h)
        BY <1>3, <3>1 DEF Db!Writes
      <3>2. CASE Db!MayWrite(h)
        BY <1>3, <3>2, Zenon DEF Db!Writes
      <3> QED
        BY <3>1, <3>2
    <2> HIDE DEF lock
    <2>2. q = HandleOf(f, p.listed, p.live, lock, p.txn, new)
      <3>1. IsHandle(p)
        BY <1>1
      <3> HIDE DEF p
      <3>2. [p EXCEPT !.lock = lock, !.mine = new]
               = HandleOf(p.file, p.listed, p.live, lock, p.txn, new)
        BY <3>1, HandleWorks, Zenon
      <3> QED
        BY <3>2
    <2>3. HandleSound(q, batches)
      <3> HIDE DEF q, p
      <3>1. /\ q = HandleOf(q.file, q.listed, q.live, q.lock, q.txn, q.mine)
            /\ q.file = f /\ q.txn = p.txn /\ q.mine = new
        BY <2>2 DEF HandleOf
      <3> QED
        BY <1>1, <1>3, <3>1 DEF HandleSound, IsHandle, p
    <2> HIDE DEF q
    <2>4. IsSequence(bases') /\ \A g \in DOMAIN bases' : HandleSound(bases'[g], batches)
      BY <2>1, <2>3, HandlesKept DEF DbInv
    <2> QED
      BY <2>1, <2>4 DEF DbInv
  <1>4. CASE ~p.txn /\ ~UNCHANGED <<files, bases, gone>>
    <2>1. Db!Sees(h) = files[f]
      BY <1>1, <1>4 DEF Db!Sees
    <2>2. /\ UNCHANGED bases /\ files' = [files EXCEPT ![f] = new]
          /\ gone' = gone \cup ({<<r.k, r.b>> : r \in Db!ToSet(files[f].rows)}
                                  \ {<<r.k, r.b>> : r \in Db!ToSet(new.rows)})
      BY <1>4, Zenon DEF Db!Writes
    <2>3. gone' = gone \cup (PairsOf(files[f].rows) \ PairsOf(new.rows))
      BY <2>2 DEF PairsOf, ToSet, Db!ToSet
    <2>4. IsSequence(bases') /\ \A g \in DOMAIN bases' : HandleSound(bases'[g], batches)
      BY <2>2 DEF DbInv
    <2> HIDE DEF f
    <2> QED
      BY <1>1, <2>1, <2>2, <2>3, <2>4, BatchesKept DEF f
  <1> QED
    BY <1>2, <1>3, <1>4

LEMMA SeesSound ==
    ASSUME DbInv, NEW h \in DOMAIN bases
    PROVE  TableSound(Db!Sees(h), bases[h].file, batches)
  BY DEF DbInv, HandleSound, Db!Sees

\* A handle more.
LEMMA OpenDbKeeps ==
    ASSUME DbInv, NEW f \in Databases, NEW ok, Db!Open(f, ok)
    PROVE  DbInv'
  <1> DEFINE p == HandleOf(f, TRUE, ok, "none", FALSE, [made |-> FALSE, rows |-> << >>])
  <1>1. bases' = Append(bases, p) /\ UNCHANGED <<files, batches, gone>>
    BY DEF Db!Open, HandleOf
  <1>2. HandleSound(p, batches)
    BY DEF HandleSound, IsHandle, HandleOf
  <1> HIDE DEF p
  <1>3. IsSequence(bases') /\ \A h \in DOMAIN bases' : HandleSound(bases'[h], batches)
    <2>1. /\ IsSequence(bases) /\ Len(bases) \in Nat /\ DOMAIN bases = 1 .. Len(bases)
          /\ \A h \in DOMAIN bases : HandleSound(bases[h], batches)
      BY SequenceFacts DEF DbInv
    <2>2. /\ IsSequence(bases') /\ Len(bases') = Len(bases) + 1 /\ bases'[Len(bases) + 1] = p
          /\ \A h \in 1 .. Len(bases) : bases'[h] = bases[h]
      BY <1>1, <2>1, AppendIsSequence
    <2>3. DOMAIN bases' = 1 .. Len(bases) + 1
      BY <2>2, SequenceFacts
    <2>4. ASSUME NEW h \in DOMAIN bases' PROVE HandleSound(bases'[h], batches)
      <3>1. h \in 1 .. Len(bases) \/ h = Len(bases) + 1
        BY <2>1, <2>3
      <3> QED
        BY <1>2, <2>1, <2>2, <3>1
    <2> QED
      BY <2>2, <2>4
  <1> QED
    BY <1>1, <1>3 DEF DbInv

LEMMA CreateKeeps ==
    ASSUME DbInv, NEW h \in DOMAIN bases, Db!Create(h)
    PROVE  DbInv'
  <1> DEFINE new == [made |-> TRUE, rows |-> << >>]
  <1>1. Db!Writes(h, new) /\ UNCHANGED batches
    BY DEF Db!Create
  <1>2. IsSequence(new.rows) /\ ToSet(new.rows) = {}
    BY EmptyIsSequence DEF ToSet
  <1>3. TableSound(new, bases[h].file, batches) /\ PairsOf(new.rows) = {}
    BY <1>2 DEF TableSound, PairsOf
  <1> QED
    BY <1>1, <1>3, WritesKeep

LEMMA DeleteKeeps ==
    ASSUME DbInv, NEW h \in DOMAIN bases, NEW cond, Db!Delete(h, cond)
    PROVE  DbInv'
  <1> DEFINE t == Db!Sees(h)
             rows == Db!Rest(t.rows, cond)
             new == [t EXCEPT !.rows = rows]
  <1>1. CASE UNCHANGED <<files, bases, gone, batches>>
    BY <1>1 DEF DbInv
  <1>2. CASE ~UNCHANGED <<files, bases, gone, batches>>
    <2>1. t.made /\ Db!Writes(h, new) /\ UNCHANGED batches
      BY <1>2, Zenon DEF Db!Delete, Db!Refused
    <2>2. TableSound(t, bases[h].file, batches)
      BY SeesSound
    <2> HIDE DEF t
    <2>3. IsSequence(rows) /\ ToSet(rows) \subseteq ToSet(t.rows)
      BY <2>2, RestIsOfRows DEF TableSound
    <2> HIDE DEF rows
    <2>4. \A r \in ToSet(rows) : /\ r = [k |-> r.k, v |-> r.v, b |-> r.b] /\ r.v \in DbValues
                                 /\ \E q \in ToSet(t.rows) : r.k = q.k /\ r.b = q.b
      BY <2>2, <2>3 DEF TableSound
    <2>5. TableSound(new, bases[h].file, batches) /\ PairsOf(new.rows) \subseteq PairsOf(t.rows)
      BY <2>1, <2>2, <2>3, <2>4, TableOfSome
    <2> HIDE DEF new
    <2> QED
      BY <2>1, <2>5, WritesKeep DEF t
  <1> QED
    BY <1>1, <1>2

\* An update gives rows another value and leaves what they are of.
LEMMA UpdateKeeps ==
    ASSUME DbInv, NEW h \in DOMAIN bases, NEW cond, Db!Update(h, cond)
    PROVE  DbInv'
  <1> DEFINE t == Db!Sees(h)
             old == t.rows
             Of(r) == IF Selects(cond, r.k, r.v) THEN [r EXCEPT !.v = 1] ELSE r
             rows == [i \in DOMAIN old |-> Of(old[i])]
             new == [t EXCEPT !.rows = rows]
  <1>1. CASE UNCHANGED <<files, bases, gone, batches>>
    BY <1>1 DEF DbInv
  <1>2. CASE ~UNCHANGED <<files, bases, gone, batches>>
    <2>1. t.made /\ Db!Writes(h, new) /\ UNCHANGED batches
      BY <1>2, Zenon DEF Db!Update, Db!Refused
    <2>2. TableSound(t, bases[h].file, batches)
      BY SeesSound
    <2> HIDE DEF t
    <2>3. /\ IsSequence(old) /\ Len(old) \in Nat /\ DOMAIN old = 1 .. Len(old)
          /\ ToSet(old) = {old[i] : i \in 1 .. Len(old)}
          /\ \A r \in ToSet(old) : r = [k |-> r.k, v |-> r.v, b |-> r.b] /\ r.v \in DbValues
      BY <2>2, SequenceFacts DEF TableSound
    <2> HIDE DEF old
    <2>4. ASSUME NEW q \in ToSet(old)
          PROVE  /\ Of(q) = [k |-> Of(q).k, v |-> Of(q).v, b |-> Of(q).b]
                 /\ Of(q).k = q.k /\ Of(q).v \in DbValues /\ Of(q).b = q.b
      <3>1. q = [k |-> q.k, v |-> q.v, b |-> q.b] /\ q.v \in DbValues /\ 1 \in DbValues
        BY <2>3 DEF DbValues
      <3>2. [q EXCEPT !.v = 1] = [k |-> q.k, v |-> 1, b |-> q.b]
        BY <3>1
      <3> QED
        BY <3>1, <3>2
    <2> HIDE DEF Of
    <2>5. IsSequence(rows) /\ ToSet(rows) = {Of(q) : q \in ToSet(old)}
      <3> DEFINE T == {Of(q) : q \in ToSet(old)}
      <3>1. rows \in [1 .. Len(old) -> T]
        BY <2>3
      <3>2. rows \in Seq(T) /\ DOMAIN rows = 1 .. Len(old)
        <4> HIDE DEF T, rows
        <4> QED
          BY <2>3, <3>1, SeqDef
      <3>3. \A i \in 1 .. Len(old) : rows[i] = Of(old[i])
        BY <2>3
      <3> HIDE DEF T, rows
      <3>4. IsSequence(rows) /\ Len(rows) = Len(old)
        BY <2>3, <3>2, SequenceOf, LenProperties
      <3>5. ToSet(rows) = {rows[i] : i \in 1 .. Len(old)}
        BY <3>4, SequenceFacts
      <3> QED
        BY <2>3, <3>3, <3>4, <3>5
    <2> HIDE DEF rows
    <2>6. \A r \in ToSet(rows) : /\ r = [k |-> r.k, v |-> r.v, b |-> r.b] /\ r.v \in DbValues
                                 /\ \E q \in ToSet(old) : r.k = q.k /\ r.b = q.b
      BY <2>4, <2>5
    <2>7. TableSound(new, bases[h].file, batches) /\ PairsOf(new.rows) \subseteq PairsOf(t.rows)
      BY <2>1, <2>2, <2>5, <2>6, TableOfSome DEF old
    <2> HIDE DEF new
    <2> QED
      BY <2>1, <2>7, WritesKeep DEF t
  <1> QED
    BY <1>1, <1>2

\* A batch more: if it is done all of it went into its file, and otherwise nothing.
LEMMA BatchMore ==
    ASSUME DbInv, NEW e, e.file \in Databases, batches' = Append(batches, e), UNCHANGED gone,
           IsSequence(bases'), \A h \in DOMAIN bases' : HandleSound(bases'[h], batches'),
           files' = [f \in Databases |-> files'[f]],
           \A f \in Databases : TableSound(files'[f], f, batches'),
           \A f \in Databases : PairsOf(files'[f].rows) =
                PairsOf(files[f].rows)
                   \cup IF e.done /\ f = e.file THEN {<<k, Len(batches) + 1>> : k \in ToSet(e.keys)}
                        ELSE {}
    PROVE  DbInv'
  <1> DEFINE n == Len(batches) + 1
  <1>1. /\ IsSequence(batches) /\ Len(batches) \in Nat /\ DOMAIN batches = 1 .. Len(batches)
        /\ n \notin DOMAIN batches
    BY SequenceFacts DEF DbInv
  <1>2. /\ IsSequence(batches') /\ DOMAIN batches' = 1 .. n /\ batches'[n] = e
        /\ \A b \in DOMAIN batches : b \in DOMAIN batches' /\ batches'[b] = batches[b]
    <2>1. /\ IsSequence(batches') /\ Len(batches') = n /\ batches'[n] = e
          /\ \A b \in 1 .. Len(batches) : batches'[b] = batches[b]
      BY <1>1, AppendIsSequence
    <2>2. DOMAIN batches' = 1 .. n
      BY <2>1, SequenceFacts
    <2> QED
      BY <1>1, <2>1, <2>2
  <1>3. \A f \in Databases : \A k : <<k, n>> \notin PairsOf(files[f].rows)
    <2> SUFFICES ASSUME NEW f \in Databases, NEW k, NEW r \in ToSet(files[f].rows),
                        <<k, n>> = <<r.k, r.b>>
                 PROVE  FALSE
      BY DEF PairsOf
    <2> HIDE DEF n
    <2>1. r.b \in DOMAIN batches
      BY DEF DbInv, TableSound
    <2> QED
      BY <1>1, <2>1
  <1>4. \A k : <<k, n>> \notin gone
    <2> HIDE DEF n
    <2> SUFFICES ASSUME NEW k, <<k, n>> \in gone PROVE FALSE
      OBVIOUS
    <2>1. <<k, n>>[2] = n
      OBVIOUS
    <2> QED
      BY <1>1, <2>1 DEF DbInv
  <1>5. \A p \in gone' : p[2] \in DOMAIN batches'
    BY <1>2 DEF DbInv
  <1> HIDE DEF n
  <1>6. ASSUME NEW b \in DOMAIN batches'
        PROVE  /\ batches'[b].file \in Databases
               /\ BatchSound(b, batches', files'[batches'[b].file], gone')
    <2>1. CASE b = n
      <3>1. \A k : <<k, n>> \in PairsOf(files'[e.file].rows) <=> e.done /\ k \in ToSet(e.keys)
        BY <1>3 DEF n
      <3> QED
        BY <1>2, <1>4, <2>1, <3>1 DEF BatchSound
    <2>2. CASE b # n
      <3>1. b \in DOMAIN batches /\ batches'[b] = batches[b]
        <4>1. b \in DOMAIN batches
          BY <1>1, <1>2, <2>2 DEF n
        <4> QED
          BY <1>2, <4>1
      <3> DEFINE f == batches[b].file
      <3>2. f \in Databases /\ BatchSound(b, batches, files[f], gone)
        BY <3>1 DEF DbInv
      <3> HIDE DEF f
      <3>3. \A k : <<k, b>> \in PairsOf(files'[f].rows) <=> <<k, b>> \in PairsOf(files[f].rows)
        BY <2>2, <3>2 DEF n
      <3> QED
        BY <3>1, <3>2, <3>3 DEF BatchSound, f
    <2> QED
      BY <2>1, <2>2
  <1> QED
    BY <1>2, <1>5, <1>6 DEF DbInv

LEMMA HandleKept ==
    ASSUME NEW tried, IsSequence(tried), NEW e, NEW p, HandleSound(p, tried)
    PROVE  HandleSound(p, Append(tried, e))
  BY TableKept DEF HandleSound

\* A batch goes in whole and is committed, or is left in a transaction of its connection.
LEMMA InsertKeeps ==
    ASSUME DbInv, NEW h \in DOMAIN bases, NEW keys, IsSequence(keys), ToSet(keys) \subseteq DbKeys,
           Db!Insert(h, keys)
    PROVE  DbInv'
  <1> DEFINE p == bases[h]
             f == p.file
             t == Db!Sees(h)
             new == Db!Added(t, keys)
             entry(ok) == [file |-> f, keys |-> keys, done |-> ok]
             left(lock) == LeftOpen(p, lock, new)
             all == Len(new.rows) = Len(t.rows) + Len(keys)
  <1>1. Db!InsertBatch(h, keys) /\ UNCHANGED gone
    BY DEF Db!Insert
  <1>2. /\ IsHandle(p) /\ f \in Databases /\ (p.lock # "none" => p.txn)
        /\ TableSound(t, f, batches) /\ IsSequence(batches) /\ IsSequence(bases)
        /\ \A g \in DOMAIN bases : HandleSound(bases[g], batches)
    BY SeesSound DEF DbInv, HandleSound
  <1>3. \E ok \in BOOLEAN :
           /\ batches' = Append(batches, entry(ok))
           /\ \/ ~ok /\ UNCHANGED <<files, bases>>
              \/ ~ok /\ ~p.txn /\ UNCHANGED files /\ bases' = [bases EXCEPT ![h] = left("none")]
              \/ /\ ~ok /\ ~p.txn /\ t.made /\ UNCHANGED files
                 /\ \E lock : bases' = [bases EXCEPT ![h] = left(lock)]
              \/ /\ ok /\ ~p.txn /\ t.made /\ all /\ UNCHANGED bases
                 /\ files' = [files EXCEPT ![f] = new]
    BY <1>1, Zenon DEF Db!InsertBatch, Db!Done, LeftOpen
  <1>4. PICK ok \in BOOLEAN :
           /\ batches' = Append(batches, entry(ok))
           /\ \/ ~ok /\ UNCHANGED <<files, bases>>
              \/ ~ok /\ ~p.txn /\ UNCHANGED files /\ bases' = [bases EXCEPT ![h] = left("none")]
              \/ /\ ~ok /\ ~p.txn /\ t.made /\ UNCHANGED files
                 /\ \E lock : bases' = [bases EXCEPT ![h] = left(lock)]
              \/ /\ ok /\ ~p.txn /\ t.made /\ all /\ UNCHANGED bases
                 /\ files' = [files EXCEPT ![f] = new]
    BY <1>3
  <1> DEFINE e == entry(ok)
  <1>5. e.file = f /\ e.keys = keys /\ e.done = ok
    OBVIOUS
  <1>6. /\ files = [g \in Databases |-> files[g]]
        /\ \A g \in Databases : TableSound(files[g], g, batches)
        /\ \A g \in Databases : TableSound(files[g], g, Append(batches, e))
    BY <1>2, TableKept DEF DbInv
  <1>7. \A g \in DOMAIN bases : HandleSound(bases[g], Append(batches, e))
    BY <1>2, HandleKept
  <1>8. t.made => /\ TableSound(new, f, Append(batches, e))
                  /\ all => PairsOf(new.rows) =
                                PairsOf(t.rows) \cup {<<k, Len(batches) + 1>> : k \in ToSet(keys)}
    <2> HIDE DEF t, e, f
    <2> QED
      BY <1>2, <1>5, AddedToTable
  <1>9. ~p.txn => t = files[f]
    BY <1>2 DEF Db!Sees
  <1>10. ASSUME NEW lock, lock # "none" => t.made PROVE HandleSound(left(lock), Append(batches, e))
    <2> DEFINE q == left(lock)
    <2>1. IsHandle(q) /\ q.file = f /\ q.lock = lock /\ q.txn /\ q.mine = new
      <3> HIDE DEF new, p
      <3> QED
        BY <1>2, HandleLeftOpen
    <2> HIDE DEF q, new, p, f, e
    <2>2. HandleSound(q, Append(batches, e))
      BY <1>2, <1>8, <1>10, <2>1 DEF HandleSound
    <2> QED
      BY <2>2 DEF q
  <1>11. batches' = Append(batches, e)
    BY <1>4
  <1> HIDE DEF e, new, t, f, p
  <1>12. ASSUME ~ok, UNCHANGED files, IsSequence(bases'),
                \A g \in DOMAIN bases' : HandleSound(bases'[g], Append(batches, e))
         PROVE  DbInv'
    <2>1. /\ files' = [g \in Databases |-> files'[g]]
          /\ \A g \in Databases : TableSound(files'[g], g, batches')
          /\ \A g \in Databases : PairsOf(files'[g].rows) = PairsOf(files[g].rows)
      BY <1>6, <1>11, <1>12
    <2> QED
      BY <1>1, <1>2, <1>5, <1>11, <1>12, <2>1, BatchMore
  <1>13. ASSUME NEW lock, lock # "none" => t.made, ~ok, UNCHANGED files,
                bases' = [bases EXCEPT ![h] = left(lock)]
         PROVE  DbInv'
    <2>1. HandleSound(left(lock), Append(batches, e))
      BY <1>10, <1>13
    <2> HIDE DEF left
    <2>2. /\ IsSequence(bases')
          /\ \A g \in DOMAIN bases' : HandleSound(bases'[g], Append(batches, e))
      BY <1>2, <1>7, <1>13, <2>1, HandlesKept
    <2> QED
      BY <1>12, <1>13, <2>2
  <1>14. CASE ok /\ ~p.txn /\ t.made /\ all /\ UNCHANGED bases /\ files' = [files EXCEPT ![f] = new]
    <2>1. files' = [g \in Databases |-> IF g = f THEN new ELSE files[g]]
      BY <1>6, <1>14
    <2>2. /\ files' = [g \in Databases |-> files'[g]]
          /\ \A g \in Databases : TableSound(files'[g], g, batches')
      BY <1>6, <1>8, <1>11, <1>14, <2>1
    <2>3. PairsOf(new.rows) = PairsOf(files[f].rows) \cup {<<k, Len(batches) + 1>> : k \in ToSet(keys)}
      BY <1>8, <1>9, <1>14
    <2>4. \A g \in Databases : PairsOf(files'[g].rows) =
             PairsOf(files[g].rows)
                \cup IF e.done /\ g = e.file THEN {<<k, Len(batches) + 1>> : k \in ToSet(e.keys)} ELSE {}
      BY <1>2, <1>5, <1>14, <2>1, <2>3
    <2>5. /\ IsSequence(bases')
          /\ \A g \in DOMAIN bases' : HandleSound(bases'[g], batches')
      BY <1>2, <1>7, <1>11, <1>14
    <2> QED
      BY <1>1, <1>2, <1>5, <1>11, <2>2, <2>4, <2>5, BatchMore
  <1>15. CASE ~ok /\ UNCHANGED <<files, bases>>
    BY <1>2, <1>7, <1>12, <1>15
  <1> QED
    BY <1>4, <1>13, <1>14, <1>15

LEMMA CloseDbKeeps ==
    ASSUME DbInv, NEW h \in DOMAIN bases, Db!Close(h)
    PROVE  DbInv'
  <1> DEFINE p == bases[h]
             q1 == [p EXCEPT !.listed = FALSE]
             q2 == [p EXCEPT !.listed = FALSE, !.live = FALSE, !.lock = "none", !.txn = FALSE]
  <1>1. /\ UNCHANGED <<files, batches, gone>>
        /\ bases' = [bases EXCEPT ![h] = q1] \/ bases' = [bases EXCEPT ![h] = q2]
    BY Zenon DEF Db!Close
  <1>2. /\ HandleSound(p, batches) /\ IsSequence(bases)
        /\ \A g \in DOMAIN bases : HandleSound(bases[g], batches)
    BY DEF DbInv
  <1>3. HandleSound(q1, batches) /\ HandleSound(q2, batches)
    <2> HIDE DEF p
    <2>1. IsHandle(p) /\ p.file \in Databases /\ (p.lock # "none" => p.txn /\ TableSound(p.mine, p.file, batches))
      BY <1>2 DEF HandleSound
    <2>2. q1 = HandleOf(p.file, FALSE, p.live, p.lock, p.txn, p.mine)
      BY <2>1, HandleUnlisted, Zenon
    <2>3. q2 = HandleOf(p.file, FALSE, FALSE, "none", FALSE, p.mine)
      BY <2>1, HandleClosed, Zenon
    <2> HIDE DEF q1, q2
    <2>4. IsHandle(q1) /\ q1.file = p.file /\ q1.lock = p.lock /\ q1.txn = p.txn /\ q1.mine = p.mine
      BY <2>2 DEF IsHandle, HandleOf
    <2>5. IsHandle(q2) /\ q2.file = p.file /\ q2.lock = "none"
      BY <2>3 DEF IsHandle, HandleOf
    <2> QED
      BY <2>1, <2>4, <2>5 DEF HandleSound
  <1> HIDE DEF p, q1, q2
  <1>4. IsSequence(bases') /\ \A g \in DOMAIN bases' : HandleSound(bases'[g], batches)
    BY <1>1, <1>2, <1>3, HandlesKept
  <1> QED
    BY <1>1, <1>4 DEF DbInv

LEMMA DbInvInit == Db!Init => DbInv
  <1> SUFFICES ASSUME Db!Init PROVE DbInv
    OBVIOUS
  <1>1. /\ files = [f \in Databases |-> [made |-> f \in Existing, rows |-> << >>]]
        /\ bases = << >> /\ batches = << >> /\ gone = {}
    BY DEF Db!Init
  <1>2. IsSequence(<< >>) /\ DOMAIN << >> = {} /\ ToSet(<< >>) = {}
    BY EmptyIsSequence DEF ToSet
  <1>3. \A f \in Databases : TableSound(files[f], f, batches)
    BY <1>1, <1>2 DEF TableSound
  <1> QED
    BY <1>1, <1>2, <1>3 DEF DbInv

LEMMA DbInvNext == DbInv /\ [Db!Next]_dbVars => DbInv'
  <1> SUFFICES ASSUME DbInv, [Db!Next]_dbVars PROVE DbInv'
    OBVIOUS
  <1>1. CASE UNCHANGED <<files, bases, batches, gone>>
    BY <1>1 DEF DbInv
  <1>2. CASE \E h \in DOMAIN bases, keys \in Batches : Db!Insert(h, keys)
    <2>1. PICK h \in DOMAIN bases, keys \in Batches : Db!Insert(h, keys)
      BY <1>2
    <2>2. IsSequence(keys) /\ ToSet(keys) \subseteq DbKeys
      BY DbAssumption, SequenceOf DEF DbKeys
    <2> QED
      BY <2>1, <2>2, InsertKeeps
  <1>3. CASE \E f \in Databases, ok \in BOOLEAN : Db!Open(f, ok)
    BY <1>3, OpenDbKeeps
  <1>4. CASE \E h \in DOMAIN bases : Db!Create(h)
    BY <1>4, CreateKeeps
  <1>5. CASE \E h \in DOMAIN bases, c \in Conds : Db!Delete(h, c)
    BY <1>5, DeleteKeeps
  <1>6. CASE \E h \in DOMAIN bases, c \in Conds : Db!Update(h, c)
    BY <1>6, UpdateKeeps
  <1>7. CASE \E h \in DOMAIN bases, ask \in Asks : Db!Find(h, ask)
    BY <1>1, <1>7 DEF Db!Find
  <1>8. CASE \E h \in DOMAIN bases, ask \in Asks : Db!FindAndFetch(h, ask)
    BY <1>1, <1>8 DEF Db!FindAndFetch
  <1>9. CASE \E c \in cursors, again \in BOOLEAN : Db!Fetch(c, again)
    BY <1>1, <1>9 DEF Db!Fetch
  <1>10. CASE \E c \in cursors : Db!FetchUnknown(c)
    BY <1>1, <1>10 DEF Db!FetchUnknown
  <1>11. CASE \E h \in DOMAIN bases : Db!Close(h)
    BY <1>11, CloseDbKeeps
  <1>12. CASE UNCHANGED dbVars
    BY <1>1, <1>12 DEF dbVars
  <1> QED
    BY <1>2, <1>3, <1>4, <1>5, <1>6, <1>7, <1>8, <1>9, <1>10, <1>11, <1>12, Zenon DEF Db!Next

\* An insert is whole or not at all: of a batch that failed no row is ever committed, and of one
\* that was done every row stays until a delete of it is committed (BatchesWhole; extDbOperate,
\* db_sqlite_build_insert).
THEOREM BatchesAlwaysWhole == Db!Spec => []BatchesWhole
  <1>1. DbInv => BatchesWhole
    <2> SUFFICES ASSUME DbInv, NEW b \in DOMAIN batches
                 PROVE  LET In == {r.k : r \in {x \in Db!ToSet(files[batches[b].file].rows) : x.b = b}}
                        IN  IF batches[b].done
                            THEN In = {k \in Db!ToSet(batches[b].keys) : <<k, b>> \notin gone}
                            ELSE In = {}
      BY Zenon DEF BatchesWhole, Db!BatchesWhole
    <2> DEFINE rows == files[batches[b].file].rows
               In == {r.k : r \in {x \in ToSet(rows) : x.b = b}}
    <2>1. \A k : k \in In <=> <<k, b>> \in PairsOf(rows)
      BY DEF PairsOf
    <2>2. BatchSound(b, batches, files[batches[b].file], gone)
      BY DEF DbInv
    <2> HIDE DEF In
    <2>3. IF batches[b].done THEN In = {k \in ToSet(batches[b].keys) : <<k, b>> \notin gone} ELSE In = {}
      BY <2>1, <2>2 DEF BatchSound
    <2> QED
      BY <2>3 DEF In, ToSet, Db!ToSet
  <1> QED
    BY <1>1, DbInvInit, DbInvNext, PTL DEF Db!Spec, Db!vars, dbVars

\* The elements of s from m to n.
Part(s, m, n) == {s[i] : i \in m .. n}

LEMMA PartOfSequence ==
    ASSUME NEW s, IsSequence(s), NEW m \in Nat \ {0}, NEW n \in Nat, n <= Len(s)
    PROVE  IsSequence(SubSeq(s, m, n)) /\ ToSet(SubSeq(s, m, n)) = Part(s, m, n)
  <1> DEFINE t == SubSeq(s, m, n)
             k == IF m <= n THEN n - m + 1 ELSE 0
  <1>1. Len(s) \in Nat /\ ToSet(s) = {s[i] : i \in 1 .. Len(s)}
    BY SequenceFacts
  <1>2. \A i \in m .. n : s[i] \in ToSet(s)
    BY <1>1
  <1>3. t \in Seq(ToSet(s)) /\ Len(t) = k /\ \A i \in 1 .. n - m + 1 : t[i] = s[m + i - 1]
    BY <1>2, SubSeqProperties
  <1> HIDE DEF t
  <1>4. IsSequence(t) /\ ToSet(t) = {t[i] : i \in 1 .. k}
    BY <1>3, SequenceOf
  <1>5. {t[i] : i \in 1 .. k} \subseteq {s[i] : i \in m .. n}
    <2> SUFFICES ASSUME NEW i \in 1 .. k PROVE t[i] \in {s[j] : j \in m .. n}
      OBVIOUS
    <2>1. i \in 1 .. n - m + 1 /\ m + i - 1 \in m .. n
      OBVIOUS
    <2> QED
      BY <1>3, <2>1
  <1>6. {s[i] : i \in m .. n} \subseteq {t[i] : i \in 1 .. k}
    <2> SUFFICES ASSUME NEW i \in m .. n PROVE s[i] \in {t[j] : j \in 1 .. k}
      OBVIOUS
    <2>1. i - m + 1 \in 1 .. n - m + 1 /\ i - m + 1 \in 1 .. k /\ m + (i - m + 1) - 1 = i
      OBVIOUS
    <2> QED
      BY <1>3, <2>1
  <1> QED
    BY <1>4, <1>5, <1>6 DEF t, Part

LEMMA OneIsSequence == ASSUME NEW e PROVE IsSequence(<<e>>) /\ Len(<<e>>) = 1 /\ ToSet(<<e>>) = {e}
  <1>1. <<e>> \in Seq({e}) /\ Len(<<e>>) = 1 /\ <<e>>[1] = e
    OBVIOUS
  <1>2. IsSequence(<<e>>) /\ ToSet(<<e>>) = {<<e>>[i] : i \in 1 .. Len(<<e>>)}
    BY <1>1, SequenceOf
  <1> QED
    BY <1>1, <1>2

\* A row put among others.
LEMMA SortedHasAll ==
    ASSUME NEW rows, IsSequence(rows), NEW row, NEW how
    PROVE  /\ IsSequence(Db!Sorted(rows, row, how))
           /\ ToSet(Db!Sorted(rows, row, how)) = ToSet(rows) \cup {row}
  <1> DEFINE S == {i \in DOMAIN rows : Db!Before(rows[i], row, how)}
             n == Cardinality(S)
             a == SubSeq(rows, 1, n)
             b == SubSeq(rows, n + 1, Len(rows))
  <1>1. Len(rows) \in Nat /\ DOMAIN rows = 1 .. Len(rows) /\ ToSet(rows) = {rows[i] : i \in 1 .. Len(rows)}
    BY SequenceFacts
  <1>2. n \in Nat /\ n <= Len(rows)
    <2> HIDE DEF S
    <2>1. S \subseteq 1 .. Len(rows)
      BY <1>1 DEF S
    <2>2. IsFiniteSet(1 .. Len(rows)) /\ Cardinality(1 .. Len(rows)) = Len(rows)
      <3> DEFINE k == Len(rows)
      <3>1. k \in Nat
        BY <1>1
      <3> HIDE DEF k
      <3>2. IsFiniteSet(1 .. k) /\ Cardinality(1 .. k) = IF 1 > k THEN 0 ELSE k - 1 + 1
        BY <3>1, FS_Interval
      <3>3. (IF 1 > k THEN 0 ELSE k - 1 + 1) = k
        BY <3>1
      <3> QED
        BY <3>2, <3>3 DEF k
    <2>3. IsFiniteSet(S) /\ Cardinality(S) <= Cardinality(1 .. Len(rows))
      BY <2>1, <2>2, FS_Subset
    <2> QED
      BY <2>2, <2>3, FS_CardinalityType
  <1>3. Db!Sorted(rows, row, how) = (a \o <<row>>) \o b
    BY Zenon DEF Db!Sorted, Db!Cardinality, Cardinality
  <1> HIDE DEF n
  <1>4. /\ IsSequence(a) /\ ToSet(a) = {rows[i] : i \in 1 .. n}
        /\ IsSequence(b) /\ ToSet(b) = {rows[i] : i \in n + 1 .. Len(rows)}
    <2>1. IsSequence(a) /\ ToSet(a) = Part(rows, 1, n)
      BY <1>2, PartOfSequence
    <2>2. IsSequence(b) /\ ToSet(b) = {rows[i] : i \in n + 1 .. Len(rows)}
      <3> DEFINE m == n + 1
      <3>1. m \in Nat \ {0}
        BY <1>2
      <3> HIDE DEF m
      <3>2. /\ IsSequence(SubSeq(rows, m, Len(rows)))
            /\ ToSet(SubSeq(rows, m, Len(rows))) = Part(rows, m, Len(rows))
        BY <1>1, <3>1, PartOfSequence
      <3> QED
        BY <3>2 DEF m, Part
    <2> QED
      BY <2>1, <2>2 DEF Part
  <1>5. ToSet(a) \cup ToSet(b) = ToSet(rows)
    BY <1>1, <1>2, <1>4
  <1> HIDE DEF a, b
  <1>6. IsSequence(a \o <<row>>) /\ ToSet(a \o <<row>>) = ToSet(a) \cup {row}
    BY <1>4, OneIsSequence, ConcatIsSequence
  <1>7. IsSequence((a \o <<row>>) \o b) /\ ToSet((a \o <<row>>) \o b) = ToSet(a) \cup {row} \cup ToSet(b)
    BY <1>4, <1>6, ConcatIsSequence
  <1> QED
    BY <1>3, <1>5, <1>7

\* What a find hits is what its conditions select.
LEMMA HitsAreSelected ==
    ASSUME NEW rows, IsSequence(rows), NEW ask
    PROVE  /\ IsSequence(Db!Hits(rows, ask))
           /\ ToSet(Db!Hits(rows, ask)) = {r \in ToSet(rows) : Selects(ask.cond, r.k, r.v)}
  <1> DEFINE n == Len(rows)
             Hit(s, i) == IF Selects(ask.cond, rows[i].k, rows[i].v)
                          THEN Db!Sorted(s, rows[i], ask.sort) ELSE s
             Made(m, f) == f = [i \in 0 .. m |-> IF i = 0 THEN << >> ELSE Hit(f[i - 1], i)]
             hits == CHOOSE f : Made(n, f)
             Reached == {m \in Nat : \E f : Made(m, f)}
             Chosen(m) == {rows[i] : i \in {j \in 1 .. m : Selects(ask.cond, rows[j].k, rows[j].v)}}
             K == {m \in Nat : m <= n => IsSequence(hits[m]) /\ ToSet(hits[m]) = Chosen(m)}
  <1>0. n \in Nat /\ ToSet(rows) = {rows[i] : i \in 1 .. n}
    BY SequenceFacts
  <1>1. 0 \in Reached
    <2>1. Made(0, [i \in 0 .. 0 |-> << >>])
      OBVIOUS
    <2> HIDE DEF Made
    <2> QED
      BY <2>1
  <1>2. ASSUME NEW m \in Nat, m \in Reached PROVE m + 1 \in Reached
    <2>1. PICK f : Made(m, f)
      BY <1>2
    <2> DEFINE g == [i \in 0 .. (m + 1) |-> IF i = 0 THEN << >> ELSE Hit(f[i - 1], i)]
    <2> HIDE DEF Hit
    <2>2. \A i \in 0 .. m : g[i] = f[i]
      BY <2>1
    <2>3. ASSUME NEW i \in 0 .. (m + 1)
          PROVE  g[i] = IF i = 0 THEN << >> ELSE Hit(g[i - 1], i)
      <3>1. i # 0 => i - 1 \in 0 .. m
        OBVIOUS
      <3> QED
        BY <2>2, <3>1
    <2>4. g = [i \in 0 .. (m + 1) |-> g[i]]
      OBVIOUS
    <2> HIDE DEF g
    <2>5. Made(m + 1, g)
      BY <2>3, <2>4
    <2> HIDE DEF Made
    <2> QED
      BY <2>5
  <1>3. Made(n, hits)
    <2> HIDE DEF Reached, Made
    <2>1. n \in Reached
      BY <1>0, <1>1, <1>2, SetInduction
    <2> QED
      BY <2>1 DEF Reached
  <1>4. Db!Hits(rows, ask) = hits[n]
    BY Zenon DEF Db!Hits
  <1> HIDE DEF hits, Hit
  <1>5. 0 \in K
    <2>1. hits[0] = << >>
      BY <1>0, <1>3
    <2>2. Chosen(0) = {}
      OBVIOUS
    <2> QED
      BY <2>1, <2>2, EmptyIsSequence
  <1>6. ASSUME NEW m \in Nat, m \in K PROVE m + 1 \in K
    <2> SUFFICES ASSUME m + 1 <= n
                 PROVE  IsSequence(hits[m + 1]) /\ ToSet(hits[m + 1]) = Chosen(m + 1)
      OBVIOUS
    <2>1. m + 1 \in 0 .. n /\ m + 1 # 0 /\ (m + 1) - 1 = m /\ m <= n
      BY <1>0
    <2>2. IsSequence(hits[m]) /\ ToSet(hits[m]) = Chosen(m)
      BY <1>6, <2>1
    <2>3. hits[m + 1] = Hit(hits[m], m + 1)
      <3> HIDE DEF Chosen
      <3> QED
        BY <1>3, <2>1
    <2>4. Chosen(m + 1) = Chosen(m) \cup IF Selects(ask.cond, rows[m + 1].k, rows[m + 1].v)
                                         THEN {rows[m + 1]} ELSE {}
      <3>1. 1 .. m + 1 = (1 .. m) \cup {m + 1}
        OBVIOUS
      <3> QED
        BY <3>1
    <2> HIDE DEF Chosen
    <2>5. CASE Selects(ask.cond, rows[m + 1].k, rows[m + 1].v)
      <3>1. hits[m + 1] = Db!Sorted(hits[m], rows[m + 1], ask.sort)
        BY <2>3, <2>5 DEF Hit
      <3> DEFINE t == hits[m]
                 row == rows[m + 1]
                 how == ask.sort
      <3>2. IsSequence(t)
        BY <2>2
      <3> HIDE DEF t, row, how
      <3>3. IsSequence(Db!Sorted(t, row, how)) /\ ToSet(Db!Sorted(t, row, how)) = ToSet(t) \cup {row}
        BY <3>2, SortedHasAll
      <3> QED
        BY <2>2, <2>4, <2>5, <3>1, <3>3 DEF t, row, how
    <2>6. CASE ~Selects(ask.cond, rows[m + 1].k, rows[m + 1].v)
      BY <2>2, <2>3, <2>4, <2>6 DEF Hit
    <2> QED
      BY <2>5, <2>6
  <1> HIDE DEF K, Chosen
  <1>7. n \in K
    BY <1>0, <1>5, <1>6, SetInduction
  <1>8. Chosen(n) = {r \in ToSet(rows) : Selects(ask.cond, r.k, r.v)}
    BY <1>0 DEF Chosen
  <1> QED
    BY <1>0, <1>4, <1>7, <1>8 DEF K

\* What a find returns is of its hits, and all of them without a limit.
LEMMA ResultIsOfHits ==
    ASSUME NEW rows, IsSequence(rows), NEW ask, ask.limit \in Nat, ask.skip \in Nat
    PROVE  /\ IsSequence(Db!Result(rows, ask))
           /\ \A r \in ToSet(Db!Result(rows, ask)) :
                 r \in ToSet(rows) /\ Selects(ask.cond, r.k, r.v)
           /\ ask.limit = 0 /\ ask.skip = 0 =>
                 \A r \in ToSet(rows) :
                    Selects(ask.cond, r.k, r.v) => r \in ToSet(Db!Result(rows, ask))
  <1> DEFINE hits == Db!Hits(rows, ask)
             n == Len(hits)
             upto == IF ask.limit = 0 THEN n ELSE Db!Min({n, ask.skip + ask.limit})
  <1>1. IsSequence(hits) /\ ToSet(hits) = {r \in ToSet(rows) : Selects(ask.cond, r.k, r.v)}
    BY HitsAreSelected
  <1>2. Db!Result(rows, ask) = SubSeq(hits, ask.skip + 1, upto)
    BY Zenon DEF Db!Result
  <1> HIDE DEF hits
  <1>3. n \in Nat /\ ToSet(hits) = {hits[i] : i \in 1 .. n}
    BY <1>1, SequenceFacts
  <1>4. upto \in Nat /\ upto <= n
    <2> DEFINE m == ask.skip + ask.limit
    <2>1. m \in Nat
      OBVIOUS
    <2> HIDE DEF n, m
    <2>2. Db!Min({n, m}) \in {n, m} /\ \A y \in {n, m} : Db!Min({n, m}) <= y
      <3>1. \E x \in {n, m} : \A y \in {n, m} : x <= y
        BY <1>3, <2>1
      <3> QED
        BY <3>1 DEF Db!Min
    <2> QED
      BY <1>3, <2>1, <2>2 DEF m
  <1> HIDE DEF upto
  <1>5. /\ IsSequence(Db!Result(rows, ask))
        /\ ToSet(Db!Result(rows, ask)) = {hits[i] : i \in ask.skip + 1 .. upto}
    <2> DEFINE m == ask.skip + 1
    <2>1. m \in Nat \ {0}
      OBVIOUS
    <2>0. upto \in Nat /\ upto <= Len(hits)
      BY <1>4
    <2> HIDE DEF m, n
    <2>2. /\ IsSequence(SubSeq(hits, m, upto))
          /\ ToSet(SubSeq(hits, m, upto)) = Part(hits, m, upto)
      BY <1>1, <2>0, <2>1, PartOfSequence
    <2> QED
      BY <1>2, <2>2 DEF m, Part
  <1>6. {hits[i] : i \in ask.skip + 1 .. upto} \subseteq ToSet(hits)
    BY <1>3, <1>4
  <1>7. ask.limit = 0 /\ ask.skip = 0 => ToSet(Db!Result(rows, ask)) = ToSet(hits)
    BY <1>3, <1>5 DEF upto
  <1> QED
    BY <1>1, <1>5, <1>6, <1>7

LEMMA RemovedFromSequence ==
    ASSUME NEW s, IsSequence(s), NEW i \in 1 .. Len(s)
    PROVE  IsSequence(Db!RemoveAt(s, i)) /\ ToSet(Db!RemoveAt(s, i)) \subseteq ToSet(s)
  <1> DEFINE a == SubSeq(s, 1, i - 1)
             b == SubSeq(s, i + 1, Len(s))
  <1>1. Len(s) \in Nat /\ ToSet(s) = {s[j] : j \in 1 .. Len(s)}
    BY SequenceFacts
  <1>2. IsSequence(a) /\ ToSet(a) = Part(s, 1, i - 1)
    BY <1>1, PartOfSequence
  <1>3. IsSequence(b) /\ ToSet(b) = Part(s, i + 1, Len(s))
    BY <1>1, PartOfSequence
  <1>4. Db!RemoveAt(s, i) = a \o b
    BY DEF Db!RemoveAt
  <1>5. ToSet(a) \subseteq ToSet(s) /\ ToSet(b) \subseteq ToSet(s)
    BY <1>1, <1>2, <1>3 DEF Part
  <1> HIDE DEF a, b
  <1>6. IsSequence(a \o b) /\ ToSet(a \o b) = ToSet(a) \cup ToSet(b)
    BY <1>2, <1>3, ConcatIsSequence
  <1> QED
    BY <1>4, <1>5, <1>6

LEMMA HeadAndTail ==
    ASSUME NEW s, IsSequence(s), s # << >>
    PROVE  Head(s) \in ToSet(s) /\ IsSequence(Tail(s)) /\ ToSet(Tail(s)) \subseteq ToSet(s)
  <1>1. s \in Seq(ToSet(s))
    <2>1. s \in [1 .. Len(s) -> ToSet(s)] /\ Len(s) \in Nat
      BY SequenceFacts, LenProperties DEF IsSequence
    <2> QED
      BY <2>1, SeqDef
  <1>2. Head(s) \in ToSet(s) /\ Tail(s) \in Seq(ToSet(s))
    BY <1>1, HeadTailProperties
  <1> DEFINE t == Tail(s)
  <1>3. IsSequence(t) /\ \A i \in 1 .. Len(t) : t[i] \in ToSet(s)
    <2> HIDE DEF t
    <2> QED
      BY <1>2, SequenceOf, LenProperties DEF t
  <1>4. ToSet(t) = {t[i] : i \in 1 .. Len(t)}
    BY <1>3, SequenceFacts
  <1> QED
    BY <1>2, <1>3, <1>4

-----------------------------------------------------------------------------
(* Statements, cursors and answers of db: *)

\* A row of the database of handle h, and one that a find asked for.
RowFor(r, h, ask, tried, opened) ==
    /\ h \in DOMAIN opened /\ r.b \in DOMAIN tried /\ tried[r.b].file = opened[h].file
    /\ Plain(ask.cond) => Meant(ask.cond, r.k, r.v)

IsStmt(s) ==
    s = [name |-> s.name, owner |-> s.owner, ask |-> s.ask, active |-> s.active, rest |-> s.rest]

StmtSound(s, tried, opened, n) ==
    /\ IsStmt(s) /\ s.name \in 1 .. n /\ s.owner \in DOMAIN opened
    /\ s.ask \in Asks /\ Accepts(s.ask.cond)
    /\ IsSequence(s.rest) /\ \A r \in ToSet(s.rest) : RowFor(r, s.owner, s.ask, tried, opened)

\* A statement that has the name of a cursor is the one the cursor was made for.
StmtInv ==
    /\ named \in Nat /\ IsSequence(stmts)
    /\ \A s \in ToSet(stmts) : StmtSound(s, batches, bases, named)
    /\ \A c \in cursors : c.name \in 1 .. named /\ c.handle \in DOMAIN bases
    /\ \A c \in cursors, s \in ToSet(stmts) : s.name = c.name => s.owner = c.handle /\ s.ask = c.ask

AnswerInv ==
    /\ IsSequence(answer.rows)
    /\ \A r \in ToSet(answer.rows) :
          RowFor(r, answer.cursor.handle, answer.cursor.ask, batches, bases)
    /\ Db!AllRowsFound

\* Batches and handles come to be more; a handle keeps its file.
Grown(tried, later, opened, open) ==
    /\ \A b \in DOMAIN tried : b \in DOMAIN later /\ later[b] = tried[b]
    /\ \A h \in DOMAIN opened : h \in DOMAIN open /\ open[h].file = opened[h].file

LEMMA RowKept ==
    ASSUME NEW tried, NEW later, NEW opened, NEW open, Grown(tried, later, opened, open),
           NEW r, NEW h, NEW ask, RowFor(r, h, ask, tried, opened)
    PROVE  RowFor(r, h, ask, later, open)
  BY DEF RowFor, Grown

LEMMA StmtKept ==
    ASSUME NEW tried, NEW later, NEW opened, NEW open, Grown(tried, later, opened, open),
           NEW n \in Nat, NEW m \in Nat, n <= m, NEW s, StmtSound(s, tried, opened, n)
    PROVE  StmtSound(s, later, open, m)
  <1>1. /\ IsStmt(s) /\ s.name \in 1 .. n /\ s.owner \in DOMAIN opened
        /\ s.ask \in Asks /\ Accepts(s.ask.cond) /\ IsSequence(s.rest)
        /\ \A r \in ToSet(s.rest) : RowFor(r, s.owner, s.ask, tried, opened)
    BY DEF StmtSound
  <1>2. s.name \in 1 .. m /\ s.owner \in DOMAIN open
    BY <1>1 DEF Grown
  <1>3. \A r \in ToSet(s.rest) : RowFor(r, s.owner, s.ask, later, open)
    BY <1>1, RowKept
  <1> QED
    BY <1>1, <1>2, <1>3 DEF StmtSound

LEMMA StaysGrown == ASSUME UNCHANGED <<batches, bases>> PROVE Grown(batches, batches', bases, bases')
  BY DEF Grown

LEMMA OneHandleGrown ==
    ASSUME IsSequence(bases), NEW h \in DOMAIN bases, NEW p, p.file = bases[h].file,
           bases' = [bases EXCEPT ![h] = p], UNCHANGED batches
    PROVE  Grown(batches, batches', bases, bases')
  <1>1. Len(bases) \in Nat /\ DOMAIN bases = 1 .. Len(bases)
    BY SequenceFacts
  <1>2. bases = [g \in 1 .. Len(bases) |-> bases[g]]
    BY <1>1, SequenceFacts, LenProperties DEF IsSequence
  <1>3. bases' = [g \in 1 .. Len(bases) |-> IF g = h THEN p ELSE bases[g]]
    BY <1>1, <1>2
  <1> QED
    BY <1>1, <1>3 DEF Grown

LEMMA WritesGrown ==
    ASSUME DbInv, NEW h \in DOMAIN bases, NEW new, Db!Writes(h, new), UNCHANGED batches
    PROVE  Grown(batches, batches', bases, bases') /\ answer' = Db!NoAnswer
  <1> DEFINE p == bases[h]
             lock == IF p.lock = "none" THEN "reserved" ELSE p.lock
             q == [p EXCEPT !.lock = lock, !.mine = new]
  <1>1. answer' = Db!NoAnswer /\ (UNCHANGED bases \/ bases' = [bases EXCEPT ![h] = q])
    BY Zenon DEF Db!Writes, Db!NoRows
  <1>2. IsHandle(p) /\ IsSequence(bases)
    BY DEF DbInv, HandleSound
  <1> HIDE DEF lock, p
  <1>3. q = HandleOf(p.file, p.listed, p.live, lock, p.txn, new)
    BY <1>2, HandleWorks, Zenon
  <1> HIDE DEF q
  <1>4. q.file = p.file
    BY <1>3 DEF HandleOf
  <1> QED
    BY <1>1, <1>2, <1>4, OneHandleGrown, StaysGrown DEF p

\* A step that touches neither statements nor cursors and answers nothing.
LEMMA QuietStep ==
    ASSUME StmtInv, Grown(batches, batches', bases, bases'), UNCHANGED <<stmts, named, cursors>>,
           answer' = Db!NoAnswer
    PROVE  StmtInv' /\ AnswerInv'
  <1>1. AnswerInv'
    BY EmptyIsSequence DEF AnswerInv, Db!NoAnswer, Db!AllRowsFound
  <1>2. \A s \in ToSet(stmts) : StmtSound(s, batches', bases', named)
    BY StmtKept DEF StmtInv
  <1>3. \A c \in cursors : c.handle \in DOMAIN bases'
    BY DEF StmtInv, Grown
  <1> QED
    BY <1>1, <1>2, <1>3 DEF StmtInv

LEMMA OpenAnswers ==
    ASSUME DbInv, StmtInv, NEW f \in Databases, NEW ok, Db!Open(f, ok)
    PROVE  StmtInv' /\ AnswerInv'
  <1>1. \E p : bases' = Append(bases, p)
    BY Zenon DEF Db!Open
  <1>2. PICK p : bases' = Append(bases, p)
    BY <1>1
  <1>3. /\ IsSequence(bases) /\ Len(bases) \in Nat /\ DOMAIN bases = 1 .. Len(bases)
    BY SequenceFacts DEF DbInv
  <1>4. /\ IsSequence(bases') /\ Len(bases') = Len(bases) + 1
        /\ \A h \in 1 .. Len(bases) : bases'[h] = bases[h]
    BY <1>2, <1>3, AppendIsSequence
  <1>5. DOMAIN bases' = 1 .. Len(bases) + 1
    BY <1>4, SequenceFacts
  <1>6. /\ UNCHANGED <<stmts, named, cursors, batches>> /\ answer' = Db!NoAnswer
    BY DEF Db!Open, Db!NoRows
  <1>7. Grown(batches, batches', bases, bases')
    BY <1>3, <1>4, <1>5, <1>6 DEF Grown
  <1> QED
    BY <1>6, <1>7, QuietStep

LEMMA WriteAnswers ==
    ASSUME DbInv, StmtInv, NEW h \in DOMAIN bases, NEW cond,
           Db!Create(h) \/ Db!Delete(h, cond) \/ Db!Update(h, cond)
    PROVE  StmtInv' /\ AnswerInv'
  <1>1. UNCHANGED <<stmts, named, cursors, batches>>
    BY DEF Db!Create, Db!Delete, Db!Update
  <1>2. Db!Refused \/ \E new : Db!Writes(h, new)
    BY Zenon DEF Db!Create, Db!Delete, Db!Update
  <1>3. CASE Db!Refused
    BY <1>1, <1>3, StaysGrown, QuietStep DEF Db!Refused, Db!NoRows
  <1>4. CASE \E new : Db!Writes(h, new)
    BY <1>1, <1>4, WritesGrown, QuietStep
  <1> QED
    BY <1>2, <1>3, <1>4

LEMMA InsertAnswers ==
    ASSUME DbInv, StmtInv, NEW h \in DOMAIN bases, NEW keys, Db!Insert(h, keys)
    PROVE  StmtInv' /\ AnswerInv'
  <1> DEFINE p == bases[h]
  <1>1. /\ UNCHANGED <<stmts, named, cursors>> /\ answer' = Db!NoAnswer
        /\ \E e : batches' = Append(batches, e)
    <2>1. UNCHANGED <<stmts, named, cursors>> /\ Db!InsertBatch(h, keys)
      BY DEF Db!Insert
    <2>2. \E ok \in BOOLEAN : Db!Done(h, keys, ok)
      BY <2>1, Zenon DEF Db!InsertBatch
    <2> QED
      BY <2>1, <2>2, Zenon DEF Db!Done, Db!NoRows
  <1>2. UNCHANGED bases \/ \E lock, mine : bases' = [bases EXCEPT ![h] = LeftOpen(p, lock, mine)]
    BY Zenon DEF Db!Insert, Db!InsertBatch, LeftOpen
  <1>3. /\ IsSequence(batches) /\ Len(batches) \in Nat /\ DOMAIN batches = 1 .. Len(batches)
        /\ IsSequence(bases) /\ Len(bases) \in Nat /\ DOMAIN bases = 1 .. Len(bases) /\ IsHandle(p)
    BY SequenceFacts DEF DbInv, HandleSound
  <1>4. \A b \in DOMAIN batches : b \in DOMAIN batches' /\ batches'[b] = batches[b]
    <2>1. /\ IsSequence(batches') /\ Len(batches') = Len(batches) + 1
          /\ \A b \in 1 .. Len(batches) : batches'[b] = batches[b]
      BY <1>1, <1>3, AppendIsSequence
    <2>2. DOMAIN batches' = 1 .. Len(batches) + 1
      BY <2>1, SequenceFacts
    <2> QED
      BY <1>3, <2>1, <2>2
  <1>5. \A g \in DOMAIN bases : g \in DOMAIN bases' /\ bases'[g].file = bases[g].file
    <2>1. CASE UNCHANGED bases
      BY <2>1
    <2>2. CASE \E lock, mine : bases' = [bases EXCEPT ![h] = LeftOpen(p, lock, mine)]
      <3>1. PICK lock, mine : bases' = [bases EXCEPT ![h] = LeftOpen(p, lock, mine)]
        BY <2>2
      <3> DEFINE q == LeftOpen(p, lock, mine)
      <3> HIDE DEF p
      <3>2. q.file = p.file
        BY <1>3, HandleLeftOpen
      <3> HIDE DEF q
      <3>3. bases = [g \in 1 .. Len(bases) |-> bases[g]]
        BY <1>3, LenProperties DEF IsSequence
      <3>4. bases' = [g \in 1 .. Len(bases) |-> IF g = h THEN q ELSE bases[g]]
        BY <1>3, <3>1, <3>3 DEF q
      <3> QED
        BY <1>3, <3>2, <3>4 DEF p
    <2> QED
      BY <1>2, <2>1, <2>2
  <1>6. Grown(batches, batches', bases, bases')
    BY <1>4, <1>5 DEF Grown
  <1> QED
    BY <1>1, <1>6, QuietStep

\* The rows a find hits are of the database it looks at and as it asks.
LEMMA ResultAnswers ==
    ASSUME DbInv, NEW h \in DOMAIN bases, NEW ask \in Asks, Accepts(ask.cond)
    PROVE  LET rows == Db!Result(Db!Sees(h).rows, ask)
           IN  /\ IsSequence(rows)
               /\ \A r \in ToSet(rows) : RowFor(r, h, ask, batches, bases)
               /\ Plain(ask.cond) /\ ask.limit = 0 /\ ask.skip = 0 =>
                     \A r \in ToSet(Db!Sees(h).rows) :
                        Meant(ask.cond, r.k, r.v) => r \in ToSet(rows)
  <1> DEFINE t == Db!Sees(h)
             rows == Db!Result(t.rows, ask)
  <1>1. TableSound(t, bases[h].file, batches)
    BY SeesSound
  <1>2. ask.limit \in Nat /\ ask.skip \in Nat
    BY DbAssumption
  <1> HIDE DEF t
  <1>3. IsSequence(t.rows)
    BY <1>1 DEF TableSound
  <1>4. /\ IsSequence(rows)
        /\ \A r \in ToSet(rows) : r \in ToSet(t.rows) /\ Selects(ask.cond, r.k, r.v)
        /\ ask.limit = 0 /\ ask.skip = 0 =>
              \A r \in ToSet(t.rows) : Selects(ask.cond, r.k, r.v) => r \in ToSet(rows)
    <2> DEFINE all == t.rows
    <2>1. IsSequence(all)
      BY <1>3
    <2> HIDE DEF all
    <2>2. /\ IsSequence(Db!Result(all, ask))
          /\ \A r \in ToSet(Db!Result(all, ask)) : r \in ToSet(all) /\ Selects(ask.cond, r.k, r.v)
          /\ ask.limit = 0 /\ ask.skip = 0 =>
                \A r \in ToSet(all) : Selects(ask.cond, r.k, r.v) => r \in ToSet(Db!Result(all, ask))
      BY <1>2, <2>1, ResultIsOfHits
    <2> QED
      BY <2>2 DEF all
  <1> HIDE DEF rows
  <1>5. \A r \in ToSet(t.rows) : /\ r.k \in DbKeys /\ r.v \in DbValues
                                 /\ r.b \in DOMAIN batches /\ batches[r.b].file = bases[h].file
    BY <1>1 DEF TableSound
  <1>6. Plain(ask.cond) =>
           \A r \in ToSet(t.rows) : Selects(ask.cond, r.k, r.v) <=> Meant(ask.cond, r.k, r.v)
    BY <1>5, DbAssumption
  <1>7. \A r \in ToSet(rows) : RowFor(r, h, ask, batches, bases)
    BY <1>4, <1>5, <1>6 DEF RowFor
  <1>8. Plain(ask.cond) /\ ask.limit = 0 /\ ask.skip = 0 =>
           \A r \in ToSet(t.rows) : Meant(ask.cond, r.k, r.v) => r \in ToSet(rows)
    BY <1>4, <1>6
  <1> QED
    BY <1>4, <1>7, <1>8 DEF rows, t

\* A statement more, with a name that none had, and its cursor.
LEMMA FindStmts ==
    ASSUME StmtInv, NEW h \in DOMAIN bases, NEW ask \in Asks, Accepts(ask.cond),
           UNCHANGED <<batches, bases>>, stmts' = Append(stmts, Db!Statement(h, ask)),
           named' = named + 1, cursors' = cursors \cup {Db!Cursor(h, ask)}
    PROVE  StmtInv'
  <1> DEFINE s == Db!Statement(h, ask)
             c == Db!Cursor(h, ask)
             n == named + 1
  <1>1. /\ IsStmt(s) /\ s.name = n /\ s.owner = h /\ s.ask = ask /\ s.rest = << >>
        /\ c.name = n /\ c.handle = h /\ c.ask = ask
    BY DEF IsStmt, Db!Statement, Db!Cursor, Db!NextName
  <1>2. named \in Nat /\ IsSequence(stmts) /\ n \in Nat /\ named <= n /\ n \in 1 .. n
    BY DEF StmtInv
  <1> HIDE DEF s, c, n
  <1>3. StmtSound(s, batches, bases, n)
    BY <1>1, <1>2, EmptyIsSequence DEF StmtSound
  <1>4. IsSequence(stmts') /\ ToSet(stmts') = ToSet(stmts) \cup {s}
    BY <1>2, AppendIsSequence DEF s
  <1>5. Grown(batches, batches, bases, bases)
    BY DEF Grown
  <1>6. \A x \in ToSet(stmts) : StmtSound(x, batches, bases, n)
    BY <1>2, <1>5, StmtKept DEF StmtInv
  <1>7. \A x \in ToSet(stmts') : StmtSound(x, batches, bases, n)
    BY <1>3, <1>4, <1>6
  <1>8. /\ \A x \in ToSet(stmts) : x.name # n
        /\ \A d \in cursors : d.name # n /\ d.name \in 1 .. n /\ d.handle \in DOMAIN bases
    <2>1. \A i \in 1 .. named : i # n /\ i \in 1 .. n
      BY <1>2 DEF n
    <2> QED
      BY <2>1 DEF StmtInv, StmtSound
  <1>9. cursors' = cursors \cup {c} /\ named' = n
    BY DEF c, n
  <1>10. \A d \in cursors' : d.name \in 1 .. n /\ d.handle \in DOMAIN bases
    BY <1>1, <1>2, <1>8, <1>9
  <1>11. ASSUME NEW d \in cursors', NEW x \in ToSet(stmts'), x.name = d.name
         PROVE  x.owner = d.handle /\ x.ask = d.ask
    <2>1. CASE d = c
      BY <1>1, <1>4, <1>8, <1>11, <2>1
    <2>2. CASE d # c
      <3>1. d \in cursors /\ d.name # n
        BY <1>8, <1>9, <2>2
      <3>2. x \in ToSet(stmts)
        BY <1>1, <1>4, <1>11, <3>1
      <3> QED
        BY <1>11, <3>1, <3>2 DEF StmtInv
    <2> QED
      BY <2>1, <2>2
  <1> QED
    BY <1>2, <1>4, <1>7, <1>9, <1>10, <1>11 DEF StmtInv

LEMMA FindAnswers ==
    ASSUME DbInv, StmtInv, NEW h \in DOMAIN bases, NEW ask \in Asks,
           Db!Find(h, ask) \/ Db!FindAndFetch(h, ask)
    PROVE  StmtInv' /\ AnswerInv'
  <1> DEFINE Prepared == Db!Sees(h).made /\ Db!Prepares(ask)
             Nothing == /\ ~Prepared /\ answer' = Db!NoAnswer /\ UNCHANGED <<stmts, named, cursors>>
             Finds == /\ Prepared /\ stmts' = Append(stmts, Db!Statement(h, ask))
                      /\ named' = named + 1 /\ cursors' = cursors \cup {Db!Cursor(h, ask)}
             Row == answer' = [cursor |-> Db!Cursor(h, ask), whole |-> TRUE,
                               rows |-> Db!Result(Db!Sees(h).rows, ask)]
  <1>1. /\ UNCHANGED <<files, bases, batches, gone>>
        /\ Nothing \/ (Finds /\ (answer' = Db!NoAnswer \/ Row))
    <2>1. CASE Db!Find(h, ask)
      BY <2>1, Zenon DEF Db!Find, Db!NoRows
    <2>2. CASE Db!FindAndFetch(h, ask)
      BY <2>2, Zenon DEF Db!FindAndFetch, Db!NoRows
    <2> QED
      BY <2>1, <2>2
  <1>2. CASE Nothing
    BY <1>1, <1>2, StaysGrown, QuietStep
  <1>3. ASSUME Finds PROVE StmtInv' /\ Accepts(ask.cond) /\ (ask.skip # 0 => ask.limit # 0)
    <2>1. Accepts(ask.cond) /\ (ask.skip # 0 => ask.limit # 0)
      BY <1>3 DEF Db!Prepares
    <2> QED
      BY <1>1, <1>3, <2>1, FindStmts
  <1>4. CASE Finds /\ answer' = Db!NoAnswer
    <2>1. AnswerInv'
      BY <1>4, EmptyIsSequence DEF AnswerInv, Db!NoAnswer, Db!AllRowsFound
    <2> QED
      BY <1>3, <1>4, <2>1
  <1>5. CASE Finds /\ Row
    <2> DEFINE rows == Db!Result(Db!Sees(h).rows, ask)
    <2>1. /\ answer'.rows = rows /\ answer'.cursor.handle = h /\ answer'.cursor.ask = ask
      BY <1>5 DEF Db!Cursor
    <2>2. /\ IsSequence(rows)
          /\ \A r \in ToSet(rows) : RowFor(r, h, ask, batches, bases)
          /\ Plain(ask.cond) /\ ask.limit = 0 /\ ask.skip = 0 =>
                \A r \in ToSet(Db!Sees(h).rows) :
                   Meant(ask.cond, r.k, r.v) => r \in ToSet(rows)
      BY <1>3, <1>5, ResultAnswers
    <2>3. Db!Sees(h)' = Db!Sees(h)
      BY <1>1 DEF Db!Sees
    <2> HIDE DEF rows
    <2>4. /\ IsSequence(answer'.rows)
          /\ \A r \in ToSet(answer'.rows) :
                RowFor(r, answer'.cursor.handle, answer'.cursor.ask, batches', bases')
      BY <1>1, <2>1, <2>2
    <2>5. Db!AllRowsFound'
      <3> SUFFICES ASSUME Plain(ask.cond), ask.limit = 0,
                          NEW r \in ToSet(Db!Sees(h).rows), Meant(ask.cond, r.k, r.v)
                   PROVE  r \in ToSet(rows)
        BY <1>1, <2>1 DEF Db!AllRowsFound, Db!Sees, Db!ToSet, ToSet
      <3> QED
        BY <1>3, <1>5, <2>2
    <2> QED
      BY <1>3, <1>5, <2>4, <2>5 DEF AnswerInv
  <1> QED
    BY <1>1, <1>2, <1>4, <1>5

StmtWith(s, active, rest) == [s EXCEPT !.active = active, !.rest = rest]

LEMMA StmtWithRest ==
    ASSUME NEW s, IsStmt(s), NEW active, NEW rest
    PROVE  LET x == StmtWith(s, active, rest)
           IN  IsStmt(x) /\ x.name = s.name /\ x.owner = s.owner /\ x.ask = s.ask /\ x.rest = rest
  <1> DEFINE q1 == [s EXCEPT !.active = active]
             q2 == [q1 EXCEPT !.rest = rest]
             Of(a, r) == [name |-> s.name, owner |-> s.owner, ask |-> s.ask, active |-> a, rest |-> r]
  <1>1. StmtWith(s, active, rest) = q2
    BY Zenon DEF StmtWith
  <1>2. q1 = Of(active, s.rest)
    BY DEF IsStmt
  <1> HIDE DEF q1
  <1>3. q2 = Of(active, rest)
    BY <1>2
  <1> HIDE DEF q2
  <1>4. IsStmt(q2) /\ q2.name = s.name /\ q2.owner = s.owner /\ q2.ask = s.ask /\ q2.rest = rest
    BY <1>3 DEF IsStmt
  <1> QED
    BY <1>1, <1>4, Zenon

\* A statement goes on, with rows of its own find or none.
LEMMA OneStmtKept ==
    ASSUME StmtInv, UNCHANGED <<batches, bases, named, cursors>>, NEW i \in DOMAIN stmts,
           NEW active, NEW rest, IsSequence(rest),
           \A r \in ToSet(rest) : RowFor(r, stmts[i].owner, stmts[i].ask, batches, bases),
           stmts' = [stmts EXCEPT ![i] = StmtWith(stmts[i], active, rest)]
    PROVE  StmtInv'
  <1> DEFINE s == stmts[i]
             x == StmtWith(s, active, rest)
  <1>1. /\ IsSequence(stmts) /\ Len(stmts) \in Nat /\ DOMAIN stmts = 1 .. Len(stmts)
        /\ ToSet(stmts) = {stmts[j] : j \in 1 .. Len(stmts)}
        /\ s \in ToSet(stmts) /\ StmtSound(s, batches, bases, named) /\ IsStmt(s)
    BY SequenceFacts DEF StmtInv, StmtSound
  <1> HIDE DEF s
  <1>2. IsStmt(x) /\ x.name = s.name /\ x.owner = s.owner /\ x.ask = s.ask /\ x.rest = rest
    BY <1>1, StmtWithRest
  <1> HIDE DEF x
  <1>3. StmtSound(x, batches, bases, named)
    BY <1>1, <1>2 DEF StmtSound, s
  <1>4. stmts = [j \in 1 .. Len(stmts) |-> stmts[j]]
    BY <1>1, LenProperties DEF IsSequence
  <1>5. stmts' = [j \in 1 .. Len(stmts) |-> IF j = i THEN x ELSE stmts[j]]
    BY <1>1, <1>4 DEF x, s
  <1>6. IsSequence(stmts') /\ ToSet(stmts') \subseteq ToSet(stmts) \cup {x}
    <2> DEFINE T == ToSet(stmts) \cup {x}
               z == stmts'
    <2>1. z \in [1 .. Len(stmts) -> T]
      BY <1>1, <1>5
    <2> HIDE DEF T, z
    <2>2. z \in Seq(T)
      BY <1>1, <2>1, SeqDef
    <2>3. IsSequence(z) /\ ToSet(z) = {z[j] : j \in 1 .. Len(z)} /\ Len(z) = Len(stmts)
      <3>1. IsSequence(z) /\ ToSet(z) = {z[j] : j \in 1 .. Len(z)}
        BY <2>2, SequenceOf
      <3>2. Len(z) \in Nat /\ DOMAIN z = 1 .. Len(z) /\ DOMAIN z = 1 .. Len(stmts)
        BY <2>1, <2>2, LenProperties
      <3>3. Len(z) = Len(stmts)
        <4> DEFINE a == Len(z)
                   b == Len(stmts)
        <4>1. a \in Nat /\ b \in Nat /\ 1 .. a = 1 .. b
          BY <1>1, <3>2
        <4> HIDE DEF a, b
        <4>2. a = b
          <5>1. \A j \in Nat : (1 <= j /\ j <= a) <=> (1 <= j /\ j <= b)
            BY <4>1
          <5>2. (a >= 1 => a <= b) /\ (b >= 1 => b <= a)
            BY <4>1, <5>1
          <5> QED
            BY <4>1, <5>2
        <4> QED
          BY <4>2 DEF a, b
      <3> QED
        BY <3>1, <3>3
    <2>4. \A j \in 1 .. Len(z) : z[j] \in T
      BY <2>1, <2>3
    <2>5. IsSequence(z) /\ ToSet(z) \subseteq T
      BY <2>3, <2>4
    <2> QED
      BY <2>5 DEF T, z
  <1>7. \A c \in cursors, y \in ToSet(stmts') : y.name = c.name => y.owner = c.handle /\ y.ask = c.ask
    <2>1. \A c \in cursors, y \in ToSet(stmts) : y.name = c.name => y.owner = c.handle /\ y.ask = c.ask
      BY DEF StmtInv
    <2> SUFFICES ASSUME NEW c \in cursors, NEW y \in ToSet(stmts'), y.name = c.name
                 PROVE  y.owner = c.handle /\ y.ask = c.ask
      OBVIOUS
    <2>2. CASE y \in ToSet(stmts)
      BY <2>1, <2>2
    <2>3. CASE y = x
      <3>1. s.name = c.name => s.owner = c.handle /\ s.ask = c.ask
        BY <1>1, <2>1
      <3> QED
        BY <1>2, <2>3, <3>1
    <2> QED
      BY <1>6, <2>2, <2>3
  <1>8. \A y \in ToSet(stmts') : StmtSound(y, batches, bases, named)
    BY <1>3, <1>6 DEF StmtInv
  <1> QED
    BY <1>6, <1>7, <1>8 DEF StmtInv

\* The statement that a cursor names is one of its own handle and find.
LEMMA NamedStmt ==
    ASSUME StmtInv, NEW c \in cursors
    PROVE  LET Named == {i \in DOMAIN stmts : stmts[i].name = c.name}
           IN  Named # {} => /\ Db!Min(Named) \in DOMAIN stmts
                             /\ stmts[Db!Min(Named)].owner = c.handle
                             /\ stmts[Db!Min(Named)].ask = c.ask
  <1> DEFINE Named == {i \in DOMAIN stmts : stmts[i].name = c.name}
  <1>1. /\ IsSequence(stmts) /\ Len(stmts) \in Nat /\ DOMAIN stmts = 1 .. Len(stmts)
        /\ ToSet(stmts) = {stmts[j] : j \in 1 .. Len(stmts)}
    BY SequenceFacts DEF StmtInv
  <1>2. Named \subseteq Nat
    BY <1>1
  <1>3. \A i \in Named : i \in DOMAIN stmts /\ stmts[i].owner = c.handle /\ stmts[i].ask = c.ask
    BY <1>1 DEF StmtInv
  <1> HIDE DEF Named
  <1>4. Named # {} => Db!Min(Named) \in Named
    <2>1. Named # {} => \E i \in Named : \A j \in Named : i <= j
      BY <1>2, LeastNatural
    <2> QED
      BY <2>1 DEF Db!Min
  <1> QED
    BY <1>3, <1>4 DEF Named

LEMMA StepAnswers ==
    ASSUME DbInv, StmtInv, NEW c \in cursors, NEW i \in DOMAIN stmts, NEW again,
           stmts[i].owner = c.handle, stmts[i].ask = c.ask,
           UNCHANGED <<files, bases, named, cursors, batches>>, Db!Step(i, c, again)
    PROVE  StmtInv' /\ AnswerInv'
  <1> DEFINE s == stmts[i]
             starts == again \/ ~s.active
             left == IF starts THEN Db!Result(Db!Sees(s.owner).rows, s.ask) ELSE s.rest
             Rests == stmts' = [stmts EXCEPT ![i] = StmtWith(s, FALSE, << >>)] /\ answer' = Db!NoAnswer
             Goes == /\ left # << >>
                     /\ stmts' = [stmts EXCEPT ![i] = StmtWith(s, TRUE, Tail(left))]
                     /\ answer' = [cursor |-> c, whole |-> FALSE, rows |-> <<Head(left)>>]
  <1>1. Rests \/ Goes
    BY Zenon DEF Db!Step, Db!NoRows, StmtWith
  <1>2. /\ StmtSound(s, batches, bases, named) /\ s.owner \in DOMAIN bases
        /\ s.ask \in Asks /\ Accepts(s.ask.cond)
    BY SequenceFacts DEF StmtInv, StmtSound
  <1>3. IsSequence(left) /\ \A r \in ToSet(left) : RowFor(r, s.owner, s.ask, batches, bases)
    <2>1. CASE starts
      <3> HIDE DEF s, starts
      <3>1. left = Db!Result(Db!Sees(s.owner).rows, s.ask)
        BY <2>1
      <3> QED
        BY <1>2, <3>1, ResultAnswers
    <2>2. CASE ~starts
      BY <1>2, <2>2 DEF StmtSound
    <2> QED
      BY <2>1, <2>2
  <1> HIDE DEF left
  <1>4. CASE Rests
    <2>1. StmtInv'
      BY <1>4, EmptyIsSequence, OneStmtKept
    <2>2. AnswerInv'
      BY <1>4, EmptyIsSequence DEF AnswerInv, Db!NoAnswer, Db!AllRowsFound
    <2> QED
      BY <2>1, <2>2
  <1>5. CASE Goes
    <2>1. Head(left) \in ToSet(left) /\ IsSequence(Tail(left)) /\ ToSet(Tail(left)) \subseteq ToSet(left)
      BY <1>3, <1>5, HeadAndTail
    <2> DEFINE first == Head(left)
               next == Tail(left)
    <2>2. StmtInv'
      <3>1. stmts' = [stmts EXCEPT ![i] = StmtWith(stmts[i], TRUE, next)]
        BY <1>5
      <3>2. IsSequence(next) /\ \A r \in ToSet(next) : RowFor(r, stmts[i].owner, stmts[i].ask, batches, bases)
        BY <1>3, <2>1
      <3> HIDE DEF next
      <3> QED
        BY <3>1, <3>2, OneStmtKept
    <2>3. RowFor(first, c.handle, c.ask, batches, bases)
      BY <1>3, <2>1
    <2> HIDE DEF first
    <2>4. IsSequence(<<first>>) /\ ToSet(<<first>>) = {first}
      BY OneIsSequence
    <2>5. answer'.cursor = c /\ answer'.rows = <<first>> /\ answer'.whole = FALSE
      BY <1>5 DEF first
    <2>6. AnswerInv'
      BY <2>3, <2>4, <2>5 DEF AnswerInv, Db!AllRowsFound
    <2> QED
      BY <2>2, <2>6
  <1> QED
    BY <1>1, <1>4, <1>5

LEMMA FetchAnswers ==
    ASSUME DbInv, StmtInv, NEW c \in cursors, NEW again, Db!Fetch(c, again)
    PROVE  StmtInv' /\ AnswerInv'
  <1> DEFINE Named == {i \in DOMAIN stmts : stmts[i].name = c.name}
             i == Db!Min(Named)
  <1>1. /\ UNCHANGED <<files, bases, named, cursors, batches, gone>>
        /\ \/ answer' = Db!NoAnswer /\ UNCHANGED stmts
           \/ Named # {} /\ Db!Step(i, c, again)
    BY Zenon DEF Db!Fetch, Db!NoRows
  <1>2. Named # {} => i \in DOMAIN stmts /\ stmts[i].owner = c.handle /\ stmts[i].ask = c.ask
    BY NamedStmt
  <1> HIDE DEF Named, i
  <1>3. CASE answer' = Db!NoAnswer /\ UNCHANGED stmts
    BY <1>1, <1>3, StaysGrown, QuietStep
  <1>4. CASE Named # {} /\ Db!Step(i, c, again)
    BY <1>1, <1>2, <1>4, StepAnswers
  <1> QED
    BY <1>1, <1>3, <1>4

LEMMA FetchUnknownAnswers ==
    ASSUME DbInv, StmtInv, NEW c \in cursors, Db!FetchUnknown(c)
    PROVE  StmtInv' /\ AnswerInv'
  <1> DEFINE Named == {i \in DOMAIN stmts : stmts[i].name = c.name}
             i == Db!Min(Named)
  <1>1. /\ UNCHANGED <<files, bases, named, cursors, batches, gone>> /\ answer' = Db!NoAnswer
        /\ \/ UNCHANGED stmts
           \/ Named # {} /\ stmts' = [stmts EXCEPT ![i] = StmtWith(stmts[i], FALSE, << >>)]
    BY Zenon DEF Db!FetchUnknown, Db!NoRows, StmtWith
  <1>2. Named # {} => i \in DOMAIN stmts
    BY NamedStmt
  <1> HIDE DEF Named, i
  <1>3. CASE UNCHANGED stmts
    BY <1>1, <1>3, StaysGrown, QuietStep
  <1>4. CASE Named # {} /\ stmts' = [stmts EXCEPT ![i] = StmtWith(stmts[i], FALSE, << >>)]
    <2>1. StmtInv'
      BY <1>1, <1>2, <1>4, EmptyIsSequence, OneStmtKept
    <2>2. AnswerInv'
      BY <1>1, EmptyIsSequence DEF AnswerInv, Db!NoAnswer, Db!AllRowsFound
    <2> QED
      BY <2>1, <2>2
  <1> QED
    BY <1>1, <1>3, <1>4

LEMMA CloseAnswers ==
    ASSUME DbInv, StmtInv, NEW h \in DOMAIN bases, Db!Close(h)
    PROVE  StmtInv' /\ AnswerInv'
  <1> DEFINE p == bases[h]
             q1 == [p EXCEPT !.listed = FALSE]
             q2 == [p EXCEPT !.listed = FALSE, !.live = FALSE, !.lock = "none", !.txn = FALSE]
  <1>1. /\ UNCHANGED <<files, named, cursors, batches, gone>> /\ answer' = Db!NoAnswer
        /\ bases' = [bases EXCEPT ![h] = q1] \/ bases' = [bases EXCEPT ![h] = q2]
        /\ stmts' = Db!FinalizeFirst(h)
    BY Zenon DEF Db!Close, Db!NoRows
  <1>2. IsHandle(p) /\ IsSequence(bases)
    BY DEF DbInv, HandleSound
  <1>3. q1.file = p.file /\ q2.file = p.file
    <2> HIDE DEF p
    <2>1. q1 = HandleOf(p.file, FALSE, p.live, p.lock, p.txn, p.mine)
      BY <1>2, HandleUnlisted, Zenon
    <2>2. q2 = HandleOf(p.file, FALSE, FALSE, "none", FALSE, p.mine)
      BY <1>2, HandleClosed, Zenon
    <2> HIDE DEF q1, q2
    <2> QED
      BY <2>1, <2>2 DEF HandleOf
  <1> HIDE DEF q1, q2
  <1>4. Grown(batches, batches', bases, bases')
    BY <1>1, <1>2, <1>3, OneHandleGrown
  <1>5. IsSequence(stmts') /\ ToSet(stmts') \subseteq ToSet(stmts)
    <2> DEFINE mine == {i \in DOMAIN stmts : stmts[i].owner = h}
    <2>1. stmts' = IF mine = {} THEN stmts ELSE Db!RemoveAt(stmts, Db!Min(mine))
      BY <1>1 DEF Db!FinalizeFirst
    <2>2. IsSequence(stmts) /\ mine \subseteq 1 .. Len(stmts) /\ mine \subseteq Nat
      BY SequenceFacts DEF StmtInv
    <2> HIDE DEF mine
    <2>3. mine # {} => Db!Min(mine) \in mine
      <3>1. mine # {} => \E i \in mine : \A j \in mine : i <= j
        BY <2>2, LeastNatural
      <3> QED
        BY <3>1 DEF Db!Min
    <2> QED
      BY <2>1, <2>2, <2>3, RemovedFromSequence
  <1>6. AnswerInv'
    BY <1>1, EmptyIsSequence DEF AnswerInv, Db!NoAnswer, Db!AllRowsFound
  <1>7. \A s \in ToSet(stmts') : StmtSound(s, batches', bases', named)
    BY <1>4, <1>5, StmtKept DEF StmtInv
  <1>8. \A c \in cursors : c.handle \in DOMAIN bases'
    BY <1>4 DEF StmtInv, Grown
  <1> QED
    BY <1>1, <1>5, <1>6, <1>7, <1>8 DEF StmtInv

LEMMA AnswersInit == Db!Init => StmtInv /\ AnswerInv
  BY EmptyIsSequence DEF Db!Init, StmtInv, AnswerInv, Db!NoAnswer, Db!AllRowsFound

LEMMA AnswersNext == DbInv /\ StmtInv /\ AnswerInv /\ [Db!Next]_dbVars => StmtInv' /\ AnswerInv'
  <1> SUFFICES ASSUME DbInv, StmtInv, AnswerInv, [Db!Next]_dbVars PROVE StmtInv' /\ AnswerInv'
    OBVIOUS
  <1>1. CASE \E f \in Databases, ok \in BOOLEAN : Db!Open(f, ok)
    BY <1>1, OpenAnswers
  <1>2. CASE \E h \in DOMAIN bases : Db!Create(h)
    BY <1>2, WriteAnswers
  <1>3. CASE \E h \in DOMAIN bases, c \in Conds : Db!Delete(h, c)
    BY <1>3, WriteAnswers
  <1>4. CASE \E h \in DOMAIN bases, c \in Conds : Db!Update(h, c)
    BY <1>4, WriteAnswers
  <1>5. CASE \E h \in DOMAIN bases, keys \in Batches : Db!Insert(h, keys)
    BY <1>5, InsertAnswers
  <1>6. CASE \E h \in DOMAIN bases, ask \in Asks : Db!Find(h, ask)
    BY <1>6, FindAnswers
  <1>7. CASE \E h \in DOMAIN bases, ask \in Asks : Db!FindAndFetch(h, ask)
    BY <1>7, FindAnswers
  <1>8. CASE \E c \in cursors, again \in BOOLEAN : Db!Fetch(c, again)
    BY <1>8, FetchAnswers
  <1>9. CASE \E c \in cursors : Db!FetchUnknown(c)
    BY <1>9, FetchUnknownAnswers
  <1>10. CASE \E h \in DOMAIN bases : Db!Close(h)
    BY <1>10, CloseAnswers
  <1>11. CASE UNCHANGED dbVars
    BY <1>11 DEF dbVars, StmtInv, AnswerInv, Db!AllRowsFound, Db!Sees
  <1> QED
    BY <1>1, <1>2, <1>3, <1>4, <1>5, <1>6, <1>7, <1>8, <1>9, <1>10, <1>11, Zenon DEF Db!Next

\* What fetch and find-and-fetch return is what their find asked for, of the database of its
\* handle, and without a limit all of it (RowsAsAsked; extDbFetch, db_sqlite_stmt_find,
\* db_sqlite_find_fetch).
THEOREM RowsAlwaysAsAsked == Db!Spec => []RowsAsAsked
  <1>1. AnswerInv => RowsAsAsked
    <2> SUFFICES ASSUME AnswerInv PROVE Db!RowsAskedFor
      BY DEF AnswerInv, RowsAsAsked, Db!RowsAsAsked
    <2>1. ASSUME NEW i \in DOMAIN answer.rows
          PROVE  answer.rows[i] \in ToSet(answer.rows)
      BY SequenceFacts DEF AnswerInv
    <2> QED
      BY <2>1 DEF AnswerInv, RowFor, Db!RowsAskedFor
  <1> QED
    BY <1>1, DbInvInit, DbInvNext, AnswersInit, AnswersNext, PTL DEF Db!Spec, Db!vars, dbVars
=============================================================================
