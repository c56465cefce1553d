-------------------------- MODULE SlaxLoaderProofs --------------------------
(***************************************************************************)
(* Proofs about the loading of scripts and extension libraries, for any    *)
(* scripts, libraries, directories and number of calls.                    *)
(***************************************************************************)
EXTENDS SlaxLoader, ProofFacts, FiniteSetTheorems, SequenceTheorems

-----------------------------------------------------------------------------
(* What is made step by step: each part has a function of the steps made,  *)
(* whose values keep what a step keeps.                                    *)

\* The namespaces of an element are a sequence, of those its prefixes designate.
LEMMA PrefixesAreSequence ==
    ASSUME NEW node, IsSequence(node.extensions)
    PROVE  /\ IsSequence(slaxDynExtensionPrefixes(node))
           /\ Designated(node) \subseteq ToSet(slaxDynExtensionPrefixes(node))
  <1> DEFINE n == Len(node.extensions)
             Added(s, i) == IF node.extensions[i] \in DOMAIN node.ns
                            THEN Append(s, node.ns[node.extensions[i]]) ELSE s
             Made(m, f) == (f = [i \in 0 .. m |-> IF i = 0 THEN << >> ELSE Added(f[i - 1], i)])
             found == CHOOSE f : Made(n, f)
             Reached == {m \in Nat : \E f : Made(m, f)}
             Has(s, m) == \A i \in 1 .. m : node.extensions[i] \in DOMAIN node.ns
                             => node.ns[node.extensions[i]] \in ToSet(s)
             Kept(m) == IsSequence(found[m]) /\ Has(found[m], m)
             K == {m \in Nat : m <= n => Kept(m)}
  <1>0. n \in Nat /\ ToSet(node.extensions) = {node.extensions[i] : i \in 1 .. n}
    BY SequenceFacts
  <1>1. 0 \in Reached
    <2>1. Made(0, [i \in 0 .. 0 |-> << >>])
      OBVIOUS
    <2> QED
      BY <2>1
  <1>2. ASSUME NEW m \in Nat, m \in Reached PROVE m + 1 \in Reached
    <2>1. PICK f : Made(m, f)
      BY <1>2
    <2> DEFINE g == [i \in 0 .. (m + 1) |-> IF i = 0 THEN << >> ELSE Added(f[i - 1], i)]
    <2> HIDE DEF Added
    <2>2. \A i \in 0 .. m : g[i] = f[i]
      BY <2>1
    <2>3. ASSUME NEW i \in 0 .. (m + 1)
          PROVE  g[i] = IF i = 0 THEN << >> ELSE Added(g[i - 1], i)
      <3>1. i # 0 => i - 1 \in 0 .. m
        OBVIOUS
      <3> QED
        BY <2>2, <3>1
    <2>4. g = [i \in 0 .. (m + 1) |-> g[i]]
      OBVIOUS
    <2> HIDE DEF g
    <2>5. Made(m + 1, g)
      BY <2>3, <2>4
    <2> HIDE DEF Made
    <2> QED
      BY <2>5
  <1>3. Made(n, found)
    <2> HIDE DEF Reached, Made
    <2>1. n \in Reached
      BY <1>0, <1>1, <1>2, SetInduction
    <2> QED
      BY <2>1 DEF Reached
  <1>4. slaxDynExtensionPrefixes(node) = found[n]
    BY DEF slaxDynExtensionPrefixes
  <1> HIDE DEF found, Added
  <1>5. 0 \in K
    BY <1>0, <1>3, EmptyIsSequence
  <1>6. ASSUME NEW m \in Nat, m \in K PROVE m + 1 \in K
    <2> SUFFICES ASSUME m + 1 <= n PROVE Kept(m + 1)
      OBVIOUS
    <2>1. found[m + 1] = Added(found[m], m + 1) /\ Kept(m)
      BY <1>0, <1>3, <1>6
    <2> DEFINE s == found[m]
               x == node.extensions[m + 1]
    <2>2. IsSequence(Added(s, m + 1)) /\ ToSet(s) \subseteq ToSet(Added(s, m + 1))
      BY <2>1, AppendIsSequence DEF Added
    <2>3. x \in DOMAIN node.ns => node.ns[x] \in ToSet(Added(s, m + 1))
      BY <2>1, AppendIsSequence DEF Added
    <2>4. \A i \in 1 .. m + 1 : i \in 1 .. m \/ i = m + 1
      OBVIOUS
    <2> QED
      BY <2>1, <2>2, <2>3, <2>4
  <1> HIDE DEF K
  <1>7. n \in K
    BY <1>0, <1>5, <1>6, SetInduction
  <1>8. Kept(n)
    BY <1>0, <1>7 DEF K
  <1> QED
    BY <1>0, <1>4, <1>8 DEF Designated

\* Sequences are joined one after the other.
LEMMA FlattenSteps ==
    ASSUME NEW seqs, IsSequence(seqs)
    PROVE  \E f : /\ \A i \in 1 .. Len(seqs) :
                        f[i] = IF i = 1 THEN seqs[i] ELSE f[i - 1] \o seqs[i]
                  /\ FlattenSeq(seqs) = IF Len(seqs) = 0 THEN seqs ELSE f[Len(seqs)]
  <1> DEFINE n == Len(seqs)
             Joined(s, i) == s \o seqs[i]
             Made(m, f) == f = [i \in 1 .. m |-> IF i = 1 THEN seqs[i] ELSE Joined(f[i - 1], i)]
             flatten == CHOOSE f : Made(n, f)
             Reached == {m \in Nat : \E f : Made(m, f)}
  <1>0. n \in Nat
    BY SequenceFacts
  <1>1. 0 \in Reached
    <2>1. 1 .. 0 = {}
      OBVIOUS
    <2>2. Made(0, [i \in 1 .. 0 |-> << >>])
      BY <2>1
    <2> HIDE DEF Made
    <2> QED
      BY <2>2
  <1>2. ASSUME NEW m \in Nat, m \in Reached PROVE m + 1 \in Reached
    <2>1. PICK f : Made(m, f)
      BY <1>2
    <2> DEFINE g == [i \in 1 .. (m + 1) |-> IF i = 1 THEN seqs[i] ELSE Joined(f[i - 1], i)]
    <2> HIDE DEF Joined
    <2>2. \A i \in 1 .. m : g[i] = f[i]
      BY <2>1
    <2>3. ASSUME NEW i \in 1 .. (m + 1)
          PROVE  g[i] = IF i = 1 THEN seqs[i] ELSE Joined(g[i - 1], i)
      <3>1. i # 1 => i - 1 \in 1 .. m
        OBVIOUS
      <3> QED
        BY <2>2, <3>1
    <2>4. g = [i \in 1 .. (m + 1) |-> g[i]]
      OBVIOUS
    <2> HIDE DEF g
    <2>5. Made(m + 1, g)
      BY <2>3, <2>4
    <2> HIDE DEF Made
    <2> QED
      BY <2>5
  <1>3. Made(n, flatten)
    <2> HIDE DEF Reached, Made
    <2>1. n \in Reached
      BY <1>0, <1>1, <1>2, SetInduction
    <2> QED
      BY <2>1 DEF Reached
  <1>4. FlattenSeq(seqs) = IF n = 0 THEN seqs ELSE flatten[n]
    BY DEF FlattenSeq
  <1> HIDE DEF flatten
  <1>5. \A i \in 1 .. n : flatten[i] = IF i = 1 THEN seqs[i] ELSE flatten[i - 1] \o seqs[i]
    BY <1>3
  <1> QED
    BY <1>4, <1>5

\* Where each of the sequences that s is joined of ends.
Follow(seqs, s, off) ==
    /\ off[0] = 0 /\ off[Len(seqs)] = Len(s)
    /\ \A i \in 1 .. Len(seqs) :
          /\ off[i - 1] \in Nat /\ off[i] = off[i - 1] + Len(seqs[i]) /\ off[i] <= Len(s)
          /\ \A j \in 1 .. Len(seqs[i]) : s[off[i - 1] + j] = seqs[i][j]

\* Joined sequences are a sequence of all they have, each after those before it.
LEMMA FlattenIsSequence ==
    ASSUME NEW seqs, IsSequence(seqs), \A i \in DOMAIN seqs : IsSequence(seqs[i])
    PROVE  /\ IsSequence(FlattenSeq(seqs))
           /\ \A i \in DOMAIN seqs : ToSet(seqs[i]) \subseteq ToSet(FlattenSeq(seqs))
           /\ \E off : Follow(seqs, FlattenSeq(seqs), off)
  <1> DEFINE n == Len(seqs)
  <1>0. n \in Nat /\ DOMAIN seqs = 1 .. n
    BY SequenceFacts
  <1>1. PICK flatten :
           /\ \A i \in 1 .. n : flatten[i] = IF i = 1 THEN seqs[i] ELSE flatten[i - 1] \o seqs[i]
           /\ FlattenSeq(seqs) = IF n = 0 THEN seqs ELSE flatten[n]
    BY FlattenSteps
  <1> DEFINE off == [i \in 0 .. n |-> IF i = 0 THEN 0 ELSE Len(flatten[i])]
             Placed(s, i) ==
                 /\ off[i - 1] \in Nat /\ off[i] = off[i - 1] + Len(seqs[i])
                 /\ off[i] <= Len(s)
                 /\ \A j \in 1 .. Len(seqs[i]) : s[off[i - 1] + j] = seqs[i][j]
             Kept(s, m) ==
                 /\ IsSequence(s)
                 /\ \A i \in 1 .. m : ToSet(seqs[i]) \subseteq ToSet(s)
                 /\ \A i \in 1 .. m : Placed(s, i)
             K == {m \in Nat : m + 1 <= n => Kept(flatten[m + 1], m + 1)}
  <1>2. \A i \in 0 .. n : off[i] = IF i = 0 THEN 0 ELSE Len(flatten[i])
    OBVIOUS
  <1> HIDE DEF off
  <1>3. ASSUME 1 <= n PROVE Kept(flatten[1], 1)
    <2> DEFINE s == flatten[1]
    <2>1. s = seqs[1] /\ IsSequence(s) /\ Len(s) \in Nat
      BY <1>0, <1>1, <1>3, SequenceFacts
    <2>2. off[0] = 0 /\ off[1] = Len(s)
      BY <1>0, <1>2, <1>3
    <2> HIDE DEF s
    <2>3. Placed(s, 1)
      BY <2>1, <2>2
    <2>4. \A i \in 1 .. 1 : i = 1
      OBVIOUS
    <2> HIDE DEF Placed
    <2>5. Kept(s, 1)
      BY <2>1, <2>3, <2>4
    <2> QED
      BY <2>5 DEF s
  <1>4. ASSUME NEW m \in Nat, m \in K PROVE m + 1 \in K
    <2> DEFINE k == m + 1
               old == flatten[k]
               s == flatten[k + 1]
               t == seqs[k + 1]
    <2> SUFFICES ASSUME k + 1 <= n PROVE Kept(s, k + 1)
      OBVIOUS
    <2>1. s = old \o t /\ IsSequence(t)
      <3>1. k + 1 \in 1 .. n /\ k + 1 # 1 /\ (k + 1) - 1 = k
        BY <1>0
      <3> QED
        BY <1>0, <1>1, <3>1
    <2>2. Kept(old, k)
      <3> HIDE DEF Kept
      <3> QED
        BY <1>0, <1>4
    <2>3. off[k] = Len(old) /\ off[k + 1] = Len(s) /\ (k + 1) - 1 = k
      BY <1>0, <1>2
    <2>4. k \in Nat
      OBVIOUS
    <2> HIDE DEF old, s, t, k
    <2>5. /\ IsSequence(s) /\ ToSet(s) = ToSet(old) \cup ToSet(t)
          /\ Len(s) = Len(old) + Len(t) /\ Len(old) \in Nat /\ Len(t) \in Nat
          /\ \A i \in 1 .. Len(s) : s[i] = IF i <= Len(old) THEN old[i] ELSE t[i - Len(old)]
      BY <2>1, <2>2, ConcatIsSequence, SequenceFacts
    <2>6. Placed(s, k + 1)
      <3>1. ASSUME NEW j \in 1 .. Len(t) PROVE s[Len(old) + j] = t[j]
        <4>1. /\ Len(old) + j \in 1 .. Len(s) /\ ~(Len(old) + j <= Len(old))
              /\ (Len(old) + j) - Len(old) = j
          BY <2>5
        <4> QED
          BY <2>5, <4>1
      <3>2. off[(k + 1) - 1] = Len(old)
        BY <2>3
      <3>3. off[k + 1] = Len(old) + Len(t) /\ off[k + 1] <= Len(s)
        BY <2>3, <2>5
      <3> DEFINE o == off[(k + 1) - 1]
      <3> HIDE DEF o
      <3>4. o \in Nat /\ off[k + 1] = o + Len(t) /\ \A j \in 1 .. Len(t) : s[o + j] = t[j]
        BY <2>5, <3>1, <3>2, <3>3 DEF o
      <3> QED
        BY <3>3, <3>4 DEF o, t
    <2>7. ASSUME NEW i \in 1 .. k PROVE Placed(s, i)
      <3>1. Placed(old, i) /\ IsSequence(seqs[i]) /\ i \in DOMAIN seqs
        <4>1. k <= n
          BY <1>0, <2>4
        <4>2. i \in DOMAIN seqs
          BY <1>0, <2>4, <4>1
        <4> HIDE DEF Placed
        <4> QED
          BY <2>2, <4>2
      <3>2. off[i - 1] \in Nat /\ off[i] = off[i - 1] + Len(seqs[i]) /\ off[i] <= Len(old)
        BY <3>1
      <3>3. off[i] <= Len(s) /\ Len(seqs[i]) \in Nat
        BY <2>5, <3>1, <3>2, SequenceFacts
      <3>4. ASSUME NEW j \in 1 .. Len(seqs[i]) PROVE s[off[i - 1] + j] = seqs[i][j]
        <4>1. off[i - 1] + j \in 1 .. Len(s) /\ off[i - 1] + j <= Len(old)
          BY <2>5, <3>2, <3>3
        <4> QED
          BY <2>5, <3>1, <4>1
      <3> QED
        BY <3>2, <3>3, <3>4
    <2>8. \A i \in 1 .. k + 1 : i \in 1 .. k \/ i = k + 1
      BY <2>4
    <2>9. \A i \in 1 .. k + 1 : ToSet(seqs[i]) \subseteq ToSet(s)
      BY <2>2, <2>5, <2>8 DEF t
    <2> HIDE DEF Placed
    <2> QED
      BY <2>5, <2>6, <2>7, <2>8, <2>9
  <1>5. n # 0 => Kept(FlattenSeq(seqs), n)
    <2> SUFFICES ASSUME n # 0 PROVE Kept(flatten[n], n)
      BY <1>1
    <2> HIDE DEF Kept
    <2>1. 0 \in K
      BY <1>3
    <2>2. n - 1 \in Nat /\ (n - 1) + 1 = n
      BY <1>0
    <2> HIDE DEF K
    <2>3. n - 1 \in K
      BY <1>4, <2>1, <2>2, SetInduction
    <2> QED
      BY <2>2, <2>3 DEF K
  <1>6. off[0] = 0 /\ off[n] = Len(FlattenSeq(seqs))
    BY <1>0, <1>1, <1>2
  <1>7. IsSequence(FlattenSeq(seqs))
    BY <1>1, <1>5
  <1>8. \A i \in 1 .. n : ToSet(seqs[i]) \subseteq ToSet(FlattenSeq(seqs)) /\ Placed(FlattenSeq(seqs), i)
    <2> HIDE DEF Placed
    <2> QED
      BY <1>0, <1>5
  <1>9. Follow(seqs, FlattenSeq(seqs), off)
    BY <1>6, <1>8 DEF Follow
  <1> QED
    BY <1>0, <1>7, <1>8, <1>9, Zenon

\* So are the namespaces of a document.
LEMMA NamespacesAreSequence ==
    ASSUME NEW root, NEW inner, IsSequence(root.extensions), IsSequence(inner),
           \A i \in DOMAIN inner : IsSequence(inner[i].extensions)
    PROVE  /\ IsSequence(slaxDynFindNamespaces(root, inner))
           /\ Designated(root) \subseteq ToSet(slaxDynFindNamespaces(root, inner))
           /\ \A node \in ToSet(inner) :
                 Designated(node) \subseteq ToSet(slaxDynFindNamespaces(root, inner))
  <1> DEFINE seqs == [i \in DOMAIN inner |-> slaxDynExtensionPrefixes(inner[i])]
  <1>1. \A i \in DOMAIN inner : IsSequence(seqs[i]) /\ Designated(inner[i]) \subseteq ToSet(seqs[i])
    BY PrefixesAreSequence
  <1>2. IsSequence(seqs) /\ DOMAIN seqs = DOMAIN inner
    <2>1. DOMAIN inner = 1 .. Len(inner) /\ Len(inner) \in Nat
      BY SequenceFacts
    <2>2. seqs \in [1 .. Len(inner) -> {seqs[i] : i \in DOMAIN inner}]
      BY <2>1
    <2>3. seqs \in Seq({seqs[i] : i \in DOMAIN inner})
      BY <2>1, <2>2, SeqDef
    <2> QED
      BY <2>3, SequenceOf
  <1> HIDE DEF seqs
  <1>3. /\ IsSequence(FlattenSeq(seqs))
        /\ \A i \in DOMAIN inner : ToSet(seqs[i]) \subseteq ToSet(FlattenSeq(seqs))
    BY <1>1, <1>2, FlattenIsSequence
  <1>4. /\ IsSequence(slaxDynExtensionPrefixes(root))
        /\ Designated(root) \subseteq ToSet(slaxDynExtensionPrefixes(root))
    BY PrefixesAreSequence
  <1> DEFINE a == slaxDynExtensionPrefixes(root)
             b == FlattenSeq(seqs)
             found == slaxDynFindNamespaces(root, inner)
  <1>5. found = a \o b
    BY DEF slaxDynFindNamespaces, seqs
  <1> HIDE DEF a, b, found
  <1>6. IsSequence(found) /\ ToSet(found) = ToSet(a) \cup ToSet(b)
    BY <1>3, <1>4, <1>5, ConcatIsSequence DEF a, b
  <1>7. \A node \in ToSet(inner) : Designated(node) \subseteq ToSet(b)
    BY <1>1, <1>3 DEF b, ToSet
  <1> QED
    BY <1>4, <1>6, <1>7 DEF a, found

\* The root has its extensions in a sequence, whatever names are looked up.
Rooted(root) ==
    root = [ns |-> root.ns, extensions |-> root.extensions] /\ IsSequence(root.extensions)

\* A root has what another has, and a prefix designates a namespace in it.
Extends(new, root) ==
    /\ DOMAIN root.ns \subseteq DOMAIN new.ns
    /\ \A p \in DOMAIN root.ns : new.ns[p] = root.ns[p]
    /\ ToSet(root.extensions) \subseteq ToSet(new.extensions)
Designates(root, p, uri) ==
    p \in DOMAIN root.ns /\ root.ns[p] = uri /\ p \in ToSet(root.extensions)

LEMMA FindNsRooted ==
    ASSUME NEW d, NEW root, Rooted(root), NEW prefix,
           NEW new, new = slaxFindNs(d, root, prefix)
    PROVE  /\ Rooted(new) /\ Extends(new, root)
           /\ DOMAIN new.ns \subseteq DOMAIN root.ns \cup {prefix}
           /\ prefix \notin DOMAIN root.ns /\ slaxDynFindPrefix(d, prefix).extension
                => Designates(new, prefix, slaxDynFindPrefix(d, prefix).uri)
  <1> DEFINE found == slaxDynFindPrefix(d, prefix)
             e == IF found.extension THEN Append(root.extensions, prefix) ELSE root.extensions
             n == xmlNewNs(root.ns, prefix, found.uri)
             r == [root EXCEPT !.ns = n]
             s == [r EXCEPT !.extensions = e]
             same == [root EXCEPT !.ns = n, !.extensions = e]
  <1>1. CASE prefix \in DOMAIN root.ns
    <2>1. new = root
      BY <1>1 DEF slaxFindNs
    <2> QED
      BY <1>1, <2>1 DEF Extends
  <1>2. CASE prefix \notin DOMAIN root.ns /\ found = NoNamespace
    <2>1. new = root /\ ~found.extension
      BY <1>2 DEF slaxFindNs, slaxMakeStdNs, NoNamespace
    <2> QED
      BY <2>1 DEF Extends
  <1>3. CASE prefix \notin DOMAIN root.ns /\ found # NoNamespace
    <2> HIDE DEF found
    <2>1. new = slaxSetNs(root, prefix, found.uri, found.extension)
      BY <1>3 DEF slaxFindNs, slaxMakeStdNs, found
    <2>2. new = same
      BY <1>3, <2>1, Zenon DEF slaxSetNs
    <2>3. /\ IsSequence(e) /\ ToSet(root.extensions) \subseteq ToSet(e)
          /\ found.extension => prefix \in ToSet(e)
      BY AppendIsSequence DEF Rooted
    <2>4. /\ DOMAIN n = DOMAIN root.ns \cup {prefix} /\ n[prefix] = found.uri
          /\ \A p \in DOMAIN root.ns : n[p] = root.ns[p]
      BY <1>3 DEF xmlNewNs
    <2> HIDE DEF e, n
    <2>5. r = [ns |-> n, extensions |-> root.extensions]
      BY DEF Rooted
    <2>6. same = s
      BY Zenon DEF r, s
    <2> HIDE DEF same, r
    <2>7. s = [ns |-> n, extensions |-> e]
      BY <2>5
    <2> HIDE DEF s
    <2>8. new = [ns |-> n, extensions |-> e] /\ new.ns = n /\ new.extensions = e
      BY <2>2, <2>6, <2>7
    <2> QED
      BY <2>3, <2>4, <2>8 DEF Rooted, Extends, Designates, found
  <1> QED
    BY <1>1, <1>2, <1>3

\* What is parsed of a script has what it declares, and its well-known prefixes designate
\* namespaces.
LEMMA ParsedRooted ==
    ASSUME NEW script, IsSequence(script.uses), IsSequence(script.extensions)
    PROVE  /\ Rooted(Parsed(script)) /\ Extends(Parsed(script), Declared(script))
           /\ \A p \in ToSet(script.uses) \ DOMAIN Declared(script).ns :
                 slaxDynFindPrefix(dyn, p).extension
                    => Designates(Parsed(script), p, slaxDynFindPrefix(dyn, p).uri)
  <1> DEFINE n == Len(script.uses)
             Found(root, i) == slaxFindNs(dyn, root, script.uses[i])
             Made(m, f) == f = [i \in 0 .. m |-> IF i = 0 THEN Declared(script)
                                                  ELSE Found(f[i - 1], i)]
             after == CHOOSE f : Made(n, f)
             Reached == {m \in Nat : \E f : Made(m, f)}
             first == Declared(script)
             Used(m) == {script.uses[i] : i \in 1 .. m}
             Kept(m) ==
                 /\ Rooted(after[m]) /\ Extends(after[m], first)
                 /\ DOMAIN after[m].ns \subseteq DOMAIN first.ns \cup Used(m)
                 /\ \A p \in Used(m) \ DOMAIN first.ns :
                       slaxDynFindPrefix(dyn, p).extension
                          => Designates(after[m], p, slaxDynFindPrefix(dyn, p).uri)
             K == {m \in Nat : m <= n => Kept(m)}
  <1>0. n \in Nat /\ ToSet(script.uses) = Used(n)
    BY SequenceFacts
  <1>1. 0 \in Reached
    <2>1. Made(0, [i \in 0 .. 0 |-> Declared(script)])
      OBVIOUS
    <2> HIDE DEF Made
    <2> QED
      BY <2>1
  <1>2. ASSUME NEW m \in Nat, m \in Reached PROVE m + 1 \in Reached
    <2>1. PICK f : Made(m, f)
      BY <1>2
    <2> DEFINE g == [i \in 0 .. (m + 1) |-> IF i = 0 THEN Declared(script)
                                             ELSE Found(f[i - 1], i)]
    <2> HIDE DEF Found
    <2>2. \A i \in 0 .. m : g[i] = f[i]
      BY <2>1
    <2>3. ASSUME NEW i \in 0 .. (m + 1)
          PROVE  g[i] = IF i = 0 THEN Declared(script) ELSE Found(g[i - 1], i)
      <3>1. i # 0 => i - 1 \in 0 .. m
        OBVIOUS
      <3> QED
        BY <2>2, <3>1
    <2>4. g = [i \in 0 .. (m + 1) |-> g[i]]
      OBVIOUS
    <2> HIDE DEF g
    <2>5. Made(m + 1, g)
      BY <2>3, <2>4
    <2> HIDE DEF Made
    <2> QED
      BY <2>5
  <1>3. Made(n, after)
    <2> HIDE DEF Reached, Made
    <2>1. n \in Reached
      BY <1>0, <1>1, <1>2, SetInduction
    <2> QED
      BY <2>1 DEF Reached
  <1>4. Parsed(script) = after[n]
    BY DEF Parsed
  <1> HIDE DEF after, Found
  <1>5. 0 \in K
    <2> DEFINE r == slaxBuildDoc
               n0 == r.ns @@ script.ns
               q == [r EXCEPT !.ns = n0]
               s == [q EXCEPT !.extensions = script.extensions]
    <2>1. Declared(script) = s
      BY Zenon DEF Declared
    <2>2. r = [ns |-> r.ns, extensions |-> r.extensions]
      BY DEF slaxBuildDoc
    <2> HIDE DEF r, n0
    <2>3. q = [ns |-> n0, extensions |-> r.extensions]
      BY <2>2
    <2> HIDE DEF q
    <2>4. s = [ns |-> n0, extensions |-> script.extensions]
      BY <2>3
    <2> HIDE DEF s
    <2>5. Rooted(Declared(script))
      BY <2>1, <2>4 DEF Rooted
    <2>6. after[0] = first /\ Used(0) = {}
      BY <1>0, <1>3
    <2> HIDE DEF first
    <2> QED
      BY <2>5, <2>6 DEF Extends, first
  <1> HIDE DEF first
  <1>6. ASSUME NEW m \in Nat, m \in K PROVE m + 1 \in K
    <2> SUFFICES ASSUME m + 1 <= n PROVE Kept(m + 1)
      OBVIOUS
    <2> DEFINE x == script.uses[m + 1]
               old == after[m]
               new == after[m + 1]
    <2>1. new = slaxFindNs(dyn, old, x) /\ Kept(m)
      <3>1. new = slaxFindNs(dyn, old, x)
        BY <1>0, <1>3 DEF Found
      <3> HIDE DEF Kept
      <3>2. Kept(m)
        BY <1>0, <1>6
      <3> QED
        BY <3>1, <3>2
    <2>2. Used(m + 1) = Used(m) \cup {x}
      <3>1. 1 .. m + 1 = 1 .. m \cup {m + 1}
        OBVIOUS
      <3> QED
        BY <3>1
    <2> HIDE DEF x, old, new, Used
    <2>3. Rooted(old) /\ Extends(old, first) /\ DOMAIN old.ns \subseteq DOMAIN first.ns \cup Used(m)
      BY <2>1 DEF old
    <2>4. /\ Rooted(new) /\ Extends(new, old)
          /\ DOMAIN new.ns \subseteq DOMAIN old.ns \cup {x}
          /\ x \notin DOMAIN old.ns /\ slaxDynFindPrefix(dyn, x).extension
                => Designates(new, x, slaxDynFindPrefix(dyn, x).uri)
      BY <2>1, <2>3, FindNsRooted
    <2>5. Extends(new, first)
      BY <2>3, <2>4 DEF Extends
    <2>6. ASSUME NEW p \in Used(m + 1) \ DOMAIN first.ns, slaxDynFindPrefix(dyn, p).extension
          PROVE  Designates(new, p, slaxDynFindPrefix(dyn, p).uri)
      <3>1. CASE p \in Used(m)
        <4>1. Designates(old, p, slaxDynFindPrefix(dyn, p).uri)
          BY <2>1, <2>6, <3>1 DEF old
        <4> QED
          BY <2>4, <4>1 DEF Extends, Designates
      <3>2. CASE p \notin Used(m)
        <4>1. p = x /\ x \notin DOMAIN old.ns
          BY <2>2, <2>3, <2>6, <3>2
        <4> QED
          BY <2>4, <2>6, <4>1
      <3> QED
        BY <3>1, <3>2
    <2> QED
      BY <2>2, <2>3, <2>4, <2>5, <2>6 DEF new
  <1> HIDE DEF K
  <1>7. n \in K
    BY <1>0, <1>5, <1>6, SetInduction
  <1>8. Kept(n)
    BY <1>0, <1>7 DEF K
  <1> QED
    BY <1>0, <1>4, <1>8 DEF first

-----------------------------------------------------------------------------
(* The lists of slaxdyn.c *)

Lists(d) ==
    /\ d = [inited |-> d.inited, dirs |-> d.dirs, loaded |-> d.loaded,
            libraries |-> d.libraries, handles |-> d.handles, table |-> d.table]
    /\ d.inited \in BOOLEAN
    /\ IsSequence(d.dirs) /\ IsSequence(d.loaded)
    /\ d.libraries \in Seq(Files) /\ d.handles \in [Files -> Int]

(* Libraries are held as LibrariesHeld says, and for each one open its     *)
(* namespace was tried, so that no other file is opened for it.            *)
Held(d) ==
    /\ IsInjective(d.libraries)
    /\ \A f \in Files : d.handles[f] = IF f \in ToSet(d.libraries) THEN 1 ELSE 0
    /\ d.table \subseteq ToSet(d.libraries)
    /\ \A f \in ToSet(d.libraries) : f[2] \in ToSet(d.loaded)

LEMMA NothingHeld == Lists(Nothing) /\ Held(Nothing) /\ Nothing.libraries = << >>
  <1>1. << >> \in Seq(Files) /\ DOMAIN << >> = {}
    <2>1. << >> \in Seq(Files) /\ Len(<< >>) = 0
      BY EmptySeq
    <2>2. DOMAIN << >> = 1 .. 0
      BY <2>1, LenProperties
    <2> QED
      BY <2>1, <2>2
  <1>2. IsInjective(<< >>)
    BY <1>1 DEF IsInjective
  <1> DEFINE none == [f \in Files |-> 0]
  <1>3. none \in [Files -> Int] /\ \A f \in Files : none[f] = 0
    OBVIOUS
  <1> HIDE DEF none
  <1>4. /\ Nothing.inited = FALSE /\ Nothing.dirs = << >> /\ Nothing.loaded = << >>
        /\ Nothing.libraries = << >> /\ Nothing.handles = none /\ Nothing.table = {}
        /\ Nothing = [inited |-> FALSE, dirs |-> << >>, loaded |-> << >>,
                      libraries |-> << >>, handles |-> none, table |-> {}]
    BY DEF Nothing, none
  <1> QED
    BY <1>1, <1>2, <1>3, <1>4, EmptyIsSequence DEF Lists, Held

\* A namespace that is tried is remembered, and nothing else changes.
LEMMA MarkLoaded ==
    ASSUME NEW d, Lists(d), NEW uri, NEW m, m = slaxDynMarkLoaded(d, uri)
    PROVE  /\ Lists(m.dyn) /\ m.dyn.inited = d.inited
           /\ Held(d) => Held(m.dyn)
           /\ m.dyn.dirs = d.dirs /\ m.dyn.libraries = d.libraries
           /\ m.dyn.handles = d.handles /\ m.dyn.table = d.table
           /\ ~m.known => /\ uri \in ToSet(m.dyn.loaded)
                          /\ m.dyn.loaded = Append(d.loaded, uri) /\ uri \notin ToSet(d.loaded)
           /\ m.known => uri \in ToSet(d.loaded) \cup {SlaxUri}
           /\ ToSet(m.dyn.loaded) \subseteq ToSet(d.loaded) \cup {uri}
  <1>1. CASE uri = SlaxUri \/ uri \in ToSet(d.loaded)
    <2>1. m = [known |-> TRUE, dyn |-> d]
      BY <1>1 DEF slaxDynMarkLoaded
    <2> QED
      BY <1>1, <2>1
  <1>2. CASE ~(uri = SlaxUri \/ uri \in ToSet(d.loaded))
    <2> DEFINE y == Append(d.loaded, uri)
               e == [d EXCEPT !.loaded = y]
    <2>1. m = [known |-> FALSE, dyn |-> e]
      BY <1>2 DEF slaxDynMarkLoaded
    <2>2. IsSequence(y) /\ ToSet(y) = ToSet(d.loaded) \cup {uri}
      BY AppendIsSequence DEF Lists
    <2> HIDE DEF y
    <2>3. e = [inited |-> d.inited, dirs |-> d.dirs, loaded |-> y,
               libraries |-> d.libraries, handles |-> d.handles, table |-> d.table]
      BY DEF Lists
    <2> HIDE DEF e
    <2>4. Lists(e)
      BY <2>2, <2>3, SMTT(30) DEF Lists
    <2>5. Held(d) => Held(e)
      BY <2>2, <2>3 DEF Held
    <2>6. /\ e.inited = d.inited /\ e.dirs = d.dirs /\ e.loaded = y
          /\ e.libraries = d.libraries /\ e.handles = d.handles /\ e.table = d.table
      BY <2>3
    <2>7. /\ m.dyn = e /\ ~m.known /\ uri \notin ToSet(d.loaded)
          /\ ToSet(y) = ToSet(d.loaded) \cup {uri}
      BY <1>2, <2>1, <2>2
    <2>8. y = Append(d.loaded, uri)
      BY DEF y
    <2> QED
      BY <2>4, <2>5, <2>6, <2>7, <2>8
  <1> QED
    BY <1>1, <1>2

\* The file that is opened for a namespace is one of the libraries there are.
LEMMA FirstIsFile ==
    ASSUME NEW dirs, IsSequence(dirs), NEW uri, NEW i,
           i = First(dirs, LAMBDA d : d \in DOMAIN Libraries /\ uri \in DOMAIN Libraries[d]),
           i # 0
    PROVE  <<dirs[i], uri>> \in Files
  <1> DEFINE Has(d) == d \in DOMAIN Libraries /\ uri \in DOMAIN Libraries[d]
             I == {k \in 1 .. Len(dirs) : Has(dirs[k])}
  <1>1. Len(dirs) \in Nat /\ DOMAIN dirs = 1 .. Len(dirs)
    BY SequenceFacts
  <1>2. I # {} /\ i = Min(I)
    BY <1>1 DEF First, SelectInSeq
  <1>3. \E k \in I : \A m \in I : k <= m
    <2>1. I \subseteq Nat
      OBVIOUS
    <2> QED
      BY <1>2, <2>1, LeastNatural
  <1>4. Min(I) \in I
    BY <1>3 DEF Min
  <1>5. Has(dirs[i])
    BY <1>2, <1>4
  <1> DEFINE dir == dirs[i]
  <1>6. dir \in DOMAIN Libraries /\ uri \in DOMAIN Libraries[dir]
    BY <1>5
  <1> HIDE DEF dir
  <1>7. <<dir, uri>> \in {<<dir, u>> : u \in DOMAIN Libraries[dir]}
    BY <1>6
  <1>8. <<dir, uri>> \in Files
    BY <1>6, <1>7 DEF Files
  <1> QED
    BY <1>8 DEF dir

\* The file for a namespace, with functions that can be had.
FileFor(dirs, uri) ==
    <<dirs[First(dirs, LAMBDA d : d \in DOMAIN Libraries /\ uri \in DOMAIN Libraries[d])], uri>>
Ready(dirs, uri) ==
    /\ First(dirs, LAMBDA d : d \in DOMAIN Libraries /\ uri \in DOMAIN Libraries[d]) # 0
    /\ Libraries[FileFor(dirs, uri)[1]][uri].initializer
    /\ Libraries[FileFor(dirs, uri)[1]][uri].functions

\* Namespaces are tried, and those that were not tried before get their functions.
Arrive(new, d, uris) ==
    /\ new.dirs = d.dirs /\ d.table \subseteq new.table
    /\ ToSet(new.loaded) \subseteq ToSet(d.loaded) \cup uris
    /\ \A uri \in uris \ (ToSet(d.loaded) \cup {SlaxUri}) :
          Ready(d.dirs, uri) => FileFor(d.dirs, uri) \in new.table

\* Loading what a namespace names leaves every library held.
LEMMA LoadNamespaceKeeps ==
    ASSUME NEW d, Lists(d), NEW uri, NEW new, new = slaxDynLoadNamespace(d, uri)
    PROVE  /\ Lists(new) /\ new.inited = d.inited /\ (Held(d) => Held(new))
           /\ Arrive(new, d, {uri})
  <1> DEFINE Has(e) == e \in DOMAIN Libraries /\ uri \in DOMAIN Libraries[e]
             m == slaxDynMarkLoaded(d, uri)
             i == First(d.dirs, Has)
             file == <<d.dirs[i], uri>>
             has == Libraries[d.dirs[i]][uri]
             libs == Append(d.libraries, file)
             h == [d.handles EXCEPT ![file] = @ + 1]
             tab == IF has.functions THEN d.table \cup {file} ELSE d.table
             q == [m.dyn EXCEPT !.libraries = libs]
             r == [q EXCEPT !.handles = h]
             s == [r EXCEPT !.table = tab]
  <1>1. /\ Lists(m.dyn) /\ m.dyn.inited = d.inited
        /\ Held(d) => Held(m.dyn)
        /\ m.dyn.dirs = d.dirs /\ m.dyn.libraries = d.libraries
        /\ m.dyn.handles = d.handles /\ m.dyn.table = d.table
        /\ ~m.known => /\ uri \in ToSet(m.dyn.loaded)
                       /\ m.dyn.loaded = Append(d.loaded, uri) /\ uri \notin ToSet(d.loaded)
        /\ m.known => uri \in ToSet(d.loaded) \cup {SlaxUri}
        /\ ToSet(m.dyn.loaded) \subseteq ToSet(d.loaded) \cup {uri}
    BY MarkLoaded
  <1>2. CASE m.known \/ i = 0 \/ ~has.initializer
    <2>1. new = m.dyn
      BY <1>2, Zenon DEF slaxDynLoadNamespace
    <2>2. Ready(d.dirs, uri) => i # 0 /\ has.initializer
      BY DEF Ready, FileFor
    <2> HIDE DEF m, i, has
    <2> QED
      BY <1>1, <1>2, <2>1, <2>2 DEF Arrive
  <1>3. CASE ~(m.known \/ i = 0 \/ ~has.initializer)
    <2>0. file = FileFor(d.dirs, uri) /\ (Ready(d.dirs, uri) => has.functions)
      BY DEF FileFor, Ready
    <2>1. i # 0 /\ ~m.known
      BY <1>3
    <2>2. file \in Files
      BY <2>1, FirstIsFile DEF Lists
    <2>3. new = [m.dyn EXCEPT !.libraries = Append(@, file), !.handles[file] = @ + 1,
                              !.table = IF has.functions THEN @ \cup {file} ELSE @]
      BY <1>3, Zenon DEF slaxDynLoadNamespace
    <2> HIDE DEF m, i, has
    <2>4. new = s
      BY <1>1, <2>3, Zenon DEF s
    <2> HIDE DEF file
    <2>5. /\ libs \in Seq(Files) /\ Len(libs) = Len(d.libraries) + 1
          /\ ToSet(libs) = ToSet(d.libraries) \cup {file} /\ libs[Len(libs)] = file
          /\ \A k \in 1 .. Len(d.libraries) : libs[k] = d.libraries[k]
          /\ Len(d.libraries) \in Nat /\ DOMAIN libs = 1 .. Len(libs)
          /\ ToSet(d.libraries) = {d.libraries[k] : k \in 1 .. Len(d.libraries)}
      <3>1. IsSequence(d.libraries) /\ d.libraries \in Seq(Files)
        BY SequenceOf DEF Lists
      <3>2. libs \in Seq(Files)
        BY <2>2, <3>1, AppendProperties
      <3>3. DOMAIN libs = 1 .. Len(libs)
        BY <3>2, LenProperties
      <3> QED
        BY <3>1, <3>2, <3>3, AppendIsSequence, SequenceFacts
    <2>6. h \in [Files -> Int] /\ \A f \in Files : h[f] = IF f = file THEN d.handles[f] + 1
                                                                     ELSE d.handles[f]
      BY <2>2 DEF Lists
    <2> HIDE DEF libs, h, tab
    <2>7. s = [inited |-> d.inited, dirs |-> d.dirs, loaded |-> m.dyn.loaded,
               libraries |-> libs, handles |-> h, table |-> tab]
      <3>1. q = [inited |-> d.inited, dirs |-> d.dirs, loaded |-> m.dyn.loaded,
                 libraries |-> libs, handles |-> d.handles, table |-> d.table]
        BY <1>1 DEF Lists
      <3> HIDE DEF q
      <3>2. r = [inited |-> d.inited, dirs |-> d.dirs, loaded |-> m.dyn.loaded,
                 libraries |-> libs, handles |-> h, table |-> d.table]
        BY <3>1
      <3> HIDE DEF r
      <3> QED
        BY <3>2
    <2> HIDE DEF s
    <2>8. /\ s.inited = d.inited /\ s.dirs = d.dirs /\ s.loaded = m.dyn.loaded
          /\ s.libraries = libs /\ s.handles = h /\ s.table = tab
      BY <2>7
    <2>9. Lists(s)
      BY <1>1, <2>5, <2>6, <2>7, <2>8 DEF Lists
    <2>10. ASSUME Held(d) PROVE Held(s)
      <3>1. /\ \A f \in ToSet(d.libraries) : f[2] \in ToSet(d.loaded)
            /\ uri \in ToSet(m.dyn.loaded) /\ uri \notin ToSet(d.loaded)
            /\ ToSet(m.dyn.loaded) = ToSet(d.loaded) \cup {uri}
        <4>1. IsSequence(d.loaded) /\ m.dyn.loaded = Append(d.loaded, uri)
          BY <1>1, <2>1 DEF Lists
        <4>2. ToSet(m.dyn.loaded) = ToSet(d.loaded) \cup {uri}
          BY <4>1, AppendIsSequence
        <4>3. uri \notin ToSet(d.loaded)
          BY <1>1, <2>1
        <4> QED
          BY <2>10, <4>2, <4>3 DEF Held
      <3>2. file[2] = uri /\ file \notin ToSet(d.libraries)
        BY <3>1 DEF file
      <3>3. IsInjective(libs)
        <4> SUFFICES ASSUME NEW a \in 1 .. Len(libs), NEW b \in 1 .. Len(libs), libs[a] = libs[b]
                     PROVE  a = b
          BY <2>5 DEF IsInjective
        <4>1. /\ \A k \in 1 .. Len(libs) : k \in 1 .. Len(d.libraries) \/ k = Len(libs)
              /\ DOMAIN d.libraries = 1 .. Len(d.libraries)
          BY <2>5, LenProperties DEF Lists
        <4>2. \A k \in 1 .. Len(d.libraries) : libs[k] # file
          BY <2>5, <3>2
        <4> QED
          BY <2>5, <2>10, <4>1, <4>2 DEF Held, IsInjective
      <3>4. \A f \in Files : h[f] = IF f \in ToSet(libs) THEN 1 ELSE 0
        BY <2>5, <2>6, <2>10, <3>2 DEF Held
      <3>5. tab \subseteq ToSet(libs)
        BY <2>5, <2>10 DEF Held, tab
      <3>6. \A f \in ToSet(libs) : f[2] \in ToSet(m.dyn.loaded)
        BY <2>5, <3>1, <3>2
      <3> QED
        BY <2>8, <3>3, <3>4, <3>5, <3>6 DEF Held
    <2>11. Arrive(s, d, {uri})
      BY <1>1, <2>0, <2>8 DEF Arrive, tab
    <2> QED
      BY <2>4, <2>8, <2>9, <2>10, <2>11
  <1> QED
    BY <1>2, <1>3

\* So does loading what a document names.
LEMMA LoadKeeps ==
    ASSUME NEW d, Lists(d), NEW root, NEW inner, IsSequence(root.extensions), IsSequence(inner),
           \A i \in DOMAIN inner : IsSequence(inner[i].extensions),
           NEW new, new = slaxDynLoad(d, root, inner)
    PROVE  /\ Lists(new) /\ new.inited = d.inited /\ (Held(d) => Held(new))
           /\ Arrive(new, d, ToSet(slaxDynFindNamespaces(root, inner)))
  <1> DEFINE uris == slaxDynFindNamespaces(root, inner)
             n == Len(uris)
             Loaded(e, i) == slaxDynLoadNamespace(e, uris[i])
             Made(m, f) == f = [i \in 0 .. m |-> IF i = 0 THEN d ELSE Loaded(f[i - 1], i)]
             after == CHOOSE f : Made(n, f)
             Named(m) == {uris[i] : i \in 1 .. m}
             Kept(e, m) == /\ Lists(e) /\ e.inited = d.inited /\ (Held(d) => Held(e))
                           /\ Arrive(e, d, Named(m))
             Reached == {m \in Nat : \E f : Made(m, f)}
             K == {m \in Nat : m <= n => Kept(after[m], m)}
  <1>0. n \in Nat /\ ToSet(uris) = Named(n)
    BY NamespacesAreSequence, SequenceFacts
  <1>1. new = after[n]
    BY DEF slaxDynLoad
  <1> HIDE DEF n, uris
  <1>2. 0 \in Reached
    <2>1. Made(0, [i \in 0 .. 0 |-> d])
      OBVIOUS
    <2> HIDE DEF Made
    <2> QED
      BY <2>1
  <1>3. ASSUME NEW m \in Nat, m \in Reached PROVE m + 1 \in Reached
    <2>1. PICK f : Made(m, f)
      BY <1>3
    <2> DEFINE g == [i \in 0 .. (m + 1) |-> IF i = 0 THEN d ELSE Loaded(f[i - 1], i)]
    <2> HIDE DEF Loaded
    <2>2. \A i \in 0 .. m : g[i] = f[i]
      BY <2>1
    <2>3. ASSUME NEW i \in 0 .. (m + 1)
          PROVE  g[i] = IF i = 0 THEN d ELSE Loaded(g[i - 1], i)
      <3>1. i # 0 => i - 1 \in 0 .. m
        OBVIOUS
      <3> QED
        BY <2>2, <3>1
    <2>4. g = [i \in 0 .. (m + 1) |-> g[i]]
      OBVIOUS
    <2> HIDE DEF g
    <2>5. Made(m + 1, g)
      BY <2>3, <2>4
    <2> HIDE DEF Made
    <2> QED
      BY <2>5
  <1>4. Made(n, after)
    <2> HIDE DEF Reached, Made
    <2>1. n \in Reached
      BY <1>0, <1>2, <1>3, SetInduction
    <2> QED
      BY <2>1 DEF Reached
  <1> HIDE DEF after, Loaded
  <1>5. 0 \in K
    <2>1. after[0] = d /\ Named(0) = {}
      BY <1>0, <1>4
    <2> HIDE DEF Named
    <2> QED
      BY <2>1 DEF Arrive
  <1>6. ASSUME NEW m \in Nat, m \in K PROVE m + 1 \in K
    <2> SUFFICES ASSUME m + 1 <= n PROVE Kept(after[m + 1], m + 1)
      OBVIOUS
    <2> DEFINE old == after[m]
               e == after[m + 1]
               x == uris[m + 1]
    <2>1. e = slaxDynLoadNamespace(old, x)
      BY <1>0, <1>4 DEF Loaded
    <2>2. Kept(old, m)
      <3> HIDE DEF Kept
      <3> QED
        BY <1>0, <1>6
    <2>3. Named(m + 1) = Named(m) \cup {x}
      <3>1. 1 .. m + 1 = 1 .. m \cup {m + 1}
        OBVIOUS
      <3> QED
        BY <3>1
    <2> HIDE DEF old, e, x, Named
    <2>4. Lists(e) /\ e.inited = old.inited /\ (Held(old) => Held(e)) /\ Arrive(e, old, {x})
      BY <2>1, <2>2, LoadNamespaceKeeps
    <2>5. Arrive(e, d, Named(m + 1))
      BY <2>2, <2>3, <2>4 DEF Arrive
    <2>6. Kept(e, m + 1)
      BY <2>2, <2>4, <2>5
    <2> QED
      BY <2>6 DEF e
  <1> HIDE DEF K
  <1>7. n \in K
    BY <1>0, <1>5, <1>6, SetInduction
  <1>8. Kept(after[n], n)
    BY <1>0, <1>7 DEF K
  <1> QED
    BY <1>0, <1>1, <1>8 DEF uris

\* Setting up keeps lists whose libraries are all closed.
LEMMA InitKeeps ==
    ASSUME NEW d, Lists(d)
    PROVE  LET new == slaxDynInit(d)
           IN  /\ Lists(new) /\ new.inited /\ new.libraries = << >>
               /\ Held(d) /\ d.libraries = << >> => Held(new)
  <1> DEFINE x == (IF d.inited THEN d.dirs ELSE << >>) \o Environment \o <<BuiltinDir>>
             yes == TRUE
             none == << >>
             q == [d EXCEPT !.inited = yes]
             r == [q EXCEPT !.loaded = none]
             s == [r EXCEPT !.libraries = none]
             new == [s EXCEPT !.dirs = x]
  <1>0. d = [inited |-> d.inited, dirs |-> d.dirs, loaded |-> d.loaded,
             libraries |-> d.libraries, handles |-> d.handles, table |-> d.table]
    BY DEF Lists
  <1>1. slaxDynInit(d) = new
    BY Zenon DEF slaxDynInit
  <1>2. IsSequence(x)
    <2>1. IsSequence(IF d.inited THEN d.dirs ELSE << >>) /\ IsSequence(Environment)
      BY EmptyIsSequence, LoaderAssumption DEF Lists, IsSequence
    <2>2. IsSequence(<<BuiltinDir>>)
      <3>1. <<BuiltinDir>> \in Seq({BuiltinDir})
        OBVIOUS
      <3> QED
        BY <3>1, SequenceOf
    <2> QED
      BY <2>1, <2>2, ConcatIsSequence
  <1> HIDE DEF x, yes, none
  <1>3. q = [inited |-> yes, dirs |-> d.dirs, loaded |-> d.loaded,
             libraries |-> d.libraries, handles |-> d.handles, table |-> d.table]
    BY <1>0
  <1> HIDE DEF q
  <1>4. r = [inited |-> yes, dirs |-> d.dirs, loaded |-> none,
             libraries |-> d.libraries, handles |-> d.handles, table |-> d.table]
    BY <1>3
  <1> HIDE DEF r
  <1>5. s = [inited |-> yes, dirs |-> d.dirs, loaded |-> none,
             libraries |-> none, handles |-> d.handles, table |-> d.table]
    BY <1>4
  <1> HIDE DEF s
  <1>6. new = [inited |-> yes, dirs |-> x, loaded |-> none,
               libraries |-> none, handles |-> d.handles, table |-> d.table]
    BY <1>5
  <1> HIDE DEF new
  <1>7. /\ new.inited = TRUE /\ new.dirs = x /\ new.loaded = << >> /\ new.libraries = << >>
        /\ new.handles = d.handles /\ new.table = d.table
    BY <1>6 DEF yes, none
  <1>8. << >> \in Seq(Files)
    BY EmptySeq
  <1>9. Lists(new)
    BY <1>2, <1>6, <1>7, <1>8, EmptyIsSequence DEF Lists
  <1>10. Held(d) /\ d.libraries = << >> => Held(new)
    BY <1>7, EmptyIsSequence DEF Held
  <1> QED
    BY <1>1, <1>7, <1>9, <1>10

\* A directory more keeps what there is.
LEMMA AddKeeps ==
    ASSUME NEW d, Lists(d), d.inited \/ d.libraries = << >>, NEW dir
    PROVE  LET new == slaxDynAdd(d, dir)
           IN  /\ Lists(new) /\ new.inited /\ new.libraries = d.libraries
               /\ Held(d) => Held(new)
  <1> DEFINE ready == IF d.inited THEN d ELSE slaxDynInit(d)
             x == Append(ready.dirs, dir)
             new == [ready EXCEPT !.dirs = x]
  <1>1. slaxDynAdd(d, dir) = new
    BY Zenon DEF slaxDynAdd
  <1>2. /\ Lists(ready) /\ ready.inited = TRUE /\ ready.libraries = d.libraries
        /\ Held(d) => Held(ready)
    <2>1. CASE d.inited
      BY <2>1 DEF Lists
    <2>2. CASE ~d.inited
      BY <2>2, InitKeeps
    <2> QED
      BY <2>1, <2>2
  <1> HIDE DEF ready
  <1>3. IsSequence(x)
    BY <1>2, AppendIsSequence DEF Lists
  <1> HIDE DEF x
  <1>4. ready = [inited |-> ready.inited, dirs |-> ready.dirs, loaded |-> ready.loaded,
                 libraries |-> ready.libraries, handles |-> ready.handles, table |-> ready.table]
    BY <1>2 DEF Lists
  <1>5. new = [inited |-> ready.inited, dirs |-> x, loaded |-> ready.loaded,
               libraries |-> ready.libraries, handles |-> ready.handles, table |-> ready.table]
    BY <1>4
  <1> HIDE DEF new
  <1>6. /\ new.inited = ready.inited /\ new.dirs = x /\ new.loaded = ready.loaded
        /\ new.libraries = ready.libraries /\ new.handles = ready.handles
        /\ new.table = ready.table
    BY <1>5
  <1>7. Lists(new)
    BY <1>2, <1>3, <1>5, <1>6 DEF Lists
  <1>8. Held(ready) => Held(new)
    BY <1>6 DEF Held
  <1> QED
    BY <1>1, <1>2, <1>6, <1>7, <1>8

\* Everything that is open is closed, once.
LEMMA CleanKeeps ==
    ASSUME NEW d, Lists(d)
    PROVE  LET new == slaxDynClean(d)
           IN  /\ Lists(new) /\ new.inited = d.inited /\ new.libraries = << >>
               /\ Held(d) => Held(new)
  <1> DEFINE none == << >>
             x == IF d.inited THEN none ELSE d.dirs
             Count(f) == Cardinality({i \in DOMAIN d.libraries : d.libraries[i] = f})
             h == [f \in Files |-> d.handles[f] - Count(f)]
             tab == {f \in d.table : ~\E i \in DOMAIN d.libraries : d.libraries[i][2] = f[2]}
             p == [d EXCEPT !.dirs = x]
             q == [p EXCEPT !.loaded = none]
             r == [q EXCEPT !.libraries = none]
             s == [r EXCEPT !.handles = h]
             new == [s EXCEPT !.table = tab]
  <1>0. d = [inited |-> d.inited, dirs |-> d.dirs, loaded |-> d.loaded,
             libraries |-> d.libraries, handles |-> d.handles, table |-> d.table]
    BY DEF Lists
  <1>1. slaxDynClean(d) = new
    BY Zenon DEF slaxDynClean
  <1>2. Len(d.libraries) \in Nat /\ DOMAIN d.libraries = 1 .. Len(d.libraries)
    BY LenProperties DEF Lists
  <1>3. \A f : Count(f) \in Nat
    <2> TAKE f
    <2>1. IsFiniteSet(1 .. Len(d.libraries))
      BY <1>2, FS_Interval
    <2>2. IsFiniteSet({i \in DOMAIN d.libraries : d.libraries[i] = f})
      BY <1>2, <2>1, FS_Subset
    <2> QED
      BY <2>2, FS_CardinalityType
  <1>4. h \in [Files -> Int] /\ \A f \in Files : h[f] = d.handles[f] - Count(f)
    <2> HIDE DEF Count
    <2> QED
      BY <1>3 DEF Lists
  <1>5. IsSequence(x)
    BY EmptyIsSequence DEF Lists
  <1>6. ASSUME Held(d) PROVE tab = {} /\ \A f \in Files : h[f] = 0
    <2>1. tab = {}
      BY <1>6, <1>2 DEF Held, ToSet
    <2>2. ASSUME NEW f \in Files PROVE h[f] = 0
      <3>1. CASE f \in ToSet(d.libraries)
        <4>1. PICK i \in DOMAIN d.libraries : d.libraries[i] = f
          BY <3>1 DEF ToSet
        <4>2. {k \in DOMAIN d.libraries : d.libraries[k] = f} = {i}
          BY <1>6, <4>1 DEF Held, IsInjective
        <4>3. Count(f) = 1
          BY <4>2, FS_Singleton
        <4>4. d.handles[f] = 1
          BY <1>6, <3>1 DEF Held
        <4> HIDE DEF Count
        <4> QED
          BY <1>4, <4>3, <4>4
      <3>2. CASE f \notin ToSet(d.libraries)
        <4>1. {k \in DOMAIN d.libraries : d.libraries[k] = f} = {}
          BY <3>2 DEF ToSet
        <4>2. Count(f) = 0
          BY <4>1, FS_EmptySet
        <4>3. d.handles[f] = 0
          BY <1>6, <3>2 DEF Held
        <4> HIDE DEF Count
        <4> QED
          BY <1>4, <4>2, <4>3
      <3> QED
        BY <3>1, <3>2
    <2> QED
      BY <2>1, <2>2
  <1> HIDE DEF x, h, tab, none
  <1>7. new = [inited |-> d.inited, dirs |-> x, loaded |-> none,
               libraries |-> none, handles |-> h, table |-> tab]
    <2>1. p = [inited |-> d.inited, dirs |-> x, loaded |-> d.loaded,
               libraries |-> d.libraries, handles |-> d.handles, table |-> d.table]
      BY <1>0
    <2> HIDE DEF p
    <2>2. q = [inited |-> d.inited, dirs |-> x, loaded |-> none,
               libraries |-> d.libraries, handles |-> d.handles, table |-> d.table]
      BY <2>1
    <2> HIDE DEF q
    <2>3. r = [inited |-> d.inited, dirs |-> x, loaded |-> none,
               libraries |-> none, handles |-> d.handles, table |-> d.table]
      BY <2>2
    <2> HIDE DEF r
    <2>4. s = [inited |-> d.inited, dirs |-> x, loaded |-> none,
               libraries |-> none, handles |-> h, table |-> d.table]
      BY <2>3
    <2> HIDE DEF s
    <2> QED
      BY <2>4
  <1> HIDE DEF new
  <1>8. /\ new.inited = d.inited /\ new.dirs = x /\ new.loaded = << >> /\ new.libraries = << >>
        /\ new.handles = h /\ new.table = tab
    BY <1>7 DEF none
  <1>9. << >> \in Seq(Files)
    BY EmptySeq
  <1>10. Lists(new)
    BY <1>4, <1>5, <1>7, <1>8, <1>9, EmptyIsSequence DEF Lists
  <1>11. Held(d) => Held(new)
    <2> SUFFICES ASSUME Held(d) PROVE Held(new)
      OBVIOUS
    <2>1. DOMAIN << >> = {}
      OBVIOUS
    <2>2. IsInjective(<< >>)
      BY <2>1 DEF IsInjective
    <2> QED
      BY <1>6, <1>8, <2>2, EmptyIsSequence DEF Held
  <1> QED
    BY <1>1, <1>8, <1>10, <1>11


-----------------------------------------------------------------------------
(* Loading and the hooks *)

\* The directories of a path are a sequence.
LEMMA PathIsSequence ==
    ASSUME NEW path, Len(path) \in Nat
    PROVE  IsSequence(slaxIncludeAddPath(path))
  <1> DEFINE n == Len(path)
             Added(s, i) == IF i < Len(path) /\ path[i] \in OneLetter THEN s ELSE Append(s, path[i])
             Made(m, f) == f = [i \in 0 .. m |-> IF i = 0 THEN << >> ELSE Added(f[i - 1], i)]
             added == CHOOSE f : Made(n, f)
             Reached == {m \in Nat : \E f : Made(m, f)}
             K == {m \in Nat : m <= n => IsSequence(added[m])}
  <1>0. n \in Nat
    OBVIOUS
  <1>1. 0 \in Reached
    <2>1. Made(0, [i \in 0 .. 0 |-> << >>])
      OBVIOUS
    <2> HIDE DEF Made
    <2> QED
      BY <2>1
  <1>2. ASSUME NEW m \in Nat, m \in Reached PROVE m + 1 \in Reached
    <2>1. PICK f : Made(m, f)
      BY <1>2
    <2> DEFINE g == [i \in 0 .. (m + 1) |-> IF i = 0 THEN << >> ELSE Added(f[i - 1], i)]
    <2> HIDE DEF Added
    <2>2. \A i \in 0 .. m : g[i] = f[i]
      BY <2>1
    <2>3. ASSUME NEW i \in 0 .. (m + 1)
          PROVE  g[i] = IF i = 0 THEN << >> ELSE Added(g[i - 1], i)
      <3>1. i # 0 => i - 1 \in 0 .. m
        OBVIOUS
      <3> QED
        BY <2>2, <3>1
    <2>4. g = [i \in 0 .. (m + 1) |-> g[i]]
      OBVIOUS
    <2> HIDE DEF g
    <2>5. Made(m + 1, g)
      BY <2>3, <2>4
    <2> HIDE DEF Made
    <2> QED
      BY <2>5
  <1>3. Made(n, added)
    <2> HIDE DEF Reached, Made
    <2>1. n \in Reached
      BY <1>0, <1>1, <1>2, SetInduction
    <2> QED
      BY <2>1 DEF Reached
  <1>4. slaxIncludeAddPath(path) = added[n]
    BY Zenon DEF slaxIncludeAddPath
  <1> HIDE DEF added, Added
  <1>5. 0 \in K
    BY <1>0, <1>3, EmptyIsSequence
  <1>6. ASSUME NEW m \in Nat, m \in K PROVE m + 1 \in K
    <2> SUFFICES ASSUME m + 1 <= n PROVE IsSequence(added[m + 1])
      OBVIOUS
    <2>1. added[m + 1] = Added(added[m], m + 1) /\ IsSequence(added[m])
      BY <1>0, <1>3, <1>6
    <2> QED
      BY <2>1, AppendIsSequence DEF Added
  <1> HIDE DEF K
  <1>7. n \in K
    BY <1>0, <1>5, <1>6, SetInduction
  <1> QED
    BY <1>0, <1>4, <1>7 DEF K

\* A file that is found is there.
LEMMA FoundIsThere ==
    ASSUME IsSequence(slaxIncludes), NEW url, slaxFindIncludeFile(url) # NoFile
    PROVE  slaxFindIncludeFile(url) \in DOMAIN Scripts
  <1> DEFINE Has(d) == <<d, url[2]>> \in DOMAIN Scripts
             i == First(slaxIncludes, Has)
             I == {k \in 1 .. Len(slaxIncludes) : Has(slaxIncludes[k])}
  <1>1. CASE url \in DOMAIN Scripts
    BY <1>1 DEF slaxFindIncludeFile
  <1>2. CASE url \notin DOMAIN Scripts
    <2>1. i # 0 /\ slaxFindIncludeFile(url) = <<slaxIncludes[i], url[2]>>
      BY <1>2 DEF slaxFindIncludeFile
    <2>2. Len(slaxIncludes) \in Nat /\ DOMAIN slaxIncludes = 1 .. Len(slaxIncludes)
      BY SequenceFacts
    <2>3. I # {} /\ i = Min(I)
      BY <2>1, <2>2 DEF First, SelectInSeq
    <2>4. \E k \in I : \A m \in I : k <= m
      <3>1. I \subseteq Nat
        OBVIOUS
      <3> QED
        BY <2>3, <3>1, LeastNatural
    <2>5. Min(I) \in I
      BY <2>4 DEF Min
    <2>6. Has(slaxIncludes[i])
      BY <2>3, <2>5
    <2> QED
      BY <2>1, <2>6
  <1> QED
    BY <1>1, <1>2

(* Libraries are held while no shutdown forgot one; turned off, none is    *)
(* open, and turned on, the lists are set up; the entity loader is never   *)
(* lost.                                                                   *)
LoaderInv ==
    /\ HooksNest
    /\ entityLoader # "none"
    /\ IsSequence(slaxIncludes)
    /\ Lists(dyn)
    /\ forgotten \in BOOLEAN
    /\ slaxEnabled # 0 => dyn.inited
    /\ ~dyn.inited => dyn.libraries = << >>
    /\ ~forgotten => Held(dyn)
    /\ ~forgotten /\ slaxEnabled = 0 => dyn.libraries = << >>

LEMMA LoaderInvInit == Init => LoaderInv
  <1> SUFFICES ASSUME Init PROVE LoaderInv
    OBVIOUS
  <1> QED
    BY NothingHeld, EmptyIsSequence DEF Init, LoaderInv, HooksNest

LEMMA ToldOnce ==
    ASSUME LoaderInv, ~forgotten
    PROVE  LibrariesHeld
  <1>1. ToSet(dyn.libraries) \subseteq Files
    BY DEF LoaderInv, Lists, ToSet
  <1> QED
    BY <1>1 DEF LoaderInv, Held, LibrariesHeld

LEMMA ScriptFacts ==
    ASSUME NEW file \in DOMAIN Scripts
    PROVE  LET script == Scripts[file]
           IN  /\ file = <<file[1], file[2]>> /\ file[2] \in Seq(Nat)
               /\ IsSequence(script.uses) /\ IsSequence(script.inner)
               /\ \A node \in {script} \cup ToSet(script.inner) : IsSequence(node.extensions)
  BY LoaderAssumption, Zenon DEF IsSequence

\* What is loaded of a file, with its extensions a second time.
LEMMA LoadedTwiceKeeps ==
    ASSUME LoaderInv, NEW file \in DOMAIN Scripts,
           NEW new, new = LoadedTwice(file)
    PROVE  /\ Lists(new) /\ new.inited = dyn.inited /\ (Held(dyn) => Held(new))
           /\ Errors(Scripts[file]) = {} =>
                Arrive(new, dyn, ToSet(slaxDynFindNamespaces(Parsed(Scripts[file]),
                                                             Scripts[file].inner)))
  <1> DEFINE script == Scripts[file]
             root == Parsed(script)
             uris == ToSet(slaxDynFindNamespaces(root, script.inner))
             once == slaxDynLoad(dyn, root, script.inner)
  <1>1. /\ IsSequence(script.uses) /\ IsSequence(script.inner)
        /\ IsSequence(script.extensions)
        /\ \A i \in DOMAIN script.inner : IsSequence(script.inner[i].extensions)
    BY ScriptFacts DEF ToSet
  <1>2. IsSequence(root.extensions)
    BY <1>1, ParsedRooted DEF Rooted
  <1>3. Lists(dyn)
    BY DEF LoaderInv
  <1>4. CASE Errors(script) # {}
    BY <1>3, <1>4 DEF LoadedTwice
  <1>5. CASE Errors(script) = {}
    <2>1. new = slaxDynLoad(once, root, script.inner)
      BY <1>5, Zenon DEF LoadedTwice, slaxLoadFile
    <2> HIDE DEF script, root
    <2>2. /\ Lists(once) /\ once.inited = dyn.inited /\ (Held(dyn) => Held(once))
          /\ Arrive(once, dyn, uris)
      BY <1>1, <1>2, <1>3, LoadKeeps
    <2> HIDE DEF once
    <2>3. /\ Lists(new) /\ new.inited = once.inited /\ (Held(once) => Held(new))
          /\ Arrive(new, once, uris)
      BY <1>1, <1>2, <2>1, <2>2, LoadKeeps
    <2> HIDE DEF uris
    <2>4. Arrive(new, dyn, uris)
      BY <2>2, <2>3 DEF Arrive
    <2> QED
      BY <2>2, <2>3, <2>4 DEF uris, root, script
  <1> QED
    BY <1>4, <1>5

LEMMA LoaderInvNext ==
    ASSUME LoaderInv, [Next]_vars
    PROVE  LoaderInv'
  <1> USE DEF LoaderInv
  <1>1. ASSUME NEW path \in SeqOf(Directories, 2) \ {<< >>}, slaxIncludeAdd(path)
        PROVE  LoaderInv'
    <2>1. Len(path) \in Nat
      <3>1. PICK m \in 0 .. 2 : path \in [1 .. m -> Directories]
        BY DEF SeqOf
      <3>2. m \in Nat /\ path \in Seq(Directories)
        BY <3>1, SeqDef
      <3> QED
        BY <3>2, LenProperties
    <2>2. IsSequence(slaxIncludes')
      BY <1>1, <2>1, PathIsSequence, ConcatIsSequence DEF slaxIncludeAdd
    <2> QED
      BY <1>1, <2>2 DEF slaxIncludeAdd, Hooks, HooksNest
  <1>2. ASSUME NEW dir \in Directories, AddLibraryPath(dir)
        PROVE  LoaderInv'
    <2>1. /\ Lists(dyn') /\ dyn'.inited /\ dyn'.libraries = dyn.libraries
          /\ Held(dyn) => Held(dyn')
      BY <1>2, AddKeeps DEF AddLibraryPath
    <2> QED
      BY <1>2, <2>1 DEF AddLibraryPath, Hooks, HooksNest
  <1>3. ASSUME MarkExslt PROVE LoaderInv'
    <2>1. dyn' = slaxDynMarkLoaded(dyn, "exslt.ext").dyn
      BY <1>3 DEF MarkExslt, slaxDynMarkExslt
    <2>2. /\ Lists(dyn') /\ dyn'.inited = dyn.inited /\ dyn'.libraries = dyn.libraries
          /\ Held(dyn) => Held(dyn')
      BY <2>1, MarkLoaded
    <2> QED
      BY <1>3, <2>2 DEF MarkExslt, Hooks, HooksNest
  <1>4. ASSUME slaxCleanup PROVE LoaderInv'
    BY <1>4, EmptyIsSequence DEF slaxCleanup, HooksNest
  <1>5. ASSUME slaxEnable PROVE LoaderInv'
    <2>1. ASSUME NEW e \in 1 .. 2, slaxTurnOn(e) PROVE LoaderInv'
      <3>1. /\ Lists(dyn') /\ dyn'.inited /\ dyn'.libraries = << >>
            /\ Held(dyn) /\ dyn.libraries = << >> => Held(dyn')
        BY <2>1, InitKeeps DEF slaxTurnOn
      <3>2. HooksNest'
        BY <2>1 DEF slaxTurnOn, HooksNest, Save
      <3> QED
        BY <2>1, <3>1, <3>2 DEF slaxTurnOn
    <2>2. ASSUME NEW e \in 1 .. 2, slaxSwitch(e) PROVE LoaderInv'
      BY <2>2 DEF slaxSwitch, HooksNest
    <2> QED
      BY <1>5, <2>1, <2>2 DEF slaxEnable
  <1>6. ASSUME slaxTurnOff PROVE LoaderInv'
    <2>1. /\ Lists(dyn') /\ dyn'.inited = dyn.inited /\ dyn'.libraries = << >>
          /\ Held(dyn) => Held(dyn')
      BY <1>6, CleanKeeps DEF slaxTurnOff
    <2>2. HooksNest' /\ entityLoader' # "none"
      BY <1>6 DEF slaxTurnOff, HooksNest
    <2> QED
      BY <1>6, <2>1, <2>2, EmptyIsSequence DEF slaxTurnOff
  <1>7. ASSUME LoadScript PROVE LoaderInv'
    <2>1. PICK file \in DOMAIN Scripts, d \in Directories \cup {Bare} :
             LET res == slaxLoader(<<d, slaxElementAddEscaped(file[2])>>)
             IN  dyn' = IF res.file = NoFile THEN dyn ELSE LoadedTwice(res.file)
      BY <1>7 DEF LoadScript
    <2> DEFINE url == <<d, slaxElementAddEscaped(file[2])>>
               found == slaxFindIncludeFile(<<url[1], Unescaped(url[2])>>)
    <2>2. slaxLoader(url).file = found
      BY DEF slaxLoader, NoResult
    <2> HIDE DEF url
    <2>3. CASE found = NoFile
      BY <1>7, <2>1, <2>2, <2>3 DEF LoadScript, Hooks, HooksNest, url
    <2>4. CASE found # NoFile
      <3>1. found \in DOMAIN Scripts
        BY <2>4, FoundIsThere
      <3>2. dyn' = LoadedTwice(found)
        BY <2>1, <2>2, <2>4 DEF url
      <3>3. Lists(dyn') /\ dyn'.inited = dyn.inited /\ (Held(dyn) => Held(dyn'))
        BY <3>1, <3>2, LoadedTwiceKeeps
      <3>4. slaxEnabled # 0
        BY <1>7 DEF LoadScript, HooksNest
      <3> QED
        BY <1>7, <3>3, <3>4 DEF LoadScript, Hooks, HooksNest
    <2> QED
      BY <2>3, <2>4
  <1>8. ASSUME LoadOther PROVE LoaderInv'
    BY <1>8 DEF LoadOther, Hooks, HooksNest
  <1>9. ASSUME CleanLibraries PROVE LoaderInv'
    <2>1. /\ Lists(dyn') /\ dyn'.inited = dyn.inited /\ dyn'.libraries = << >>
          /\ Held(dyn) => Held(dyn')
      BY <1>9, CleanKeeps DEF CleanLibraries
    <2> QED
      BY <1>9, <2>1 DEF CleanLibraries, Hooks, HooksNest
  <1>10. CASE UNCHANGED vars
    BY <1>10 DEF vars, HooksNest
  <1> QED
    BY <1>1, <1>2, <1>3, <1>4, <1>5, <1>6, <1>7, <1>8, <1>9, <1>10 DEF Next

\* However calls of slaxEnable, shutdowns and loading are mixed, every library that is in
\* the list is open once with its functions known for as long, and the hooks kept as the
\* original ones are never our own (slaxEnable, slaxDynLoadNamespace, slaxDynClean).
THEOREM EnableAlwaysNests ==
    Spec => []EnableNests
  <1>1. Init => LoaderInv
    BY LoaderInvInit
  <1>2. LoaderInv /\ [Next]_vars => LoaderInv'
    BY LoaderInvNext
  <1>3. LoaderInv => EnableNests
    BY ToldOnce DEF LoaderInv, EnableNests, LibrariesHeld
  <1> QED
    BY <1>1, <1>2, <1>3, PTL DEF Spec

-----------------------------------------------------------------------------
(* What a script that is loaded has *)

\* Where a namespace can be found its file is found, the first one.
LEMMA FindableIsReady ==
    ASSUME LoaderInv, NEW uri, Findable(uri),
           Libraries[FileFor(dyn.dirs, uri)[1]][uri].initializer,
           Libraries[FileFor(dyn.dirs, uri)[1]][uri].functions
    PROVE  Ready(dyn.dirs, uri)
  <1> DEFINE Has(d) == d \in DOMAIN Libraries /\ uri \in DOMAIN Libraries[d]
             dirs == dyn.dirs
             I == {k \in 1 .. Len(dirs) : Has(dirs[k])}
  <1>1. Len(dirs) \in Nat /\ DOMAIN dirs = 1 .. Len(dirs)
    BY SequenceFacts DEF LoaderInv, Lists
  <1>2. PICK k \in DOMAIN dirs : Has(dirs[k])
    BY DEF Findable
  <1>3. I # {} /\ I \subseteq Nat
    BY <1>1, <1>2
  <1>4. \E j \in I : \A m \in I : j <= m
    BY <1>3, LeastNatural
  <1>5. Min(I) \in I
    BY <1>4 DEF Min
  <1>6. First(dirs, Has) = Min(I)
    BY <1>1, <1>2, <1>3 DEF First, SelectInSeq
  <1>7. First(dyn.dirs, LAMBDA d : d \in DOMAIN Libraries /\ uri \in DOMAIN Libraries[d]) # 0
    BY <1>5, <1>6
  <1> QED
    BY <1>7, Zenon DEF Ready

\* What a step that answers for a script has done.
LEMMA AnswerForScript ==
    ASSUME LoaderInv, [Next]_vars, result' # result
    PROVE  \/ ~result'.ok /\ ~slaxIsSlaxFile(result'.asked)
           \/ \E name \in {file[2] : file \in DOMAIN Scripts} : \E d :
                 /\ result' = slaxLoader(<<d, slaxElementAddEscaped(name)>>)
                 /\ dyn' = IF result'.file = NoFile THEN dyn ELSE LoadedTwice(result'.file)
  <1>1. CASE LoadScript
    BY <1>1 DEF LoadScript
  <1>2. CASE LoadOther
    <2>1. PICK url : ~slaxIsSlaxFile(url) /\ \E f : result' = [NoResult EXCEPT !.asked = url, !.file = f]
      BY <1>2 DEF LoadOther
    <2>2. PICK f : result' = [NoResult EXCEPT !.asked = url, !.file = f]
      BY <2>1
    <2>3. result'.asked = url /\ ~result'.ok
      BY <2>2 DEF NoResult
    <2> QED
      BY <2>1, <2>3
  <1>3. CASE LoadScript \/ LoadOther
    BY <1>1, <1>2, <1>3
  <1>4. LoadScript \/ LoadOther
    BY DEF Next, vars, slaxIncludeAdd, AddLibraryPath, MarkExslt, slaxCleanup, slaxEnable,
           slaxTurnOn, slaxSwitch, slaxTurnOff, CleanLibraries
  <1> QED
    BY <1>3, <1>4

LEMMA StepExtensionsArrive ==
    ASSUME LoaderInv, [Next]_vars
    PROVE  \A file \in DOMAIN Scripts :
              LET script == Scripts[file]
                  wellKnown == {slaxDynFindPrefix(dyn, p) :
                                   p \in ToSet(script.uses) \ DOMAIN Declared(script).ns}
                  uris == {n.uri : n \in {n \in wellKnown : n.extension}}
                             \cup Designated(Declared(script))
                             \cup UNION {Designated(node) : node \in ToSet(script.inner)}
              IN result' # result /\ result'.file = file /\ result'.ok =>
                    \A u \in uris :
                       u \notin ToSet(dyn.loaded) \cup {SlaxUri} /\ Findable(u)
                          /\ Libraries[FirstFile(u)[1]][u].initializer
                          /\ Libraries[FirstFile(u)[1]][u].functions
                       => FirstFile(u) \in dyn'.table
  <1> TAKE file \in DOMAIN Scripts
  <1> DEFINE script == Scripts[file]
             wellKnown == {slaxDynFindPrefix(dyn, p) :
                              p \in ToSet(script.uses) \ DOMAIN Declared(script).ns}
             uris == {n.uri : n \in {n \in wellKnown : n.extension}}
                        \cup Designated(Declared(script))
                        \cup UNION {Designated(node) : node \in ToSet(script.inner)}
             root == Parsed(script)
             tried == ToSet(slaxDynFindNamespaces(root, script.inner))
  <1> SUFFICES ASSUME result' # result, result'.file = file, result'.ok, NEW u \in uris,
                      u \notin ToSet(dyn.loaded) \cup {SlaxUri}, Findable(u),
                      Libraries[FirstFile(u)[1]][u].initializer,
                      Libraries[FirstFile(u)[1]][u].functions
               PROVE  FirstFile(u) \in dyn'.table
    OBVIOUS
  <1>1. Errors(script) = {} /\ dyn' = LoadedTwice(file)
    <2>1. PICK name, d :
             /\ result' = slaxLoader(<<d, slaxElementAddEscaped(name)>>)
             /\ dyn' = IF result'.file = NoFile THEN dyn ELSE LoadedTwice(result'.file)
      BY AnswerForScript
    <2> DEFINE url == <<d, slaxElementAddEscaped(name)>>
               found == slaxFindIncludeFile(<<url[1], Unescaped(url[2])>>)
    <2> HIDE DEF url
    <2>2. result' = IF found = NoFile THEN [NoResult EXCEPT !.asked = url]
                    ELSE [asked |-> url, file |-> found, root |-> Parsed(Scripts[found]),
                          ok |-> Errors(Scripts[found]) = {}]
      BY <2>1 DEF slaxLoader, url
    <2>3. found # NoFile
      BY <2>2 DEF NoResult
    <2>4. found = file
      BY <2>2, <2>3
    <2>5. result'.ok = (Errors(script) = {})
      BY <2>2, <2>3, <2>4
    <2> QED
      BY <2>1, <2>3, <2>4, <2>5
  <1>2. /\ IsSequence(script.uses) /\ IsSequence(script.inner) /\ IsSequence(script.extensions)
        /\ \A i \in DOMAIN script.inner : IsSequence(script.inner[i].extensions)
    BY ScriptFacts DEF ToSet
  <1>3. Arrive(dyn', dyn, tried)
    BY <1>1, LoadedTwiceKeeps
  <1>4. /\ Rooted(root) /\ Extends(root, Declared(script))
        /\ \A p \in ToSet(script.uses) \ DOMAIN Declared(script).ns :
              slaxDynFindPrefix(dyn, p).extension
                 => Designates(root, p, slaxDynFindPrefix(dyn, p).uri)
    BY <1>2, ParsedRooted
  <1>5. /\ Designated(root) \subseteq tried
        /\ \A node \in ToSet(script.inner) : Designated(node) \subseteq tried
    <2> HIDE DEF script, root
    <2> QED
      BY <1>2, <1>4, NamespacesAreSequence DEF Rooted
  <1>6. u \in tried
    <2> HIDE DEF tried, root
    <2>1. CASE u \in {n.uri : n \in {n \in wellKnown : n.extension}}
      <3>1. PICK p \in ToSet(script.uses) \ DOMAIN Declared(script).ns :
               slaxDynFindPrefix(dyn, p).extension /\ u = slaxDynFindPrefix(dyn, p).uri
        BY <2>1
      <3>2. Designates(root, p, u)
        BY <1>4, <3>1
      <3> QED
        BY <1>5, <3>2 DEF Designates, Designated
    <2>2. CASE u \in Designated(Declared(script))
      BY <1>4, <1>5, <2>2 DEF Extends, Designated
    <2>3. CASE u \in UNION {Designated(node) : node \in ToSet(script.inner)}
      BY <1>5, <2>3
    <2> QED
      BY <2>1, <2>2, <2>3
  <1>7. FirstFile(u) = FileFor(dyn.dirs, u)
    BY DEF FirstFile, FileFor
  <1>8. Ready(dyn.dirs, u)
    BY <1>7, FindableIsReady
  <1> HIDE DEF uris, tried
  <1> QED
    BY <1>3, <1>6, <1>7, <1>8 DEF Arrive

-----------------------------------------------------------------------------
(* Names of imports *)

\* A character as it is written: itself, or a percent sign and two digits for it.
LEMMA Escapes ==
    ASSUME NEW c \in Nat
    PROVE  /\ IsSequence(Escape(c))
           /\ \/ /\ Len(Escape(c)) = 1 /\ Escape(c)[1] = c /\ c # Percent
              \/ /\ Len(Escape(c)) = 3 /\ Escape(c)[1] = Percent
                 /\ 16 * (Escape(c)[2] - Zero) + (Escape(c)[3] - Zero) = c
  <1>1. Percent \in Nat /\ Zero \in Nat
    BY LoaderAssumption
  <1>2. CASE c \in {Space, Percent}
    <2> DEFINE a == Zero + (c \div 16)
               b == Zero + (c % 16)
    <2>1. Escape(c) = <<Percent, a, b>>
      BY <1>2 DEF Escape
    <2>2. c \div 16 \in Nat /\ c % 16 \in Nat /\ c = 16 * (c \div 16) + (c % 16)
      BY DivisionFacts
    <2>3. 16 * (a - Zero) + (b - Zero) = c
      <3>1. a - Zero = c \div 16 /\ b - Zero = c % 16
        BY <1>1, <2>2
      <3> QED
        BY <2>2, <3>1
    <2> HIDE DEF a, b
    <2>4. <<Percent, a, b>> \in Seq({Percent, a, b})
      OBVIOUS
    <2>5. IsSequence(Escape(c))
      BY <2>1, <2>4, SequenceOf
    <2> QED
      BY <2>1, <2>3, <2>5
  <1>3. CASE c \notin {Space, Percent}
    <2>1. Escape(c) = <<c>> /\ <<c>> \in Seq({c})
      BY <1>3 DEF Escape
    <2>2. IsSequence(Escape(c))
      BY <2>1, SequenceOf
    <2> QED
      BY <1>3, <2>1, <2>2
  <1> QED
    BY <1>2, <1>3

\* The loop that reads a url goes through it once.
LEMMA UnescapedSteps ==
    ASSUME NEW url, Len(url) \in Nat
    PROVE  \E after : /\ after[0] = [up |-> 0, np |-> << >>]
                      /\ \A k \in 1 .. Len(url) : after[k] =
                            LET up == after[k - 1].up
                                np == after[k - 1].np
                            IN IF up >= Len(url) THEN after[k - 1]
                               ELSE IF url[up + 1] = Percent
                               THEN [up |-> up + 3, np |-> Append(np, 16 * DigitAt(url, up + 2)
                                                                        + DigitAt(url, up + 3))]
                               ELSE [up |-> up + 1, np |-> Append(np, url[up + 1])]
                      /\ Unescaped(url) = after[Len(url)].np
  <1> DEFINE n == Len(url)
             Read(r) == IF r.up >= n THEN r
                        ELSE IF url[r.up + 1] = Percent
                        THEN [up |-> r.up + 3, np |-> Append(r.np, 16 * DigitAt(url, r.up + 2)
                                                                   + DigitAt(url, r.up + 3))]
                        ELSE [up |-> r.up + 1, np |-> Append(r.np, url[r.up + 1])]
             none == [up |-> 0, np |-> << >>]
             Made(m, f) == f = [k \in 0 .. m |-> IF k = 0 THEN none ELSE Read(f[k - 1])]
             after == CHOOSE f : Made(n, f)
             Reached == {m \in Nat : \E f : Made(m, f)}
  <1>1. 0 \in Reached
    <2>1. Made(0, [i \in 0 .. 0 |-> none])
      OBVIOUS
    <2> HIDE DEF Made
    <2> QED
      BY <2>1
  <1>2. ASSUME NEW m \in Nat, m \in Reached PROVE m + 1 \in Reached
    <2>1. PICK f : Made(m, f)
      BY <1>2
    <2> DEFINE g == [i \in 0 .. (m + 1) |-> IF i = 0 THEN none ELSE Read(f[i - 1])]
    <2> HIDE DEF Read, none
    <2>2. \A i \in 0 .. m : g[i] = f[i]
      BY <2>1
    <2>3. ASSUME NEW i \in 0 .. (m + 1)
          PROVE  g[i] = IF i = 0 THEN none ELSE Read(g[i - 1])
      <3>1. i # 0 => i - 1 \in 0 .. m
        OBVIOUS
      <3> QED
        BY <2>2, <3>1
    <2>4. g = [i \in 0 .. (m + 1) |-> g[i]]
      OBVIOUS
    <2> HIDE DEF g
    <2>5. Made(m + 1, g)
      BY <2>3, <2>4
    <2> HIDE DEF Made
    <2> QED
      BY <2>5
  <1>3. Made(n, after)
    <2> HIDE DEF Reached, Made
    <2>1. n \in Reached
      BY <1>1, <1>2, SetInduction
    <2> QED
      BY <2>1 DEF Reached
  <1>4. Unescaped(url) = after[n].np
    BY DEF Unescaped
  <1> HIDE DEF after, Read, none
  <1>5. after[0] = none /\ \A k \in 1 .. n : after[k] = Read(after[k - 1])
    BY <1>3
  <1> QED
    BY <1>4, <1>5 DEF Read, none

\* The name that is read of a url is the one that was written.
LEMMA UnescapedIsName ==
    ASSUME NEW name \in Seq(Nat)
    PROVE  Unescaped(slaxElementAddEscaped(name)) = name
  <1> DEFINE n == Len(name)
             seqs == [i \in DOMAIN name |-> Escape(name[i])]
             url == slaxElementAddEscaped(name)
             N == Len(url)
  <1>1. n \in Nat /\ DOMAIN name = 1 .. n /\ \A i \in 1 .. n : name[i] \in Nat
    BY LenProperties
  <1>2. url = FlattenSeq(seqs)
    BY DEF slaxElementAddEscaped
  <1>3. IsSequence(seqs) /\ Len(seqs) = n /\ \A i \in 1 .. n : seqs[i] = Escape(name[i])
    <2> DEFINE T == {Escape(name[i]) : i \in 1 .. n}
    <2>1. seqs \in [1 .. n -> T]
      BY <1>1
    <2>2. seqs \in Seq(T) /\ Len(seqs) = n
      <3> HIDE DEF seqs, T
      <3>1. seqs \in Seq(T)
        BY <1>1, <2>1, SeqDef
      <3>2. DOMAIN seqs = 1 .. n
        BY <2>1
      <3> QED
        BY <1>1, <3>1, <3>2, LenProperties
    <2>3. \A i \in 1 .. n : seqs[i] = Escape(name[i])
      BY <1>1
    <2> QED
      BY <2>2, <2>3, SequenceOf
  <1> HIDE DEF seqs, url, n
  <1>4. \A i \in DOMAIN seqs : IsSequence(seqs[i])
    BY <1>1, <1>3, Escapes, SequenceFacts
  <1>5. N \in Nat
    BY <1>2, <1>3, <1>4, FlattenIsSequence, SequenceFacts
  <1>flat. PICK off : Follow(seqs, FlattenSeq(seqs), off)
    BY <1>3, <1>4, FlattenIsSequence, Zenon
  <1>6. /\ off[0] = 0 /\ off[n] = N
        /\ \A i \in 1 .. n :
              /\ off[i - 1] \in Nat /\ off[i] = off[i - 1] + Len(seqs[i]) /\ off[i] <= N
              /\ \A j \in 1 .. Len(seqs[i]) : url[off[i - 1] + j] = seqs[i][j]
    <2>2. off[0] = 0 /\ off[n] = N
      BY <1>2, <1>3, <1>flat DEF Follow
    <2>3. ASSUME NEW i \in 1 .. n
          PROVE  /\ off[i - 1] \in Nat /\ off[i] = off[i - 1] + Len(seqs[i]) /\ off[i] <= N
                 /\ \A j \in 1 .. Len(seqs[i]) : url[off[i - 1] + j] = seqs[i][j]
      BY <1>2, <1>3, <1>flat DEF Follow
    <2> HIDE DEF N
    <2> QED
      BY <2>2, <2>3, Zenon
  <1>7. PICK after :
           /\ after[0] = [up |-> 0, np |-> << >>]
           /\ \A k \in 1 .. N : after[k] =
                 LET up == after[k - 1].up
                     np == after[k - 1].np
                 IN IF up >= N THEN after[k - 1]
                    ELSE IF url[up + 1] = Percent
                    THEN [up |-> up + 3, np |-> Append(np, 16 * DigitAt(url, up + 2)
                                                             + DigitAt(url, up + 3))]
                    ELSE [up |-> up + 1, np |-> Append(np, url[up + 1])]
           /\ Unescaped(url) = after[N].np
    BY <1>5, UnescapedSteps
  <1> HIDE DEF N
  <1> DEFINE Read(r, m) ==
                 /\ r.up = off[m] /\ r.np \in Seq(Nat) /\ Len(r.np) = m
                 /\ \A i \in 1 .. m : r.np[i] = name[i]
             Kept(m) == off[m] \in Nat /\ off[m] >= m /\ m <= N /\ Read(after[m], m)
             K == {m \in Nat : m <= n => Kept(m)}
  <1>8. 0 \in K
    <2>1. << >> \in Seq(Nat) /\ Len(<< >>) = 0
      BY EmptySeq
    <2>2. 1 .. 0 = {}
      OBVIOUS
    <2>3. after[0].up = 0 /\ after[0].np = << >>
      BY <1>7
    <2>4. Read(after[0], 0)
      BY <1>6, <2>1, <2>2, <2>3
    <2> QED
      BY <1>5, <1>6, <2>4
  <1>9. ASSUME NEW m \in Nat, m \in K PROVE m + 1 \in K
    <2> SUFFICES ASSUME m + 1 <= n PROVE Kept(m + 1)
      OBVIOUS
    <2> DEFINE k == m + 1
               c == name[k]
               o == off[m]
               r == after[m]
               new == after[k]
               e == seqs[k]
    <2>1. k \in 1 .. n /\ k - 1 = m /\ c \in Nat /\ e = Escape(c)
      BY <1>1, <1>3
    <2>2. Kept(m)
      <3> HIDE DEF Kept
      <3> QED
        BY <1>1, <1>9
    <2>3. r.up = o /\ r.np \in Seq(Nat) /\ Len(r.np) = m /\ \A i \in 1 .. m : r.np[i] = name[i]
      BY <2>2
    <2>4. /\ o \in Nat /\ o >= m /\ off[k] = o + Len(e) /\ off[k] <= N
          /\ \A j \in 1 .. Len(e) : url[o + j] = e[j]
      <3>1. off[k - 1] = o
        BY <2>1
      <3> HIDE DEF o, e, k
      <3> QED
        BY <1>6, <2>1, <2>2, <3>1 DEF o, e
    <2> HIDE DEF c, o, r, new, e
    <2>5. \/ Len(e) = 1 /\ e[1] = c /\ c # Percent
          \/ Len(e) = 3 /\ e[1] = Percent /\ 16 * (e[2] - Zero) + (e[3] - Zero) = c
      BY <2>1, Escapes
    <2>6. k <= N /\ off[k] \in Nat /\ off[k] >= k /\ o < N
      BY <1>5, <2>1, <2>4, <2>5
    <2>7. new = IF url[o + 1] = Percent
                THEN [up |-> o + 3, np |-> Append(r.np, 16 * DigitAt(url, o + 2)
                                                        + DigitAt(url, o + 3))]
                ELSE [up |-> o + 1, np |-> Append(r.np, url[o + 1])]
      <3>1. k \in 1 .. N /\ after[k - 1] = r
        BY <1>5, <2>1, <2>6 DEF r
      <3>2. ~(r.up >= N)
        BY <1>5, <2>3, <2>4, <2>6
      <3> QED
        BY <1>7, <2>3, <3>1, <3>2, Zenon DEF new
    <2>8. new = [up |-> off[k], np |-> Append(r.np, c)]
      <3>1. CASE Len(e) = 1 /\ e[1] = c /\ c # Percent
        <4>1. url[o + 1] = c
          BY <2>4, <3>1
        <4> QED
          BY <2>4, <2>7, <3>1, <4>1
      <3>2. CASE Len(e) = 3 /\ e[1] = Percent /\ 16 * (e[2] - Zero) + (e[3] - Zero) = c
        <4>1. url[o + 1] = Percent /\ url[o + 2] = e[2] /\ url[o + 3] = e[3]
          BY <2>4, <3>2
        <4>2. o + 2 <= N /\ o + 3 <= N
          BY <1>5, <2>4, <3>2
        <4>3. DigitAt(url, o + 2) = e[2] - Zero /\ DigitAt(url, o + 3) = e[3] - Zero
          BY <4>1, <4>2 DEF DigitAt, N
        <4> QED
          BY <2>4, <2>7, <3>2, <4>1, <4>3
      <3> QED
        BY <2>5, <3>1, <3>2
    <2>9. /\ Append(r.np, c) \in Seq(Nat) /\ Len(Append(r.np, c)) = k
          /\ \A i \in 1 .. k : Append(r.np, c)[i] = name[i]
      <3>1. /\ Append(r.np, c) \in Seq(Nat) /\ Len(Append(r.np, c)) = m + 1
            /\ Append(r.np, c)[m + 1] = c
            /\ \A i \in 1 .. m : Append(r.np, c)[i] = r.np[i]
        BY <2>1, <2>3, AppendProperties
      <3>2. \A i \in 1 .. k : i \in 1 .. m \/ i = m + 1
        OBVIOUS
      <3> QED
        BY <2>3, <3>1, <3>2 DEF c
    <2>10. Read(new, k)
      BY <2>8, <2>9
    <2> HIDE DEF Read
    <2> QED
      BY <2>6, <2>10 DEF new
  <1>10. Kept(n)
    <2> HIDE DEF K, Kept
    <2>1. n \in K
      BY <1>1, <1>8, <1>9, SetInduction
    <2> QED
      BY <1>1, <2>1 DEF K
  <1> DEFINE L == {m \in Nat : n + m <= N => after[n + m] = after[n]}
  <1>11. 0 \in L
    <2>1. n + 0 = n
      BY <1>1
    <2> QED
      BY <2>1
  <1>12. ASSUME NEW m \in Nat, m \in L PROVE m + 1 \in L
    <2> SUFFICES ASSUME n + (m + 1) <= N PROVE after[n + (m + 1)] = after[n]
      OBVIOUS
    <2> DEFINE k == n + (m + 1)
    <2>1. k \in 1 .. N /\ k - 1 = n + m /\ n + m <= N
      BY <1>1, <1>5
    <2>2. after[k - 1] = after[n]
      BY <1>12, <2>1
    <2>3. after[k - 1].up >= N
      BY <1>5, <1>6, <1>10, <2>2
    <2> HIDE DEF k
    <2>4. after[k] = after[k - 1]
      BY <1>7, <2>1, <2>3, Zenon
    <2> QED
      BY <2>2, <2>4 DEF k
  <1>13. after[N] = after[n]
    <2>1. N - n \in Nat /\ n + (N - n) = N
      BY <1>1, <1>5, <1>10
    <2> HIDE DEF L
    <2>2. N - n \in L
      BY <1>11, <1>12, <2>1, SetInduction
    <2> QED
      BY <1>5, <2>1, <2>2 DEF L
  <1>14. Unescaped(url) = after[n].np
    BY <1>7, <1>13
  <1>15. after[n].np = name
    <2> DEFINE np == after[n].np
    <2>1. np \in Seq(Nat) /\ Len(np) = Len(name) /\ \A i \in 1 .. Len(np) : np[i] = name[i]
      BY <1>10 DEF n
    <2> HIDE DEF np
    <2>2. np = name
      BY <2>1, SeqEqual
    <2> QED
      BY <2>2 DEF np
  <1> QED
    BY <1>14, <1>15 DEF url

\* A script is found that is in the directory named or in an include directory.
LEMMA FoundByName ==
    ASSUME IsSequence(slaxIncludes), NEW file \in DOMAIN Scripts, file = <<file[1], file[2]>>,
           NEW d, file[1] = d \/ file[1] \in ToSet(slaxIncludes)
    PROVE  slaxFindIncludeFile(<<d, file[2]>>)[2] = file[2]
  <1> DEFINE url == <<d, file[2]>>
             Has(dir) == <<dir, file[2]>> \in DOMAIN Scripts
             i == First(slaxIncludes, Has)
             I == {k \in 1 .. Len(slaxIncludes) : Has(slaxIncludes[k])}
  <1>1. CASE url \in DOMAIN Scripts
    BY <1>1 DEF slaxFindIncludeFile
  <1>2. CASE url \notin DOMAIN Scripts
    <2>1. Len(slaxIncludes) \in Nat /\ DOMAIN slaxIncludes = 1 .. Len(slaxIncludes)
      BY SequenceFacts
    <2>2. PICK k \in DOMAIN slaxIncludes : slaxIncludes[k] = file[1]
      <3>1. file[1] # d
        BY <1>2
      <3> QED
        BY <3>1 DEF ToSet
    <2>3. Has(slaxIncludes[k])
      BY <2>2
    <2>4. I # {} /\ I \subseteq Nat
      BY <2>1, <2>3
    <2>5. \E j \in I : \A m \in I : j <= m
      BY <2>4, LeastNatural
    <2>6. Min(I) \in I
      BY <2>5 DEF Min
    <2>7. i = Min(I)
      BY <2>1, <2>3, <2>4 DEF First, SelectInSeq
    <2>8. i # 0
      BY <2>6, <2>7
    <2>9. slaxFindIncludeFile(url) = <<slaxIncludes[i], file[2]>>
      BY <1>2, <2>8 DEF slaxFindIncludeFile
    <2> HIDE DEF i
    <2> QED
      BY <2>9
  <1> QED
    BY <1>1, <1>2

LEMMA StepImportFindsFile ==
    ASSUME LoaderInv, [Next]_vars
    PROVE  \A file \in DOMAIN Scripts :
              result' # result /\ slaxIsSlaxFile(result'.asked)
                 /\ result'.asked[2] = slaxElementAddEscaped(file[2])
                 /\ (file[1] = result'.asked[1] \/ file[1] \in ToSet(slaxIncludes))
                 => result'.file[2] = file[2]
  <1> SUFFICES ASSUME NEW file \in DOMAIN Scripts,
                      result' # result, slaxIsSlaxFile(result'.asked),
                      result'.asked[2] = slaxElementAddEscaped(file[2]),
                      file[1] = result'.asked[1] \/ file[1] \in ToSet(slaxIncludes)
               PROVE  result'.file[2] = file[2]
    OBVIOUS
  <1>1. PICK name, d : result' = slaxLoader(<<d, slaxElementAddEscaped(name)>>)
    BY AnswerForScript
  <1> DEFINE url == <<d, slaxElementAddEscaped(name)>>
             found == slaxFindIncludeFile(<<url[1], Unescaped(url[2])>>)
  <1>2. result'.asked = url /\ result'.file = found
    <2>1. result' = IF found = NoFile THEN [NoResult EXCEPT !.asked = url]
                    ELSE [asked |-> url, file |-> found, root |-> Parsed(Scripts[found]),
                          ok |-> Errors(Scripts[found]) = {}]
      BY <1>1 DEF slaxLoader
    <2> HIDE DEF url, found
    <2>2. CASE found = NoFile
      BY <2>1, <2>2 DEF NoResult
    <2>3. CASE found # NoFile
      BY <2>1, <2>3
    <2> QED
      BY <2>2, <2>3
  <1>3. url[1] = d /\ url[2] = slaxElementAddEscaped(file[2])
    BY <1>2
  <1>4. file = <<file[1], file[2]>> /\ file[2] \in Seq(Nat)
    BY ScriptFacts
  <1>5. Unescaped(url[2]) = file[2]
    BY <1>3, <1>4, UnescapedIsName
  <1>6. found = slaxFindIncludeFile(<<d, file[2]>>)
    BY <1>3, <1>5
  <1>7. file[1] = d \/ file[1] \in ToSet(slaxIncludes)
    BY <1>2, <1>3
  <1>8. IsSequence(slaxIncludes)
    BY DEF LoaderInv
  <1> HIDE DEF found
  <1> QED
    BY <1>2, <1>4, <1>6, <1>7, <1>8, FoundByName

-----------------------------------------------------------------------------
\* A script that loads has the functions of every extension it names, by declaration or by
\* a well-known prefix, whose library can be found and was not tried before; and an import
\* gives the script of that name if it is in the directory asked or in an include directory,
\* whatever blanks and percent signs are in the name (slaxFindNs, slaxDynLoad,
\* slaxElementAddEscaped, slaxLoader).
THEOREM ScriptsAlwaysArrive ==
    Spec => ScriptsArrive
  <1>1. Init => LoaderInv
    BY LoaderInvInit
  <1>2. LoaderInv /\ [Next]_vars => LoaderInv'
    BY LoaderInvNext
  <1> DEFINE Extended == \A file \in DOMAIN Scripts :
                LET script == Scripts[file]
                    wellKnown == {slaxDynFindPrefix(dyn, p) :
                                     p \in ToSet(script.uses) \ DOMAIN Declared(script).ns}
                    uris == {n.uri : n \in {n \in wellKnown : n.extension}}
                               \cup Designated(Declared(script))
                               \cup UNION {Designated(node) : node \in ToSet(script.inner)}
                IN result' # result /\ result'.file = file /\ result'.ok =>
                      \A u \in uris :
                         u \notin ToSet(dyn.loaded) \cup {SlaxUri} /\ Findable(u)
                            /\ Libraries[FirstFile(u)[1]][u].initializer
                            /\ Libraries[FirstFile(u)[1]][u].functions
                         => FirstFile(u) \in dyn'.table
             Imported == \A file \in DOMAIN Scripts :
                result' # result /\ slaxIsSlaxFile(result'.asked)
                   /\ result'.asked[2] = slaxElementAddEscaped(file[2])
                   /\ (file[1] = result'.asked[1] \/ file[1] \in ToSet(slaxIncludes))
                   => result'.file[2] = file[2]
  <1>3. LoaderInv /\ [Next]_vars => Extended
    BY StepExtensionsArrive
  <1>4. LoaderInv /\ [Next]_vars => Imported
    BY StepImportFindsFile
  <1>5. Spec => [][Extended]_vars
    <2> HIDE DEF Extended
    <2> QED
      BY <1>1, <1>2, <1>3, PTL DEF Spec
  <1>6. Spec => [][Imported]_vars
    <2> HIDE DEF Imported
    <2> QED
      BY <1>1, <1>2, <1>4, PTL DEF Spec
  <1> QED
    BY <1>5, <1>6 DEF ScriptsArrive, ExtensionsArrive, ImportFindsFile
=============================================================================
