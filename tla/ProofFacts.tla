----------------------------- MODULE ProofFacts -----------------------------
(***************************************************************************)
(* Facts about numbers and sequences that several proofs rest on.          *)
(***************************************************************************)
EXTENDS Integers, SequencesExt, SequenceTheorems, WellFoundedInduction, TLAPS

\* Quotient and remainder.
LEMMA DivisionFacts ==
    ASSUME NEW n \in Nat, NEW m \in Nat \ {0}
    PROVE  /\ n \div m \in Nat /\ n % m \in 0 .. (m - 1)
           /\ n = m * (n \div m) + (n % m)
  OBVIOUS

\* Quotient and remainder are the only ones.
LEMMA DivisionUnique ==
    ASSUME NEW m \in Nat \ {0}, NEW k \in Nat, NEW r \in 0 .. (m - 1)
    PROVE  (m * k + r) \div m = k /\ (m * k + r) % m = r
  <1> DEFINE n == m * k + r
             q == n \div m
             s == n % m
  <1>1. m * k \in Nat /\ n \in Nat
    OBVIOUS
  <1>2. q \in Nat /\ s \in 0 .. (m - 1) /\ n = m * q + s
    BY <1>1, DivisionFacts
  <1>3. n = m * k + r
    OBVIOUS
  <1> HIDE DEF n, q, s
  <1>4. ~(q < k)
    <2> SUFFICES ASSUME q + 1 <= k PROVE FALSE
      BY <1>2
    <2>1. m * (q + 1) <= m * k
      BY <1>2
    <2>2. m * (q + 1) = m * q + m /\ m * q \in Nat
      BY <1>2
    <2> QED
      BY <1>1, <1>2, <1>3, <2>1, <2>2
  <1>5. ~(k < q)
    <2> SUFFICES ASSUME k + 1 <= q PROVE FALSE
      BY <1>2
    <2>1. m * (k + 1) <= m * q
      BY <1>2
    <2>2. m * (k + 1) = m * k + m /\ m * q \in Nat
      BY <1>2
    <2> QED
      BY <1>1, <1>2, <1>3, <2>1, <2>2
  <1>6. q = k
    BY <1>2, <1>4, <1>5
  <1>7. s = r
    <2>1. m * k + s = m * k + r
      BY <1>2, <1>3, <1>6
    <2> QED
      BY <1>1, <1>2, <2>1
  <1> QED
    BY <1>6, <1>7 DEF n, q, s

\* A set of numbers has a least one.
LEMMA LeastNatural ==
    ASSUME NEW T \in SUBSET Nat, T # {}
    PROVE  \E x \in T : \A y \in T : x <= y
  <1> DEFINE R == OpToRel(<, Nat)
  <1>1. IsWellFoundedOn(R, Nat)
    BY NatLessThanWellFounded
  <1>2. \A x, y \in Nat : y < x => <<y, x>> \in R
    BY DEF OpToRel
  <1> HIDE DEF R
  <1>3. PICK x \in T : \A y \in T : ~(<<y, x>> \in R)
    BY <1>1, WFMin
  <1>4. \A y \in T : x <= y
    <2> SUFFICES ASSUME NEW y \in T PROVE x <= y
      OBVIOUS
    <2>1. x \in Nat /\ y \in Nat /\ ~(y < x)
      BY <1>2, <1>3
    <2> QED
      BY <2>1
  <1> QED
    BY <1>4

\* Induction, for the set of the numbers that have the property in question.
LEMMA SetInduction ==
    ASSUME NEW T, 0 \in T, \A n \in Nat : n \in T => n + 1 \in T
    PROVE  Nat \subseteq T
  <1> SUFFICES ASSUME Nat \ T # {} PROVE FALSE
    OBVIOUS
  <1>1. PICK n \in Nat \ T : \A m \in Nat \ T : n <= m
    BY LeastNatural
  <1>2. n # 0 /\ n - 1 \in Nat
    BY <1>1
  <1>3. n - 1 \in T
    <2>1. ~(n <= n - 1)
      BY <1>1
    <2> QED
      BY <1>1, <1>2, <2>1
  <1>4. (n - 1) + 1 \in T
    BY <1>2, <1>3
  <1> QED
    BY <1>1, <1>4

\* A function into S by recursion: b is its value at 0, and p the smaller number
\* from whose value F makes the one at a number.
Recursion(S, p, b, F) ==
    /\ b \in S /\ F \in [Nat \X S -> S]
    /\ p \in [Nat \ {0} -> Nat] /\ \A n \in Nat \ {0} : p[n] < n

\* The first n values of a function that is defined from its value at a smaller
\* number.
Begins(n, S, p, b, F, f) ==
    /\ f \in [0 .. n -> S]
    /\ f[0] = b
    /\ \A i \in 1 .. n : f[i] = F[<<i, f[p[i]]>>]

LEMMA BeginningsAgree ==
    ASSUME NEW S, NEW b, NEW F, NEW p, Recursion(S, p, b, F),
           NEW m \in Nat, NEW n \in Nat
    PROVE  \A f, g : Begins(m, S, p, b, F, f) /\ Begins(n, S, p, b, F, g) =>
              \A i \in Nat : i <= m /\ i <= n => f[i] = g[i]
  <1> SUFFICES ASSUME NEW f, NEW g, Begins(m, S, p, b, F, f), Begins(n, S, p, b, F, g)
               PROVE  \A i \in Nat : i <= m /\ i <= n => f[i] = g[i]
    OBVIOUS
  <1> DEFINE T == {k \in Nat : \A i \in 0 .. k : i <= m /\ i <= n => f[i] = g[i]}
  <1>1. 0 \in T
    <2>1. \A i \in 0 .. 0 : i = 0
      OBVIOUS
    <2> QED
      BY <2>1 DEF Begins
  <1>2. ASSUME NEW k \in Nat, k \in T PROVE k + 1 \in T
    <2> SUFFICES ASSUME NEW i \in 0 .. (k + 1), i <= m, i <= n PROVE f[i] = g[i]
      OBVIOUS
    <2>1. CASE i <= k
      BY <1>2, <2>1
    <2>2. CASE i = k + 1
      <3>1. i \in Nat \ {0} /\ i \in 1 .. m /\ i \in 1 .. n
        BY <2>2
      <3>2. p[i] \in Nat /\ p[i] < i
        BY <3>1 DEF Recursion
      <3>3. p[i] \in 0 .. k /\ p[i] <= m /\ p[i] <= n
        BY <2>2, <3>2
      <3>4. f[p[i]] = g[p[i]]
        BY <1>2, <3>3
      <3> QED
        BY <3>1, <3>4 DEF Begins
    <2> QED
      BY <2>1, <2>2
  <1> HIDE DEF T
  <1>3. Nat \subseteq T
    BY <1>1, <1>2, SetInduction
  <1>4. \A i \in Nat : i \in 0 .. i
    OBVIOUS
  <1> QED
    BY <1>3, <1>4 DEF T

LEMMA BeginningsExist ==
    ASSUME NEW S, NEW b, NEW F, NEW p, Recursion(S, p, b, F)
    PROVE  \A n \in Nat : \E f : Begins(n, S, p, b, F, f)
  <1>0. /\ b \in S /\ F \in [Nat \X S -> S]
        /\ p \in [Nat \ {0} -> Nat] /\ \A n \in Nat \ {0} : p[n] < n
    BY DEF Recursion
  <1> DEFINE T == {n \in Nat : \E f : Begins(n, S, p, b, F, f)}
  <1>1. 0 \in T
    <2> DEFINE f == [i \in 0 .. 0 |-> b]
    <2>1. f \in [0 .. 0 -> S] /\ f[0] = b
      BY <1>0
    <2> HIDE DEF f
    <2>2. Begins(0, S, p, b, F, f)
      BY <2>1 DEF Begins
    <2> QED
      BY <2>2
  <1>2. ASSUME NEW n \in Nat, n \in T PROVE n + 1 \in T
    <2>1. PICK f : Begins(n, S, p, b, F, f)
      BY <1>2
    <2> DEFINE last == F[<<n + 1, f[p[n + 1]]>>]
               g == [i \in 0 .. (n + 1) |-> IF i = n + 1 THEN last ELSE f[i]]
    <2>2. p[n + 1] \in 0 .. n
      <3>1. n + 1 \in Nat \ {0}
        OBVIOUS
      <3>2. p[n + 1] \in Nat /\ p[n + 1] < n + 1
        BY <1>0, <3>1
      <3> QED
        BY <3>2
    <2>3. f \in [0 .. n -> S]
      BY <2>1 DEF Begins
    <2>4. last \in S
      <3>1. <<n + 1, f[p[n + 1]]>> \in Nat \X S
        BY <2>2, <2>3
      <3> QED
        BY <1>0, <3>1
    <2> HIDE DEF last
    <2>5. g \in [0 .. (n + 1) -> S] /\ g[n + 1] = last /\ \A i \in 0 .. n : g[i] = f[i]
      BY <2>3, <2>4
    <2> HIDE DEF g
    <2>6. 0 \in 0 .. n
      OBVIOUS
    <2>7. ASSUME NEW i \in 1 .. (n + 1) PROVE g[i] = F[<<i, g[p[i]]>>]
      <3>1. CASE i = n + 1
        BY <2>2, <2>5, <3>1 DEF last
      <3>2. CASE i # n + 1
        <4>1. i \in Nat \ {0} /\ i \in 1 .. n /\ i \in 0 .. n
          BY <3>2
        <4>2. p[i] \in Nat /\ p[i] < i
          BY <1>0, <4>1
        <4>3. p[i] \in 0 .. n
          BY <4>1, <4>2
        <4> QED
          BY <2>1, <2>5, <4>1, <4>3 DEF Begins
      <3> QED
        BY <3>1, <3>2
    <2>8. Begins(n + 1, S, p, b, F, g)
      BY <2>1, <2>5, <2>6, <2>7 DEF Begins
    <2> QED
      BY <2>8
  <1> HIDE DEF T
  <1>3. Nat \subseteq T
    BY <1>1, <1>2, SetInduction
  <1> QED
    BY <1>3 DEF T

\* Such a function exists on all numbers.
LEMMA RecursionExists ==
    ASSUME NEW S, NEW b, NEW F, NEW p, Recursion(S, p, b, F)
    PROVE  \E f \in [Nat -> S] :
              f[0] = b /\ \A n \in Nat \ {0} : f[n] = F[<<n, f[p[n]]>>]
  <1> DEFINE g(n) == CHOOSE f : Begins(n, S, p, b, F, f)
             h == [n \in Nat |-> g(n)[n]]
  <1>1. \A n \in Nat : Begins(n, S, p, b, F, g(n))
    BY BeginningsExist
  <1> HIDE DEF g
  <1>2. \A n \in Nat : h[n] = g(n)[n]
    OBVIOUS
  <1>3. \A n \in Nat : g(n)[n] \in S
    <2>1. \A n \in Nat : n \in 0 .. n
      OBVIOUS
    <2> QED
      BY <1>1, <2>1 DEF Begins
  <1>4. h \in [Nat -> S]
    BY <1>3
  <1> HIDE DEF h
  <1>5. h[0] = b
    BY <1>1, <1>2 DEF Begins
  <1>6. ASSUME NEW n \in Nat \ {0} PROVE h[n] = F[<<n, h[p[n]]>>]
    <2>1. p[n] \in Nat /\ p[n] < n /\ p[n] <= n /\ n \in 1 .. n /\ n \in Nat
      BY DEF Recursion
    <2>2. g(n)[n] = F[<<n, g(n)[p[n]]>>]
      BY <1>1, <2>1 DEF Begins
    <2>3. g(n)[p[n]] = g(p[n])[p[n]]
      <3>1. p[n] <= p[n]
        BY <2>1
      <3>2. Begins(n, S, p, b, F, g(n)) /\ Begins(p[n], S, p, b, F, g(p[n]))
        BY <1>1, <2>1
      <3> DEFINE m == p[n]
                 f1 == g(n)
                 f2 == g(m)
      <3> HIDE DEF f1, f2, m
      <3>3. m \in Nat /\ Begins(n, S, p, b, F, f1) /\ Begins(m, S, p, b, F, f2)
        BY <2>1, <3>2 DEF m, f1, f2
      <3>4. \A f, k : Begins(n, S, p, b, F, f) /\ Begins(m, S, p, b, F, k) =>
               \A i \in Nat : i <= n /\ i <= m => f[i] = k[i]
        BY <2>1, <3>3, BeginningsAgree
      <3>5. \A i \in Nat : i <= n /\ i <= m => f1[i] = f2[i]
        BY <3>3, <3>4
      <3> QED
        BY <2>1, <3>1, <3>5 DEF m, f1, f2
    <2> QED
      BY <1>2, <2>1, <2>2, <2>3
  <1> QED
    BY <1>4, <1>5, <1>6

-----------------------------------------------------------------------------
(* Sequences of whatever they have in them *)

IsSequence(s) == s \in Seq(ToSet(s))

\* A sequence is one of its elements.
LEMMA SequenceOf ==
    ASSUME NEW T, NEW s \in Seq(T)
    PROVE  /\ IsSequence(s) /\ Len(s) \in Nat /\ DOMAIN s = 1 .. Len(s)
           /\ ToSet(s) = {s[i] : i \in 1 .. Len(s)}
  <1>1. Len(s) \in Nat /\ DOMAIN s = 1 .. Len(s)
    BY LenProperties
  <1>2. s \in [1 .. Len(s) -> ToSet(s)]
    BY <1>1 DEF ToSet
  <1>3. s \in Seq(ToSet(s))
    BY <1>1, <1>2, SeqDef
  <1> QED
    BY <1>1, <1>3 DEF ToSet, IsSequence

LEMMA SequenceFacts ==
    ASSUME NEW s, IsSequence(s)
    PROVE  /\ Len(s) \in Nat /\ DOMAIN s = 1 .. Len(s)
           /\ ToSet(s) = {s[i] : i \in 1 .. Len(s)}
  BY SequenceOf DEF IsSequence

LEMMA EmptyIsSequence == IsSequence(<< >>) /\ Len(<< >>) = 0 /\ ToSet(<< >>) = {}
  <1>1. << >> \in Seq({}) /\ Len(<< >>) = 0
    BY EmptySeq
  <1>2. IsSequence(<< >>) /\ ToSet(<< >>) = {<< >>[i] : i \in 1 .. Len(<< >>)}
    BY <1>1, SequenceOf
  <1>3. 1 .. 0 = {}
    OBVIOUS
  <1> QED
    BY <1>1, <1>2, <1>3

LEMMA AppendIsSequence ==
    ASSUME NEW s, IsSequence(s), NEW e
    PROVE  /\ IsSequence(Append(s, e)) /\ Len(Append(s, e)) = Len(s) + 1
           /\ ToSet(Append(s, e)) = ToSet(s) \cup {e}
           /\ Append(s, e)[Len(s) + 1] = e
           /\ \A i \in 1 .. Len(s) : Append(s, e)[i] = s[i]
  <1> DEFINE T == ToSet(s) \cup {e}
             a == Append(s, e)
  <1>1. s \in Seq(T)
    <2>1. s \in [1 .. Len(s) -> T] /\ Len(s) \in Nat
      BY SequenceFacts, LenProperties DEF IsSequence
    <2> QED
      BY <2>1, SeqDef
  <1>2. /\ a \in Seq(T) /\ Len(a) = Len(s) + 1 /\ a[Len(s) + 1] = e
        /\ \A i \in 1 .. Len(s) : a[i] = s[i]
    BY <1>1, AppendProperties
  <1> HIDE DEF a, T
  <1>3. IsSequence(a) /\ Len(s) \in Nat /\ ToSet(a) = {a[i] : i \in 1 .. Len(a)}
    BY <1>2, SequenceOf, SequenceFacts
  <1>4. ToSet(s) = {s[i] : i \in 1 .. Len(s)}
    BY SequenceFacts
  <1>5. ToSet(a) \subseteq ToSet(s) \cup {e}
    <2> SUFFICES ASSUME NEW i \in 1 .. Len(a) PROVE a[i] \in ToSet(s) \cup {e}
      BY <1>3
    <2>1. CASE i = Len(s) + 1
      BY <1>2, <2>1
    <2>2. CASE i \in 1 .. Len(s)
      BY <1>2, <1>4, <2>2
    <2> QED
      BY <1>2, <1>3, <2>1, <2>2
  <1>6. ToSet(s) \cup {e} \subseteq ToSet(a)
    <2>1. Len(s) + 1 \in 1 .. Len(a) /\ \A i \in 1 .. Len(s) : i \in 1 .. Len(a)
      BY <1>2, <1>3
    <2> QED
      BY <1>2, <1>3, <1>4, <2>1
  <1>7. ToSet(a) = ToSet(s) \cup {e}
    BY <1>5, <1>6
  <1> QED
    BY <1>2, <1>3, <1>7 DEF a

LEMMA ConcatIsSequence ==
    ASSUME NEW s, NEW t, IsSequence(s), IsSequence(t)
    PROVE  /\ IsSequence(s \o t) /\ ToSet(s \o t) = ToSet(s) \cup ToSet(t)
           /\ Len(s \o t) = Len(s) + Len(t)
           /\ \A i \in 1 .. Len(s \o t) :
                 (s \o t)[i] = IF i <= Len(s) THEN s[i] ELSE t[i - Len(s)]
  <1>0. s \o t \in Seq(ToSet(s) \cup ToSet(t))
    <2> DEFINE T == ToSet(s) \cup ToSet(t)
    <2>1. s \in Seq(T) /\ t \in Seq(T)
      <3>1. s \in [1 .. Len(s) -> T] /\ Len(s) \in Nat
        BY SequenceFacts, LenProperties DEF IsSequence
      <3>2. t \in [1 .. Len(t) -> T] /\ Len(t) \in Nat
        BY SequenceFacts, LenProperties DEF IsSequence
      <3> QED
        BY <3>1, <3>2, SeqDef
    <2> QED
      BY <2>1, ConcatProperties
  <1>1. IsSequence(s \o t)
    BY <1>0, SequenceOf
  <1>2. /\ Len(s) \in Nat /\ ToSet(s) = {s[i] : i \in 1 .. Len(s)}
        /\ Len(t) \in Nat /\ ToSet(t) = {t[i] : i \in 1 .. Len(t)}
        /\ ToSet(s \o t) = {(s \o t)[i] : i \in 1 .. Len(s \o t)}
    BY <1>1, SequenceFacts
  <1>3. /\ Len(s \o t) = Len(s) + Len(t)
        /\ \A i \in 1 .. Len(s \o t) :
              (s \o t)[i] = IF i <= Len(s) THEN s[i] ELSE t[i - Len(s)]
    <2> DEFINE T == ToSet(s) \cup ToSet(t)
    <2>1. s \in Seq(T) /\ t \in Seq(T)
      <3>1. s \in [1 .. Len(s) -> T] /\ t \in [1 .. Len(t) -> T]
        BY SequenceFacts, LenProperties DEF IsSequence
      <3> QED
        BY <1>2, <3>1, SeqDef
    <2> HIDE DEF T
    <2> QED
      BY <2>1, ConcatProperties
  <1>4. ToSet(s \o t) \subseteq ToSet(s) \cup ToSet(t)
    <2> SUFFICES ASSUME NEW i \in 1 .. Len(s \o t)
                 PROVE  (s \o t)[i] \in ToSet(s) \cup ToSet(t)
      BY <1>2
    <2>1. CASE i <= Len(s)
      BY <1>2, <1>3, <2>1
    <2>2. CASE ~(i <= Len(s))
      <3>1. i - Len(s) \in 1 .. Len(t)
        BY <1>2, <1>3, <2>2
      <3> QED
        BY <1>2, <1>3, <2>2, <3>1
    <2> QED
      BY <2>1, <2>2
  <1>5. ToSet(s) \cup ToSet(t) \subseteq ToSet(s \o t)
    <2>1. ASSUME NEW i \in 1 .. Len(s) PROVE s[i] \in ToSet(s \o t)
      <3>1. i \in 1 .. Len(s \o t) /\ i <= Len(s)
        BY <1>2, <1>3
      <3> QED
        BY <1>2, <1>3, <3>1
    <2>2. ASSUME NEW i \in 1 .. Len(t) PROVE t[i] \in ToSet(s \o t)
      <3>1. /\ i + Len(s) \in 1 .. Len(s \o t) /\ ~(i + Len(s) <= Len(s))
            /\ i + Len(s) - Len(s) = i
        BY <1>2, <1>3
      <3> QED
        BY <1>2, <1>3, <3>1
    <2> QED
      BY <1>2, <2>1, <2>2
  <1> QED
    BY <1>1, <1>4, <1>5
=============================================================================
