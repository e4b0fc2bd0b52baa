---------------------------- MODULE EngineProofs ----------------------------
(***************************************************************************)
(* What the engine lets through is what was authorized; a stream it         *)
(* releases is whole, holds nothing that was to be found and is otherwise   *)
(* what upstream sent; and a response is governed by the policy that was    *)
(* selected for its request: for all bodies, settings, events and texts,    *)
(* and every bound on the length of a stream.                               *)
(***************************************************************************)
EXTENDS Engine, SequenceTheorems, WellFoundedInduction, TLAPS

-----------------------------------------------------------------------------
(* Induction over the naturals, with a set in the place of the predicate.   *)

\* A set of naturals has a least element.
LEMMA LeastNatural ==
    ASSUME NEW S \in SUBSET Nat, S # {}
    PROVE  \E m \in S : \A n \in S : m <= n
<1>1. IsWellFoundedOn(OpToRel(<, Nat), Nat)
  BY NatLessThanWellFounded
<1>2. \E x \in S : \A y \in S : ~ (<<y, x>> \in OpToRel(<, Nat))
  BY <1>1, WFMin
<1>3. \A x \in S, y \in S : (<<y, x>> \notin OpToRel(<, Nat)) => x <= y
  BY DEF OpToRel
<1> QED
  BY <1>2, <1>3

\* A set that holds 0, and every successor up to m, holds all of 0 .. m.
LEMMA InductiveSet ==
    ASSUME NEW m \in Nat, NEW S \in SUBSET (0 .. m), 0 \in S,
           \A n \in S : n < m => n + 1 \in S
    PROVE  S = 0 .. m
<1>1. SUFFICES ASSUME (0 .. m) \ S # {} PROVE FALSE
  OBVIOUS
<1>2. PICK k \in (0 .. m) \ S : \A n \in (0 .. m) \ S : k <= n
  <2>1. (0 .. m) \ S \in SUBSET Nat
    OBVIOUS
  <2> QED
    BY <1>1, <2>1, LeastNatural
<1>3. k # 0 /\ k - 1 \in 0 .. m /\ k - 1 < k
  BY <1>2
<1>4. k - 1 \in S
  BY <1>2, <1>3
<1> QED
  BY <1>2, <1>3, <1>4

-----------------------------------------------------------------------------
(* Texts.                                                                   *)

\* f joins the first n members of the list s one after the other.
Joins(f, s, n) == f = [i \in 1 .. n |-> IF i = 1 THEN s[i] ELSE f[i - 1] \o s[i]]

LEMMA JoinsExists ==
    ASSUME NEW m \in Nat, NEW s
    PROVE  \E f : Joins(f, s, m)
<1> DEFINE S == {n \in 0 .. m : \E f : Joins(f, s, n)}
<1>1. 0 \in S
  <2>1. Joins([i \in 1 .. 0 |-> <<>>], s, 0)
    BY DEF Joins
  <2> QED
    BY <2>1
<1>2. ASSUME NEW n \in S, n < m
      PROVE  n + 1 \in S
  <2>1. PICK f : Joins(f, s, n)
    OBVIOUS
  <2> DEFINE x == IF n = 0 THEN s[1] ELSE f[n] \o s[n + 1]
             g == [i \in 1 .. n + 1 |-> IF i = n + 1 THEN x ELSE f[i]]
             h == [i \in 1 .. n + 1 |-> IF i = 1 THEN s[i] ELSE g[i - 1] \o s[i]]
  <2>2. n \in Nat
    OBVIOUS
  <2>3. n \in Nat /\ \A i \in 1 .. n : g[i] = f[i]
    <3>1. ASSUME NEW i \in 1 .. n PROVE g[i] = f[i]
      <4>1. i \in 1 .. n + 1 /\ i # n + 1
        BY <2>2
      <4> QED
        BY <4>1
    <3> QED
      BY <2>2, <3>1
  <2>4. g[n + 1] = x /\ (n # 0 => f[n] = g[n])
    BY <2>3
  <2>5. \A i \in 1 .. n : f[i] = IF i = 1 THEN s[i] ELSE f[i - 1] \o s[i]
    BY <2>1, <2>3 DEF Joins
  <2>6. ASSUME NEW i \in 1 .. n + 1
        PROVE  g[i] = h[i]
    <3>1. CASE i = n + 1
      <4>1. (i = 1 <=> n = 0) /\ i - 1 = n
        BY <2>3, <3>1
      <4> QED
        BY <2>4, <3>1, <4>1
    <3>2. CASE i # n + 1
      <4>1. i \in 1 .. n /\ (i # 1 => i - 1 \in 1 .. n)
        BY <2>3, <3>2
      <4> QED
        BY <2>3, <2>5, <4>1
    <3> QED
      BY <3>1, <3>2
  <2>7. g = h
    BY <2>6
  <2>8. Joins(g, s, n + 1)
    BY <2>7 DEF Joins
  <2> QED
    BY <1>2, <2>8
<1>3. S = 0 .. m
  BY <1>1, <1>2, InductiveSet
<1> QED
  BY <1>3

\* FlattenSeq joins one member after the other.
LEMMA FlattenSteps ==
    ASSUME NEW s, Len(s) \in Nat, Len(s) # 0
    PROVE  \E F : /\ FlattenSeq(s) = F[Len(s)]
                  /\ F[1] = s[1]
                  /\ \A i \in 2 .. Len(s) : F[i] = F[i - 1] \o s[i]
<1> DEFINE m == Len(s)
           F == CHOOSE f : Joins(f, s, m)
<1>1. Joins(F, s, m)
  <2>1. \E f : Joins(f, s, m)
    BY JoinsExists
  <2> QED
    BY <2>1
<1>2. FlattenSeq(s) = F[m]
  BY DEF FlattenSeq, Joins
<1> HIDE DEF F
<1>3. \A i \in 1 .. m : F[i] = IF i = 1 THEN s[i] ELSE F[i - 1] \o s[i]
  BY <1>1 DEF Joins
<1>4. F[1] = s[1]
  BY <1>3
<1>5. ASSUME NEW i \in 2 .. m
      PROVE  F[i] = F[i - 1] \o s[i]
  <2>1. i \in 1 .. m /\ i # 1
    OBVIOUS
  <2> QED
    BY <1>3, <2>1
<1> QED
  BY <1>2, <1>4, <1>5

-----------------------------------------------------------------------------
(* Joined texts.                                                            *)

\* The first n members of the list g, joined.
Prefix(g, n) == FlattenSeq([i \in 1 .. n |-> g[i]])

\* Joining one member more appends it.
LEMMA PrefixSteps ==
    ASSUME NEW S, NEW g, NEW n \in Nat, \A i \in 1 .. n : g[i] \in Seq(S)
    PROVE  /\ Prefix(g, 0) = <<>>
           /\ \A m \in 1 .. n : Prefix(g, m) = Prefix(g, m - 1) \o g[m]
           /\ \A m \in 0 .. n : Prefix(g, m) \in Seq(S)
<1>1. Prefix(g, 0) = <<>>
  BY DEF Prefix, FlattenSeq
<1>2. PICK F : Joins(F, g, n)
  BY JoinsExists
<1>3. \A i \in 1 .. n : F[i] = IF i = 1 THEN g[i] ELSE F[i - 1] \o g[i]
  BY <1>2 DEF Joins
<1>4. ASSUME NEW m \in 1 .. n
      PROVE  Prefix(g, m) = F[m]
  <2> DEFINE s == [i \in 1 .. m |-> g[i]]
  <2>1. m \in Nat /\ m # 0 /\ Len(s) = m /\ \A i \in 1 .. m : s[i] = g[i]
    OBVIOUS
  <2> HIDE DEF s
  <2>2. PICK H : /\ FlattenSeq(s) = H[m] /\ H[1] = s[1]
                 /\ \A i \in 2 .. m : H[i] = H[i - 1] \o s[i]
    <3>1. Len(s) \in Nat /\ Len(s) # 0
      BY <2>1
    <3>2. \E H : /\ FlattenSeq(s) = H[Len(s)] /\ H[1] = s[1]
                 /\ \A i \in 2 .. Len(s) : H[i] = H[i - 1] \o s[i]
      BY <3>1, FlattenSteps
    <3> QED
      BY <2>1, <3>2
  <2> DEFINE D == {k \in 0 .. m - 1 : H[k + 1] = F[k + 1]}
  <2>3. m - 1 \in Nat /\ 0 \in D
    <3>1. 0 \in 0 .. m - 1 /\ 0 + 1 = 1 /\ 1 \in 1 .. m /\ 1 \in 1 .. n
      BY <2>1
    <3> QED
      BY <1>3, <2>1, <2>2, <3>1
  <2>4. ASSUME NEW k \in D, k < m - 1
        PROVE  k + 1 \in D
    <3>1. /\ k \in Nat /\ (k + 1) + 1 \in 2 .. m /\ (k + 1) + 1 \in 1 .. n /\ (k + 1) + 1 \in 1 .. m
          /\ (k + 1) + 1 # 1 /\ ((k + 1) + 1) - 1 = k + 1 /\ k + 1 \in 0 .. m - 1
      BY <2>1, <2>4
    <3>2. H[(k + 1) + 1] = H[k + 1] \o g[(k + 1) + 1]
      BY <2>1, <2>2, <3>1
    <3>3. F[(k + 1) + 1] = F[k + 1] \o g[(k + 1) + 1]
      BY <1>3, <3>1
    <3> QED
      BY <3>1, <3>2, <3>3
  <2>5. D = 0 .. m - 1
    BY <2>3, <2>4, InductiveSet
  <2>6. m - 1 \in 0 .. m - 1 /\ (m - 1) + 1 = m
    BY <2>1
  <2>7. H[m] = F[m]
    BY <2>5, <2>6
  <2> QED
    BY <2>2, <2>7 DEF Prefix, s
<1>5. ASSUME NEW m \in 1 .. n
      PROVE  Prefix(g, m) = Prefix(g, m - 1) \o g[m]
  <2>1. CASE m = 1
    <3>1. Prefix(g, 1) = g[1] /\ 1 - 1 = 0 /\ g[1] \in Seq(S)
      BY <1>3, <1>4, <2>1
    <3> QED
      BY <1>1, <2>1, <3>1, ConcatEmptySeq
  <2>2. CASE m # 1
    <3>1. m - 1 \in 1 .. n
      BY <2>2
    <3> QED
      BY <1>3, <1>4, <2>2, <3>1
  <2> QED
    BY <2>1, <2>2
<1> DEFINE D == {m \in 0 .. n : Prefix(g, m) \in Seq(S)}
<1>6. 0 \in D
  <2>1. <<>> \in Seq(S)
    BY EmptySeq
  <2>2. Prefix(g, 0) \in Seq(S)
    BY <1>1, <2>1
  <2>3. 0 \in 0 .. n
    OBVIOUS
  <2> QED
    BY <2>2, <2>3
<1>7. ASSUME NEW m \in D, m < n
      PROVE  m + 1 \in D
  <2>1. m + 1 \in 1 .. n /\ (m + 1) - 1 = m /\ m + 1 \in 0 .. n
    BY <1>7
  <2>2. Prefix(g, m + 1) = Prefix(g, m) \o g[m + 1]
    BY <1>5, <2>1
  <2>3. Prefix(g, m) \in Seq(S) /\ g[m + 1] \in Seq(S)
    BY <2>1
  <2>4. Prefix(g, m) \o g[m + 1] \in Seq(S)
    BY <2>3, ConcatProperties
  <2> QED
    BY <2>1, <2>2, <2>4
<1>8. D = 0 .. n
  BY <1>6, <1>7, InductiveSet
<1> QED
  BY <1>1, <1>5, <1>8

\* The parts of a joined text are where the lengths of those before them say.
Offsets(g, n, c) ==
    /\ Len(Prefix(g, n)) = c[n] /\ c[0] = 0 /\ c[n] \in Nat
    /\ \A i \in 0 .. n : c[i] \in 0 .. c[n]
    /\ \A i \in 1 .. n :
         /\ c[i - 1] \in Nat /\ c[i] \in Nat /\ Len(g[i]) \in Nat
         /\ c[i] = c[i - 1] + Len(g[i]) /\ c[i] <= c[n]
         /\ \A k \in 1 .. Len(g[i]) : Prefix(g, n)[c[i - 1] + k] = g[i][k]

LEMMA PartsOfJoined ==
    ASSUME NEW S, NEW g, NEW n \in Nat, NEW c, \A i \in 1 .. n : g[i] \in Seq(S),
           \A i \in 0 .. n : c[i] = Len(Prefix(g, i))
    PROVE  Offsets(g, n, c)
<1> DEFINE P(m) == Prefix(g, m)
<1>1. /\ P(0) = <<>>
      /\ \A m \in 0 .. n : P(m) \in Seq(S)
      /\ \A m \in 1 .. n : P(m) = P(m - 1) \o g[m]
  BY PrefixSteps
<1> HIDE DEF P
<1>2. /\ \A m \in 0 .. n : c[m] = Len(P(m)) /\ c[m] \in Nat
      /\ \A m \in 1 .. n : Len(g[m]) \in Nat /\ m \in 0 .. n /\ m - 1 \in 0 .. n
  <2>1. \A m \in 0 .. n : c[m] = Len(P(m))
    BY DEF P
  <2> QED
    BY <1>1, <2>1, LenProperties
<1>3. ASSUME NEW i \in 1 .. n
      PROVE  /\ c[i] = c[i - 1] + Len(g[i])
             /\ \A k \in 1 .. c[i - 1] : P(i)[k] = P(i - 1)[k]
             /\ \A k \in 1 .. Len(g[i]) : P(i)[c[i - 1] + k] = g[i][k]
  <2> DEFINE x == P(i - 1)
             y == g[i]
             a == Len(x)
             b == Len(y)
  <2>1. /\ x \in Seq(S) /\ y \in Seq(S) /\ P(i) = x \o y
        /\ c[i - 1] = a /\ a \in Nat /\ b \in Nat /\ c[i] = Len(P(i))
    BY <1>1, <1>2
  <2> HIDE DEF x, y
  <2>2. /\ Len(x \o y) = a + b
        /\ \A k \in 1 .. a + b : (x \o y)[k] = IF k <= a THEN x[k] ELSE y[k - a]
    BY <2>1, ConcatProperties
  <2> HIDE DEF a, b
  <2>3. /\ \A k \in 1 .. a : k \in 1 .. a + b /\ k <= a
        /\ \A k \in 1 .. b : a + k \in 1 .. a + b /\ ~(a + k <= a) /\ (a + k) - a = k
    BY <2>1
  <2>4. /\ c[i] = a + b
        /\ \A k \in 1 .. a : P(i)[k] = x[k]
        /\ \A k \in 1 .. b : P(i)[a + k] = y[k]
    BY <2>1, <2>2, <2>3
  <2> QED
    BY <2>1, <2>4 DEF x, y, b
\* Joining more parts keeps what is joined.
<1>4. ASSUME NEW i \in 0 .. n
      PROVE  c[i] <= c[n] /\ \A k \in 1 .. c[i] : P(n)[k] = P(i)[k]
  <2> DEFINE D == {d \in 0 .. n - i : c[i] <= c[i + d] /\ \A k \in 1 .. c[i] : P(i + d)[k] = P(i)[k]}
  <2>1. n - i \in Nat /\ 0 \in D
    <3>1. i + 0 = i /\ c[i] \in Nat /\ n - i \in Nat
      BY <1>2
    <3> QED
      BY <3>1
  <2>2. ASSUME NEW d \in D, d < n - i
        PROVE  d + 1 \in D
    <3> DEFINE j == i + (d + 1)
    <3>1. j \in 1 .. n /\ j - 1 = i + d /\ d + 1 \in 0 .. n - i /\ i + d \in 0 .. n
      BY <2>2
    <3> HIDE DEF j
    <3>2. c[j] = c[i + d] + Len(g[j]) /\ \A k \in 1 .. c[i + d] : P(j)[k] = P(i + d)[k]
      <4>1. c[j] = c[j - 1] + Len(g[j]) /\ \A k \in 1 .. c[j - 1] : P(j)[k] = P(j - 1)[k]
        BY <1>3, <3>1
      <4> QED
        BY <3>1, <4>1
    <3>3. c[i] \in Nat /\ c[i + d] \in Nat /\ Len(g[j]) \in Nat /\ c[i] <= c[i + d]
      BY <1>2, <3>1
    <3>4. \A k \in 1 .. c[i] : k \in 1 .. c[i + d]
      BY <3>3
    <3>5. \A k \in 1 .. c[i] : P(i + d)[k] = P(i)[k]
      OBVIOUS
    <3>6. \A k \in 1 .. c[i] : P(j)[k] = P(i)[k]
      BY <3>2, <3>4, <3>5
    <3>7. c[i] <= c[j]
      <4>1. \A a, b, x \in Nat : a <= b => a <= b + x
        OBVIOUS
      <4> QED
        BY <3>2, <3>3, <4>1
    <3> QED
      BY <3>1, <3>6, <3>7 DEF j
  <2>3. D = 0 .. n - i
    BY <2>1, <2>2, InductiveSet
  <2>4. n - i \in 0 .. n - i /\ i + (n - i) = n
    BY <2>1
  <2>5. n - i \in D
    BY <2>3, <2>4
  <2> QED
    BY <2>4, <2>5
<1>5. ASSUME NEW i \in 1 .. n
      PROVE  /\ c[i - 1] \in Nat /\ c[i] \in Nat /\ Len(g[i]) \in Nat
             /\ c[i] = c[i - 1] + Len(g[i]) /\ c[i] <= c[n]
             /\ \A k \in 1 .. Len(g[i]) : P(n)[c[i - 1] + k] = g[i][k]
  <2>1. /\ i \in 0 .. n /\ c[i - 1] \in Nat /\ c[i] \in Nat /\ Len(g[i]) \in Nat
        /\ c[i] = c[i - 1] + Len(g[i]) /\ c[i] <= c[n]
    BY <1>2, <1>3, <1>4
  <2>2. ASSUME NEW k \in 1 .. Len(g[i])
        PROVE  P(n)[c[i - 1] + k] = g[i][k]
    <3>1. c[i - 1] + k \in 1 .. c[i]
      <4>1. \A a, b \in Nat : \A j \in 1 .. b : a + j \in 1 .. a + b
        OBVIOUS
      <4> QED
        BY <2>1, <4>1
    <3>2. P(n)[c[i - 1] + k] = P(i)[c[i - 1] + k]
      BY <1>4, <2>1, <3>1
    <3> QED
      BY <1>3, <3>2
  <2> QED
    BY <2>1, <2>2
<1>6. /\ Len(P(n)) = c[n] /\ c[0] = 0 /\ c[n] \in Nat
      /\ \A i \in 0 .. n : c[i] \in 0 .. c[n]
  <2>1. n \in 0 .. n /\ 0 \in 0 .. n
    OBVIOUS
  <2>2. c[0] = 0
    BY <1>1, <1>2, <2>1
  <2> QED
    BY <1>2, <1>4, <2>1, <2>2
<1> QED
  BY <1>5, <1>6 DEF Offsets, P

\* The parts of a text cut at places from its start to its end.
Cut(g, n, c, w) ==
    /\ \A i \in 0 .. n : c[i] \in 0 .. Len(w)
    /\ c[0] = 0 /\ c[n] = Len(w)
    /\ \A i \in 1 .. n : c[i - 1] <= c[i] /\ g[i] = SubSeq(w, c[i - 1] + 1, c[i])

\* They join to the text.
LEMMA CutsJoin ==
    ASSUME NEW S, NEW w \in Seq(S), NEW n \in Nat, NEW c, NEW g, Cut(g, n, c, w)
    PROVE  Prefix(g, n) = w
<1>0. /\ \A i \in 0 .. n : c[i] \in 0 .. Len(w)
      /\ c[0] = 0 /\ c[n] = Len(w)
      /\ \A i \in 1 .. n : c[i - 1] <= c[i] /\ g[i] = SubSeq(w, c[i - 1] + 1, c[i])
  BY DEF Cut
<1>1. Len(w) \in Nat
  BY LenProperties
<1>2. \A i \in 1 .. n : g[i] \in Seq(S)
  <2>1. ASSUME NEW i \in 1 .. n PROVE g[i] \in Seq(S)
    <3>1. i - 1 \in 0 .. n /\ i \in 0 .. n
      OBVIOUS
    <3>2. c[i - 1] \in Nat /\ c[i] \in Nat /\ c[i] <= Len(w)
      BY <1>0, <1>1, <3>1
    <3>3. c[i - 1] + 1 \in Int /\ c[i] \in Int /\ \A k \in c[i - 1] + 1 .. c[i] : k \in 1 .. Len(w)
      BY <1>1, <3>2
    <3>4. \A k \in c[i - 1] + 1 .. c[i] : w[k] \in S
      BY <3>3, ElementOfSeq
    <3>5. SubSeq(w, c[i - 1] + 1, c[i]) \in Seq(S)
      BY <3>3, <3>4, SubSeqProperties
    <3> QED
      BY <1>0, <3>5
  <2> QED
    BY <2>1
<1>3. /\ Prefix(g, 0) = <<>>
      /\ \A m \in 1 .. n : Prefix(g, m) = Prefix(g, m - 1) \o g[m]
  BY <1>2, PrefixSteps
<1> DEFINE D == {m \in 0 .. n : Prefix(g, m) = SubSeq(w, 1, c[m])}
<1>4. 0 \in D
  <2>1. SubSeq(w, 1, 0) = <<>>
    BY SubSeqEmpty
  <2>2. Prefix(g, 0) = SubSeq(w, 1, c[0])
    BY <1>0, <1>3, <2>1
  <2>3. 0 \in 0 .. n
    OBVIOUS
  <2> QED
    BY <2>2, <2>3
<1>5. ASSUME NEW m \in D, m < n
      PROVE  m + 1 \in D
  <2>1. m + 1 \in 1 .. n /\ (m + 1) - 1 = m /\ m + 1 \in 0 .. n /\ m \in 0 .. n
    BY <1>5
  <2>2. Prefix(g, m + 1) = SubSeq(w, 1, c[m]) \o SubSeq(w, c[m] + 1, c[m + 1])
    BY <1>0, <1>3, <2>1
  <2>3. /\ c[m] \in 0 .. Len(w) /\ c[m + 1] \in 0 .. Len(w) /\ c[m] <= c[m + 1]
    BY <1>0, <2>1
  <2>4. /\ 1 \in 1 .. Len(w) + 1 /\ c[m] \in 1 - 1 .. Len(w) /\ c[m + 1] \in c[m] .. Len(w)
    BY <1>1, <2>3
  <2>5. SubSeq(w, 1, c[m]) \o SubSeq(w, c[m] + 1, c[m + 1]) = SubSeq(w, 1, c[m + 1])
    BY <2>4, ConcatAdjacentSubSeq
  <2> QED
    BY <2>1, <2>2, <2>5
<1>6. D = 0 .. n
  BY <1>4, <1>5, InductiveSet
<1>7. Prefix(g, n) = SubSeq(w, 1, Len(w))
  BY <1>0, <1>6
<1> QED
  BY <1>7, SubSeqFull

-----------------------------------------------------------------------------
(* Findings, and the marks that replace them.                              *)

\* A text has no such pair of characters.
LEMMA PairsOf ==
    ASSUME NEW text, NEW c, NEW d
    PROVE  Pairs(text, c, d) = {} <=> \A k \in 1 .. Len(text) - 1 : ~(text[k] = c /\ text[k + 1] = d)
  BY DEF Pairs

\* Joining two texts makes a pair of characters only where they meet.
LEMMA PairsOfJoined ==
    ASSUME NEW S, NEW x \in Seq(S), NEW y \in Seq(S), NEW c, NEW d,
           Pairs(x, c, d) = {}, Pairs(y, c, d) = {},
           ~(x # <<>> /\ y # <<>> /\ x[Len(x)] = c /\ y[1] = d)
    PROVE  Pairs(x \o y, c, d) = {}
<1> DEFINE t == x \o y
<1>1. /\ t \in Seq(S) /\ Len(t) = Len(x) + Len(y) /\ Len(x) \in Nat /\ Len(y) \in Nat
      /\ \A i \in 1 .. Len(t) : t[i] = IF i <= Len(x) THEN x[i] ELSE y[i - Len(x)]
  BY ConcatProperties, LenProperties
<1>2. /\ \A k \in 1 .. Len(x) - 1 : ~(x[k] = c /\ x[k + 1] = d)
      /\ \A k \in 1 .. Len(y) - 1 : ~(y[k] = c /\ y[k + 1] = d)
  BY PairsOf
<1>3. Len(x) # 0 => x # <<>>
  BY EmptySeq
<1>4. Len(y) # 0 => y # <<>>
  BY EmptySeq
<1> HIDE DEF t
<1>5. ASSUME NEW k \in 1 .. Len(t) - 1, t[k] = c, t[k + 1] = d
      PROVE  FALSE
  <2>1. k \in Nat /\ k \in 1 .. Len(t) /\ k + 1 \in 1 .. Len(t)
    BY <1>1
  <2>2. CASE k < Len(x)
    BY <1>1, <1>2, <1>5, <2>1, <2>2
  <2>3. CASE k = Len(x)
    <3>1. /\ k <= Len(x) /\ ~(k + 1 <= Len(x)) /\ (k + 1) - Len(x) = 1
          /\ Len(x) # 0 /\ Len(y) # 0
      BY <1>1, <2>1, <2>3
    <3>2. t[k] = x[k]
      BY <1>1, <2>1, <3>1
    <3>3. t[k + 1] = y[(k + 1) - Len(x)]
      BY <1>1, <2>1, <3>1
    <3> QED
      BY <1>3, <1>4, <1>5, <2>3, <3>1, <3>2, <3>3
  <2>4. CASE k > Len(x)
    <3>1. k - Len(x) \in 1 .. Len(y) - 1 /\ (k + 1) - Len(x) = (k - Len(x)) + 1
      BY <1>1, <2>1, <2>4
    <3>2. t[k] = y[k - Len(x)] /\ t[k + 1] = y[(k - Len(x)) + 1]
      BY <1>1, <2>1, <2>4, <3>1
    <3> QED
      BY <1>2, <1>5, <3>1, <3>2
  <2> QED
    BY <1>1, <2>1, <2>2, <2>3, <2>4
<1> QED
  BY <1>1, <1>5, PairsOf DEF t

\* What a mark is made of cannot be found (MarkAssumption), and a mark that is written
\* keeps apart what stands before and behind it: two characters are side by side in a
\* masked text only if they were, and are not both part of a finding.
LEMMA MaskSeparates ==
    ASSUME NEW text \in Seq(STRING), NEW found, NEW c, NEW d,
           Pairs(RedactedMark, c, d) = {}, RedactedMark[1] # d, RedactedMark[Len(RedactedMark)] # c,
           \A k \in 1 .. Len(text) - 1 :
               text[k] = c /\ text[k + 1] = d => Covered(k, found) \/ Covered(k + 1, found)
    PROVE  LET new == Mask(text, found) IN
           /\ new \in Seq(STRING) /\ Pairs(new, c, d) = {}
           /\ text # <<>> => new # <<>>
<1> DEFINE new == Mask(text, found)
           m == Len(text)
           piece(k) == IF ~Covered(k, found) THEN <<text[k]>>
                       ELSE IF k > 1 /\ Covered(k - 1, found) THEN <<>>
                       ELSE RedactedMark
           s == [k \in 1 .. m |-> piece(k)]
           Hidden(t, k) ==
             /\ t \in Seq(STRING) /\ t # <<>> /\ Pairs(t, c, d) = {}
             /\ t[Len(t)] = c => text[k] = c /\ ~Covered(k, found)
<1>1. m \in Nat /\ \A k \in 1 .. m : text[k] \in STRING
  BY LenProperties, ElementOfSeq
<1>2. new = FlattenSeq(s)
  BY DEF Mask
<1>3. Len(s) = m /\ \A k \in 1 .. m : s[k] = piece(k)
  BY <1>1
<1>4. CASE m = 0
  <2>1. FlattenSeq(s) = s /\ s = <<>>
    BY <1>3, <1>4 DEF FlattenSeq
  <2>2. text = <<>>
    BY <1>4
  <2>3. <<>> \in Seq(STRING) /\ Pairs(<<>>, c, d) = {}
    BY DEF Pairs
  <2>4. new = <<>>
    BY <1>2, <2>1
  <2> HIDE DEF new
  <2>5. new \in Seq(STRING) /\ Pairs(new, c, d) = {}
    BY <2>3, <2>4
  <2> QED
    BY <2>2, <2>5 DEF new
<1> HIDE DEF s, m, new
<1>5. CASE m # 0
  <2>1. PICK F : /\ FlattenSeq(s) = F[m]
                 /\ F[1] = s[1]
                 /\ \A i \in 2 .. m : F[i] = F[i - 1] \o s[i]
    <3>1. Len(s) \in Nat /\ Len(s) # 0
      BY <1>1, <1>3, <1>5
    <3>2. \E F : /\ FlattenSeq(s) = F[Len(s)]
                 /\ F[1] = s[1]
                 /\ \A i \in 2 .. Len(s) : F[i] = F[i - 1] \o s[i]
      BY <3>1, FlattenSteps
    <3> QED
      BY <1>3, <3>2
  <2>2. \A k \in 1 .. m : <<text[k]>> \in Seq(STRING) /\ <<text[k]>> # <<>>
           /\ Len(<<text[k]>>) = 1 /\ <<text[k]>>[1] = text[k] /\ Pairs(<<text[k]>>, c, d) = {}
    BY <1>1 DEF Pairs
  <2>3. \A k \in 1 .. m - 1 : text[k] = c /\ text[k + 1] = d =>
           Covered(k, found) \/ Covered(k + 1, found)
    BY DEF m
  <2>4. Hidden(F[1], 1)
    <3>1. 1 \in 1 .. m /\ F[1] = piece(1)
      BY <1>1, <1>3, <1>5, <2>1
    <3>2. CASE ~Covered(1, found)
      BY <2>2, <3>1, <3>2
    <3>3. CASE Covered(1, found)
      <4>1. F[1] = RedactedMark
        BY <3>1, <3>3
      <4> QED
        BY <4>1, MarkAssumption
    <3> QED
      BY <3>2, <3>3
  <2>5. ASSUME NEW k \in 1 .. m, k < m, Hidden(F[k], k)
        PROVE  Hidden(F[k + 1], k + 1)
    <3> DEFINE x == F[k] y == piece(k + 1)
    <3>1. /\ k \in Nat /\ k + 1 \in 2 .. m /\ k + 1 \in 1 .. m /\ k \in 1 .. m - 1
          /\ k + 1 > 1 /\ (k + 1) - 1 = k
      BY <1>1, <2>5
    <3>2. F[k + 1] = x \o y
      BY <1>3, <2>1, <3>1
    <3>3. CASE ~Covered(k + 1, found)
      <4>1. y = <<text[k + 1]>>
        BY <3>3
      <4> HIDE DEF x, y
      <4>2. y \in Seq(STRING) /\ Pairs(y, c, d) = {} /\ Len(y) = 1 /\ y[1] = text[k + 1]
        BY <2>2, <3>1, <4>1
      <4>3. ~(x[Len(x)] = c /\ y[1] = d)
        BY <2>3, <2>5, <3>1, <3>3, <4>2 DEF x
      <4>4. Pairs(x \o y, c, d) = {}
        BY <2>5, <4>2, <4>3, PairsOfJoined DEF x
      <4>5. /\ x \o y \in Seq(STRING) /\ Len(x \o y) = Len(x) + 1
            /\ (x \o y)[Len(x) + 1] = text[k + 1] /\ Len(x) \in Nat
        <5>1. x \in Seq(STRING) /\ Len(x) \in Nat
          BY <2>5, LenProperties DEF x
        <5>2. Len(x) + 1 \in 1 .. Len(x) + Len(y) /\ ~(Len(x) + 1 <= Len(x)) /\ (Len(x) + 1) - Len(x) = 1
          BY <4>2, <5>1
        <5>3. /\ x \o y \in Seq(STRING) /\ Len(x \o y) = Len(x) + Len(y)
              /\ \A i \in 1 .. Len(x) + Len(y) : (x \o y)[i] = IF i <= Len(x) THEN x[i] ELSE y[i - Len(x)]
          BY <4>2, <5>1, ConcatProperties
        <5>4. (x \o y)[Len(x) + 1] = y[1]
          BY <5>2, <5>3
        <5> QED
          BY <4>2, <5>1, <5>3, <5>4
      <4>6. x \o y # <<>>
        BY <4>5
      <4> QED
        BY <3>2, <3>3, <4>4, <4>5, <4>6
    <3>4. CASE Covered(k + 1, found) /\ Covered(k, found)
      <4>1. y = <<>>
        BY <3>1, <3>4
      <4>2. x \o y = x
        BY <2>5, <4>1, ConcatEmptySeq
      <4> QED
        BY <2>5, <3>2, <3>4, <4>2
    <3>5. CASE Covered(k + 1, found) /\ ~Covered(k, found)
      <4>1. y = RedactedMark
        BY <3>1, <3>5
      <4>2. /\ y \in Seq(STRING) /\ y # <<>> /\ Pairs(y, c, d) = {} /\ y[Len(y)] # c /\ y[1] # d
        BY <4>1, MarkAssumption
      <4> HIDE DEF x, y
      <4>3. Pairs(x \o y, c, d) = {}
        BY <2>5, <4>2, PairsOfJoined DEF x
      <4>4. /\ x \o y \in Seq(STRING) /\ Len(x \o y) = Len(x) + Len(y)
            /\ Len(x) \in Nat /\ Len(y) \in Nat /\ Len(y) # 0
            /\ (x \o y)[Len(x) + Len(y)] = y[Len(y)]
        <5>1. x \in Seq(STRING) /\ Len(y) \in Nat /\ Len(x) \in Nat /\ Len(y) # 0
          BY <2>5, <4>2, LenProperties, EmptySeq DEF x
        <5> QED
          BY <4>2, <5>1, ConcatProperties
      <4>5. x \o y # <<>>
        BY <4>4
      <4> QED
        BY <3>2, <4>2, <4>3, <4>4, <4>5
    <3> QED
      BY <3>3, <3>4, <3>5
  <2> DEFINE S == {n \in 0 .. m - 1 : Hidden(F[n + 1], n + 1)}
  <2>6. m - 1 \in Nat /\ 0 \in S
    BY <1>1, <1>5, <2>4
  <2>7. ASSUME NEW n \in S, n < m - 1
        PROVE  n + 1 \in S
    <3>1. n \in Nat /\ n + 1 \in 1 .. m /\ n + 1 < m /\ n + 1 \in 0 .. m - 1
      BY <1>1, <2>7
    <3>2. Hidden(F[n + 1], n + 1)
      OBVIOUS
    <3>3. Hidden(F[(n + 1) + 1], (n + 1) + 1)
      BY <2>5, <3>1, <3>2
    <3> QED
      BY <3>1, <3>3
  <2>8. S = 0 .. m - 1
    BY <2>6, <2>7, InductiveSet
  <2>9. Hidden(F[m], m)
    <3>1. m - 1 \in 0 .. m - 1 /\ (m - 1) + 1 = m
      BY <1>1, <2>6
    <3>2. m - 1 \in S
      BY <2>8, <3>1
    <3> QED
      BY <3>1, <3>2
  <2>10. Hidden(new, m)
    BY <1>2, <2>1, <2>9
  <2> QED
    BY <2>10 DEF new
<1> QED
  BY <1>4, <1>5

\* What is found is covered.
LEMMA FoundIsCovered ==
    ASSUME NEW text, Len(text) \in Nat, NEW k \in 1 .. Len(text) - 1, text[k] = "a", text[k + 1] = "b"
    PROVE  Covered(k, Findings(text)) /\ Covered(k + 1, Findings(text))
<1> DEFINE f == [start |-> k - 1, end |-> k + 1]
<1>1. f \in Findings(text)
  BY DEF Findings, Pairs
<1>2. f.start < k /\ k <= f.end /\ f.start < k + 1 /\ k + 1 <= f.end
  OBVIOUS
<1> QED
  BY <1>1, <1>2 DEF Covered

\* There is a finding where there is such a pair of characters.
LEMMA FindingsArePairs ==
    ASSUME NEW text
    PROVE  Findings(text) = {} <=> Pairs(text, "a", "b") = {}
  BY DEF Findings

\* A masked text holds no finding, and nothing suspicious that was not there.
LEMMA MaskHides ==
    ASSUME NEW text \in Seq(STRING)
    PROVE  LET new == Mask(text, Findings(text)) IN
           /\ new \in Seq(STRING) /\ Findings(new) = {}
           /\ text # <<>> => new # <<>>
           /\ ~Suspicious(text) => ~Suspicious(new)
<1> DEFINE found == Findings(text)
<1>1. Len(text) \in Nat
  BY LenProperties
<1>2. \A k \in 1 .. Len(text) - 1 : text[k] = "a" /\ text[k + 1] = "b" =>
          Covered(k, found) \/ Covered(k + 1, found)
  BY <1>1, FoundIsCovered
<1>3. /\ Pairs(RedactedMark, "a", "b") = {} /\ RedactedMark[1] # "b"
      /\ RedactedMark[Len(RedactedMark)] # "a"
  BY MarkAssumption, FindingsArePairs
<1> HIDE DEF found
<1> DEFINE new == Mask(text, found)
<1>4. new \in Seq(STRING) /\ Pairs(new, "a", "b") = {} /\ (text # <<>> => new # <<>>)
  BY <1>2, <1>3, MaskSeparates
<1>5. ASSUME ~Suspicious(text)
      PROVE  ~Suspicious(new)
  <2>1. \A k \in 1 .. Len(text) - 1 : text[k] = "s" /\ text[k + 1] = "t" =>
            Covered(k, found) \/ Covered(k + 1, found)
    BY <1>5 DEF Suspicious, Pairs
  <2>2. /\ Pairs(RedactedMark, "s", "t") = {} /\ RedactedMark[1] # "t"
        /\ RedactedMark[Len(RedactedMark)] # "s"
    BY MarkAssumption DEF Suspicious
  <2>3. Pairs(new, "s", "t") = {}
    BY <2>1, <2>2, MaskSeparates
  <2> QED
    BY <2>3 DEF Suspicious
<1>6. Findings(new) = {}
  BY <1>4, FindingsArePairs
<1> QED
  BY <1>4, <1>5, <1>6 DEF found

\* Without a finding nothing is masked.
LEMMA MaskNothing ==
    ASSUME NEW text \in Seq(STRING)
    PROVE  Mask(text, {}) = text
<1> DEFINE n == Len(text)
           g == [k \in 1 .. n |-> <<text[k]>>]
           c == [k \in 0 .. n |-> k]
<1>1. n \in Nat /\ \A k \in 1 .. n : text[k] \in STRING
  BY LenProperties, ElementOfSeq
<1>2. \A k \in 1 .. n : ~Covered(k, {})
  BY DEF Covered
<1>3. Mask(text, {}) = Prefix(g, n)
  <2>1. [k \in 1 .. n |-> IF ~Covered(k, {}) THEN <<text[k]>>
                          ELSE IF k > 1 /\ Covered(k - 1, {}) THEN <<>> ELSE RedactedMark]
        = [k \in 1 .. n |-> g[k]]
    BY <1>2
  <2> QED
    BY <2>1 DEF Mask, Prefix
<1>4. ASSUME NEW k \in 1 .. n
      PROVE  c[k - 1] <= c[k] /\ g[k] = SubSeq(text, c[k - 1] + 1, c[k])
  <2>1. k \in 0 .. n /\ k - 1 \in 0 .. n /\ c[k] = k /\ c[k - 1] = k - 1 /\ (k - 1) + 1 = k
    BY <1>1
  <2>2. \A i \in k .. k : text[i] \in STRING
    BY <1>1
  <2>3. /\ SubSeq(text, k, k) \in Seq(STRING) /\ Len(SubSeq(text, k, k)) = 1
        /\ SubSeq(text, k, k)[1] = text[k]
    <3>1. k \in Int /\ k - k + 1 = 1 /\ k + 1 - 1 = k /\ 1 \in 1 .. 1
      OBVIOUS
    <3> QED
      BY <2>2, <3>1, SubSeqProperties
  <2>4. g[k] = <<text[k]>>
    OBVIOUS
  <2>5. SubSeq(text, k, k) = <<text[k]>>
    <3> DEFINE t == <<text[k]>>
    <3>1. t \in Seq(STRING) /\ Len(t) = 1 /\ t[1] = text[k]
      BY <1>1
    <3> HIDE DEF t
    <3>2. \A i \in 1 .. 1 : i = 1
      OBVIOUS
    <3>3. SubSeq(text, k, k) = t
      BY <2>3, <3>1, <3>2, SeqEqual
    <3> QED
      BY <3>3 DEF t
  <2> QED
    BY <2>1, <2>4, <2>5
<1>5. /\ \A k \in 0 .. n : c[k] \in 0 .. n
      /\ c[0] = 0 /\ c[n] = n
  BY <1>1
<1> HIDE DEF c, g
<1>6. Prefix(g, n) = text
  <2>1. Cut(g, n, c, text)
    BY <1>4, <1>5 DEF Cut
  <2> QED
    BY <1>1, <2>1, CutsJoin
<1> QED
  BY <1>3, <1>6

-----------------------------------------------------------------------------
(* Stars and slices: one text written back over several strings.           *)

\* The fragments of a text: its i-th part if i is one of the lane J, nothing otherwise.
Parts(texts, J, n) == [i \in 1 .. n |-> IF i \in J THEN texts[i] ELSE <<>>]

\* A text with the characters of its findings starred.
Stars(text, found) == [k \in 1 .. Len(text) |-> IF Covered(k, found) THEN "*" ELSE text[k]]

Chars == STRING \cup {"*"}

\* Starred where it stands, a text hides its findings and nothing else.
LEMMA StarsHide ==
    ASSUME NEW text \in Seq(STRING)
    PROVE  LET new == Stars(text, Findings(text)) IN
           /\ Findings(new) = {} /\ (~Suspicious(text) => ~Suspicious(new))
           /\ \A k \in 1 .. Len(text) : new[k] # text[k] => Covered(k, Findings(text))
<1> DEFINE found == Findings(text)
           new == Stars(text, found)
<1>1. Len(text) \in Nat
  BY LenProperties
<1>2. Len(new) = Len(text) /\ \A k \in 1 .. Len(text) : new[k] = IF Covered(k, found) THEN "*" ELSE text[k]
  BY <1>1 DEF Stars
<1>3. \A k \in 1 .. Len(text) - 1 : text[k] = "a" /\ text[k + 1] = "b" =>
          Covered(k, found) /\ Covered(k + 1, found)
  BY <1>1, FoundIsCovered
<1> HIDE DEF found, new
<1>4. \A k \in 1 .. Len(text) - 1 : k \in 1 .. Len(text) /\ k + 1 \in 1 .. Len(text)
  BY <1>1
<1>5. Pairs(new, "a", "b") = {}
  <2>1. ASSUME NEW k \in 1 .. Len(text) - 1, new[k] = "a", new[k + 1] = "b" PROVE FALSE
    <3>1. text[k] = "a" /\ text[k + 1] = "b" /\ ~Covered(k, found)
      BY <1>2, <1>4, <2>1
    <3> QED
      BY <1>3, <3>1
  <2> QED
    BY <1>2, <2>1, PairsOf
<1>6. ASSUME ~Suspicious(text)
      PROVE  ~Suspicious(new)
  <2>1. Pairs(text, "s", "t") = {}
    BY <1>6 DEF Suspicious
  <2>2. ASSUME NEW k \in 1 .. Len(text) - 1, new[k] = "s", new[k + 1] = "t" PROVE FALSE
    <3>1. text[k] = "s" /\ text[k + 1] = "t"
      BY <1>2, <1>4, <2>2
    <3> QED
      BY <2>1, <3>1, PairsOf
  <2>3. Pairs(new, "s", "t") = {}
    BY <1>2, <2>2, PairsOf
  <2> QED
    BY <2>3 DEF Suspicious
<1>7. Findings(new) = {}
  BY <1>5, FindingsArePairs
<1> QED
  BY <1>2, <1>6, <1>7 DEF found, new

\* The fragments are starred where the joined text has findings.
Starring(out, T, J, n, found) ==
    /\ \A i \in 1 .. n : T[i] \in Seq(STRING)
    /\ \A i \in 1 .. n : i \in J =>
         out[i] = [k \in 1 .. Len(T[i]) |->
                     IF Covered(Len(Prefix(Parts(T, J, n), i - 1)) + k, found) THEN "*" ELSE T[i][k]]

\* They join to the starred text.
LEMMA StarsJoin ==
    ASSUME NEW n \in Nat, NEW J, NEW T, NEW out, NEW found, Starring(out, T, J, n, found)
    PROVE  Prefix(Parts(out, J, n), n) = Stars(Prefix(Parts(T, J, n), n), found)
<1> DEFINE g == Parts(T, J, n)
           h == Parts(out, J, n)
           c == [i \in 0 .. n |-> Len(Prefix(g, i))]
           whole == Prefix(g, n)
           w == Stars(whole, found)
<1>1. \A i \in 1 .. n : g[i] = IF i \in J THEN T[i] ELSE <<>>
  BY DEF Parts
<1>2. \A i \in 1 .. n : h[i] = IF i \in J THEN out[i] ELSE <<>>
  BY DEF Parts
<1>3. \A i \in 1 .. n : g[i] \in Seq(STRING)
  BY <1>1, EmptySeq DEF Starring
<1> HIDE DEF g, h
<1>4. \A i \in 0 .. n : c[i] = Len(Prefix(g, i))
  OBVIOUS
<1> HIDE DEF c
<1>5. /\ Len(Prefix(g, n)) = c[n]
      /\ c[0] = 0 /\ c[n] \in Nat /\ \A i \in 0 .. n : c[i] \in 0 .. c[n]
      /\ \A i \in 1 .. n :
           /\ c[i - 1] \in Nat /\ c[i] \in Nat /\ Len(g[i]) \in Nat
           /\ c[i] = c[i - 1] + Len(g[i]) /\ c[i] <= c[n]
           /\ \A k \in 1 .. Len(g[i]) : Prefix(g, n)[c[i - 1] + k] = g[i][k]
  <2>1. Offsets(g, n, c)
    BY <1>3, <1>4, PartsOfJoined
  <2> QED
    BY <2>1 DEF Offsets
<1>6. whole \in Seq(STRING) /\ Len(whole) = c[n] /\ c[n] \in Nat
  <2>1. \A m \in 0 .. n : Prefix(g, m) \in Seq(STRING)
    BY <1>3, PrefixSteps
  <2>2. n \in 0 .. n
    OBVIOUS
  <2> QED
    BY <1>5, <2>1, <2>2
<1>7. /\ w \in Seq(Chars) /\ Len(w) = c[n]
      /\ \A k \in 1 .. c[n] : w[k] = IF Covered(k, found) THEN "*" ELSE whole[k]
  <2>1. \A k \in 1 .. Len(whole) : whole[k] \in STRING
    BY <1>6, ElementOfSeq
  <2> HIDE DEF whole
  <2>2. w \in [1 .. Len(whole) -> Chars]
    BY <2>1 DEF Stars, Chars
  <2>3. Len(w) = Len(whole)
    BY <1>6 DEF Stars
  <2>4. w \in Seq(Chars)
    <3> HIDE DEF w
    <3> QED
      BY <1>6, <2>2, SeqDef
  <2> QED
    BY <1>6, <2>3, <2>4 DEF Stars
<1>0. \A i \in 1 .. n : \A k \in 1 .. Len(g[i]) : whole[c[i - 1] + k] = g[i][k]
  BY <1>5
<1> HIDE DEF whole, w
<1>8. ASSUME NEW i \in 1 .. n
      PROVE  c[i - 1] <= c[i] /\ h[i] = SubSeq(w, c[i - 1] + 1, c[i])
  <2>1. c[i] = c[i - 1] + Len(g[i]) /\ c[i - 1] \in Nat /\ c[i] \in Nat /\ Len(g[i]) \in Nat /\ c[i] <= c[n]
    BY <1>5
  <2>2. CASE i \notin J
    <3>1. h[i] = <<>> /\ g[i] = <<>>
      BY <1>1, <1>2, <2>2
    <3>2. Len(g[i]) = 0
      BY <3>1
    <3>3. c[i] < c[i - 1] + 1 /\ c[i - 1] + 1 \in Int /\ c[i] \in Int
      BY <2>1, <3>2
    <3>4. SubSeq(w, c[i - 1] + 1, c[i]) = <<>>
      BY <3>3, SubSeqEmpty
    <3> QED
      BY <2>1, <3>1, <3>4
  <2>3. CASE i \in J
    <3> DEFINE m == Len(g[i])
               u == SubSeq(w, c[i - 1] + 1, c[i])
    <3>1. g[i] = T[i] /\ h[i] = out[i]
      BY <1>1, <1>2, <2>3
    <3>2. /\ c[i - 1] + 1 \in Int /\ c[i] \in Int
          /\ \A k \in c[i - 1] + 1 .. c[i] : k \in 1 .. c[n]
      <4>1. \A a, b, z \in Nat : b <= z => \A k \in a + 1 .. b : k \in 1 .. z
        OBVIOUS
      <4>2. \A k \in c[i - 1] + 1 .. c[i] : k \in 1 .. c[n]
        BY <1>6, <2>1, <4>1
      <4> QED
        BY <2>1, <4>2
    <3>3. \A k \in c[i - 1] + 1 .. c[i] : w[k] \in Chars
      BY <1>7, <3>2, ElementOfSeq
    <3>4. /\ u \in Seq(Chars)
          /\ Len(u) = IF c[i - 1] + 1 <= c[i] THEN c[i] - (c[i - 1] + 1) + 1 ELSE 0
          /\ \A k \in 1 .. c[i] - (c[i - 1] + 1) + 1 : u[k] = w[c[i - 1] + 1 + k - 1]
      BY <3>2, <3>3, SubSeqProperties
    <3>5. c[i] - (c[i - 1] + 1) + 1 = m /\ (c[i - 1] + 1 <= c[i] <=> m # 0)
      <4>1. \A a, b, z \in Nat : z = a + b => z - (a + 1) + 1 = b /\ (a + 1 <= z <=> b # 0)
        OBVIOUS
      <4> QED
        BY <2>1, <4>1
    <3>6. Len(u) = m /\ \A k \in 1 .. m : u[k] = w[c[i - 1] + k]
      <4>1. \A k \in 1 .. m : c[i - 1] + 1 + k - 1 = c[i - 1] + k
        BY <2>1
      <4> QED
        BY <3>4, <3>5, <4>1
    <3>7. h[i] = [k \in 1 .. m |-> IF Covered(c[i - 1] + k, found) THEN "*" ELSE g[i][k]]
      <4>1. i - 1 \in 0 .. n
        OBVIOUS
      <4>2. c[i - 1] = Len(Prefix(g, i - 1))
        BY <1>4, <4>1
      <4> QED
        BY <2>3, <3>1, <4>2 DEF g, Starring
    <3>8. \A k \in 1 .. m : c[i - 1] + k \in 1 .. c[n]
      <4>1. \A a, b, z \in Nat : \A k \in 1 .. b : a + b <= z => a + k \in 1 .. z
        OBVIOUS
      <4> QED
        BY <1>6, <2>1, <4>1
    <3>9. \A k \in 1 .. m : u[k] = IF Covered(c[i - 1] + k, found) THEN "*" ELSE g[i][k]
      <4>1. \A k \in 1 .. m : whole[c[i - 1] + k] = g[i][k]
        BY <1>0
      <4> QED
        BY <1>7, <3>6, <3>8, <4>1
    <3>10. u = [k \in 1 .. m |-> u[k]]
      <4> HIDE DEF u, m
      <4>1. \E z \in Nat : u \in [1 .. z -> Chars]
        BY <3>4, SeqDef
      <4>2. PICK z \in Nat : u \in [1 .. z -> Chars]
        BY <4>1
      <4>3. z = m
        BY <3>4, <3>6, <4>2, LenProperties
      <4> QED
        BY <4>2, <4>3
    <3>11. u = [k \in 1 .. m |-> IF Covered(c[i - 1] + k, found) THEN "*" ELSE g[i][k]]
      BY <3>9, <3>10
    <3> QED
      BY <2>1, <3>7, <3>11
  <2> QED
    BY <2>2, <2>3
<1>9. Prefix(h, n) = w
  <2>1. \A i \in 0 .. n : c[i] \in 0 .. Len(w)
    BY <1>5, <1>7
  <2>2. c[n] = Len(w) /\ c[0] = 0
    BY <1>5, <1>7
  <2>3. Cut(h, n, c, w)
    BY <1>8, <2>1, <2>2 DEF Cut
  <2> QED
    BY <1>7, <2>3, CutsJoin
<1> QED
  BY <1>9 DEF g, h, whole, w

\* The fragments are slices of a replacement, as long as they were, the last one with
\* the rest.
Slicing(out, T, J, n, R) ==
    /\ \A i \in 1 .. n : T[i] \in Seq(STRING)
    /\ \E i \in 1 .. n : i \in J
    /\ \A i \in 1 .. n : i \in J =>
         out[i] = SubSeq(R, Len(Prefix(Parts(T, J, n), i - 1)) + 1,
                         IF \A j \in i + 1 .. n : j \notin J THEN Len(R)
                         ELSE Shorter(Len(Prefix(Parts(T, J, n), i)), Len(R)))

\* They join to the replacement, whether it is shorter or longer than they were.
LEMMA SlicesJoin ==
    ASSUME NEW n \in Nat, NEW J, NEW T, NEW out, NEW R \in Seq(STRING), Slicing(out, T, J, n, R)
    PROVE  Prefix(Parts(out, J, n), n) = R
<1> DEFINE g == Parts(T, J, n)
           h == Parts(out, J, n)
           c == [i \in 0 .. n |-> Len(Prefix(g, i))]
           z == Len(R)
           Final(i) == i \in J /\ \A j \in i + 1 .. n : j \notin J
           Over(i) == \E j \in 1 .. i : Final(j)
           d == [i \in 0 .. n |-> IF Over(i) THEN z ELSE Shorter(c[i], z)]
<1>1. \A i \in 1 .. n : g[i] = IF i \in J THEN T[i] ELSE <<>>
  BY DEF Parts
<1>2. \A i \in 1 .. n : h[i] = IF i \in J THEN out[i] ELSE <<>>
  BY DEF Parts
<1>3. \A i \in 1 .. n : g[i] \in Seq(STRING)
  <2>1. <<>> \in Seq(STRING)
    BY EmptySeq
  <2>2. ASSUME NEW i \in 1 .. n PROVE g[i] \in Seq(STRING)
    <3>1. T[i] \in Seq(STRING)
      BY DEF Slicing
    <3> HIDE DEF g
    <3> QED
      BY <1>1, <2>1, <3>1
  <2> QED
    BY <2>2
<1> HIDE DEF g, h
<1>4. \A i \in 0 .. n : c[i] = Len(Prefix(g, i))
  OBVIOUS
<1> HIDE DEF c
<1>5. /\ c[0] = 0 /\ \A i \in 0 .. n : c[i] \in Nat
      /\ \A i \in 1 .. n : c[i - 1] \in Nat /\ c[i] \in Nat /\ c[i] = c[i - 1] + Len(g[i]) /\ Len(g[i]) \in Nat
  <2>1. Offsets(g, n, c)
    BY <1>3, <1>4, PartsOfJoined
  <2>2. c[n] \in Nat /\ c[0] = 0 /\ \A i \in 0 .. n : c[i] \in 0 .. c[n]
    BY <2>1 DEF Offsets
  <2>3. \A i \in 1 .. n : c[i - 1] \in Nat /\ c[i] \in Nat /\ c[i] = c[i - 1] + Len(g[i]) /\ Len(g[i]) \in Nat
    BY <2>1 DEF Offsets
  <2> QED
    BY <2>2, <2>3
<1>6. z \in Nat /\ \A x \in Nat : Shorter(x, z) \in 0 .. z /\ (x <= z => Shorter(x, z) = x) /\ (z <= x => Shorter(x, z) = z)
  BY LenProperties DEF Shorter
<1> HIDE DEF z
<1>7. \A i \in 0 .. n : d[i] = IF Over(i) THEN z ELSE Shorter(c[i], z)
  OBVIOUS
<1> HIDE DEF d
<1>8. \A i \in 0 .. n : d[i] \in 0 .. z
  <2>1. ASSUME NEW i \in 0 .. n PROVE d[i] \in 0 .. z
    <3>1. Shorter(c[i], z) \in 0 .. z /\ z \in 0 .. z
      <4>1. c[i] \in Nat /\ z \in Nat
        BY <1>5, <1>6
      <4> QED
        BY <4>1 DEF Shorter
    <3> HIDE DEF Over
    <3> QED
      BY <1>7, <3>1
  <2> QED
    BY <2>1
<1>9. d[0] = 0
  <2>1. ~Over(0) /\ 0 \in 0 .. n
    OBVIOUS
  <2>2. Shorter(0, z) = 0
    BY <1>6
  <2> QED
    BY <1>5, <1>7, <2>1, <2>2
\* The last fragment of the lane is one of the first n.
<1>10. d[n] = z
  <2> DEFINE K == {m \in 0 .. n : n - m \in J /\ n - m \in 1 .. n}
  <2>1. PICK i \in 1 .. n : i \in J
    BY DEF Slicing
  <2>2. n - i \in K
    <3>1. n - i \in 0 .. n /\ n - (n - i) = i
      OBVIOUS
    <3> QED
      BY <2>1, <3>1
  <2>3. PICK m \in K : \A x \in K : m <= x
    <3>1. \A x \in K : x \in Nat
      OBVIOUS
    <3> HIDE DEF K
    <3>2. K \in SUBSET Nat /\ K # {}
      BY <2>2, <3>1
    <3> QED
      BY <3>2, LeastNatural
  <2>4. m \in Nat /\ n - m \in 1 .. n /\ n - m \in J
    BY <2>3
  <2>5. ASSUME NEW j \in (n - m) + 1 .. n, j \in J PROVE FALSE
    <3>1. j \in 1 .. n /\ n - j \in 0 .. n /\ n - (n - j) = j /\ n - j < m
      BY <2>4
    <3>2. n - j \in K
      BY <2>5, <3>1
    <3>3. m <= n - j
      BY <2>3, <3>2
    <3>4. n - j \in Nat
      BY <3>1
    <3> QED
      BY <2>4, <3>1, <3>3, <3>4
  <2>6. Over(n)
    BY <2>4, <2>5
  <2>7. n \in 0 .. n
    OBVIOUS
  <2> HIDE DEF Over
  <2> QED
    BY <1>7, <2>6, <2>7
<1>11. ASSUME NEW i \in 1 .. n
       PROVE  d[i - 1] <= d[i] /\ h[i] = SubSeq(R, d[i - 1] + 1, d[i])
  <2>1. /\ i \in 0 .. n /\ i - 1 \in 0 .. n /\ i \in 1 .. i
        /\ d[i] \in 0 .. z /\ d[i - 1] \in 0 .. z
        /\ d[i] = IF Over(i) THEN z ELSE Shorter(c[i], z)
        /\ d[i - 1] = IF Over(i - 1) THEN z ELSE Shorter(c[i - 1], z)
    <3>1. i \in 0 .. n /\ i - 1 \in 0 .. n /\ i \in 1 .. i
      OBVIOUS
    <3> HIDE DEF Over
    <3> QED
      BY <1>7, <1>8, <3>1
  <2>2. c[i] \in Nat /\ c[i - 1] \in Nat /\ c[i - 1] <= c[i] /\ (g[i] = <<>> => c[i] = c[i - 1])
    <3>1. c[i - 1] \in Nat /\ c[i] \in Nat /\ c[i] = c[i - 1] + Len(g[i]) /\ Len(g[i]) \in Nat
      BY <1>5
    <3>2. g[i] = <<>> => Len(g[i]) = 0
      OBVIOUS
    <3> QED
      BY <3>1, <3>2
  <2>3. \A k \in Nat : k < d[i - 1] + 1 => SubSeq(R, d[i - 1] + 1, k) = <<>>
    <3>1. d[i - 1] + 1 \in Int
      BY <1>6, <2>1
    <3> QED
      BY <3>1, SubSeqEmpty
  <2>4. CASE i \notin J
    <3>1. h[i] = <<>> /\ g[i] = <<>>
      BY <1>1, <1>2, <2>4
    <3>2. Over(i) <=> Over(i - 1)
      <4>1. \A j \in 1 .. i : j = i \/ j \in 1 .. i - 1
        OBVIOUS
      <4>2. \A j \in 1 .. i - 1 : j \in 1 .. i
        OBVIOUS
      <4> QED
        BY <2>4, <4>1, <4>2
    <3> HIDE DEF Over
    <3>3. d[i] = d[i - 1]
      BY <2>1, <2>2, <3>1, <3>2
    <3>4. d[i] \in Nat /\ d[i] < d[i - 1] + 1 /\ d[i - 1] <= d[i]
      <4>1. d[i] \in Nat
        BY <1>6, <2>1
      <4>2. \A x \in Nat : x < x + 1 /\ x <= x
        OBVIOUS
      <4> QED
        BY <3>3, <4>1, <4>2
    <3> QED
      BY <2>3, <3>1, <3>4
  <2>5. CASE i \in J
    <3>1. ~Over(i - 1)
      <4>1. \A j \in 1 .. i - 1 : i \in j + 1 .. n
        OBVIOUS
      <4> QED
        BY <2>5, <4>1
    <3>2. Over(i) <=> \A j \in i + 1 .. n : j \notin J
      <4>1. Over(i) <=> Final(i)
        <5>1. \A j \in 1 .. i : j = i \/ j \in 1 .. i - 1
          OBVIOUS
        <5> QED
          BY <2>1, <3>1, <5>1
      <4> QED
        BY <2>5, <4>1
    <3> HIDE DEF Over
    <3>3. d[i - 1] = Shorter(c[i - 1], z)
      BY <2>1, <3>1
    <3>4. h[i] = SubSeq(R, c[i - 1] + 1, d[i])
      <4>1. h[i] = SubSeq(R, Len(Prefix(g, i - 1)) + 1,
                          IF \A j \in i + 1 .. n : j \notin J THEN z ELSE Shorter(Len(Prefix(g, i)), z))
        BY <1>2, <2>5 DEF g, z, Slicing
      <4>2. h[i] = SubSeq(R, c[i - 1] + 1, IF Over(i) THEN z ELSE Shorter(c[i], z))
        BY <1>4, <2>1, <3>2, <4>1
      <4> QED
        BY <2>1, <4>2
    <3>5. d[i - 1] <= d[i]
      <4>1. CASE Over(i)
        BY <1>6, <2>1, <4>1
      <4>2. CASE ~Over(i)
        <5>1. d[i] = Shorter(c[i], z)
          BY <2>1, <4>2
        <5> QED
          BY <1>6, <2>2, <3>3, <5>1 DEF Shorter
      <4> QED
        BY <4>1, <4>2
    <3>6. CASE c[i - 1] <= z
      BY <1>6, <2>2, <3>3, <3>4, <3>5, <3>6
    <3>7. CASE ~(c[i - 1] <= z)
      <4>0. z <= c[i - 1]
        <5>1. z \in Nat /\ c[i - 1] \in Nat
          BY <1>6, <2>2
        <5> QED
          BY <3>7, <5>1
      <4>1. d[i - 1] = z
        BY <1>6, <2>2, <3>3, <4>0
      <4>2. /\ d[i] \in Nat /\ d[i] < d[i - 1] + 1
            /\ c[i - 1] + 1 \in Int /\ d[i] \in Int /\ d[i] < c[i - 1] + 1
        <5>1. \A x, y, w \in Nat : x <= w /\ w <= y =>
                 x < w + 1 /\ y + 1 \in Int /\ x \in Int /\ x < y + 1
          OBVIOUS
        <5>2. d[i] \in Nat /\ d[i] <= z
          BY <1>6, <2>1
        <5> QED
          BY <1>6, <2>2, <4>0, <4>1, <5>1, <5>2
      <4>3. h[i] = <<>>
        BY <3>4, <4>2, SubSeqEmpty
      <4> QED
        BY <2>3, <3>5, <4>2, <4>3
    <3> QED
      BY <3>6, <3>7
  <2> QED
    BY <2>4, <2>5
<1>12. Prefix(h, n) = R
  <2>1. Cut(h, n, d, R)
    BY <1>8, <1>9, <1>10, <1>11 DEF Cut, z
  <2> QED
    BY <2>1, CutsJoin
<1> QED
  BY <1>12 DEF h

-----------------------------------------------------------------------------
(* Lists of conditions with their reasons.                                  *)

\* The reasons the lists name.
Refusals ==
    {"pii_in_sse_metadata", "sse_data_after_terminal", "unexpected_sse_terminal", "invalid_json",
     "suspicious_instruction", "unsupported_sse_schema", "unexpected_sse_message_start",
     "incomplete_sse_stream", "unexpected_sse_content_block", "mixed_sse_protocols",
     "sse_event_type_mismatch", "pii_in_structural_field", "duplicate_sse_index",
     "pii_in_numeric_field",
     "pii_block_policy", "pii_in_sse_structural_field", "pii_in_nonredactable_field",
     "redaction_changed_authorized_action"}

Checks == BOOLEAN \X Refusals

\* No condition of a list holds.
Clear(checks) == \A i \in 1 .. Len(checks) : ~checks[i][1]

\* A reason is one of the list, or there is none and no condition holds.
LEMMA FirstOfList ==
    ASSUME NEW checks \in Seq(Checks)
    PROVE  /\ FirstReason(checks) \in Refusals \cup {"none"}
           /\ FirstReason(checks) = "none" => Clear(checks)
<1> DEFINE I == {i \in 1 .. Len(checks) : checks[i][1]}
<1>1. Len(checks) \in Nat /\ I \in SUBSET Nat
  BY LenProperties
<1>2. CASE I = {}
  <2>1. SelectInSeq(checks, LAMBDA c : c[1]) = 0
    BY <1>2 DEF SelectInSeq
  <2>2. FirstReason(checks) = "none"
    BY <2>1 DEF FirstReason
  <2> QED
    BY <1>2, <2>2 DEF Clear
<1>3. CASE I # {}
  <2>1. \E m \in I : \A n \in I : m <= n
    BY <1>1, <1>3, LeastNatural
  <2>2. Min(I) \in I
    BY <2>1 DEF Min
  <2>3. Min(I) \in 1 .. Len(checks) /\ Min(I) # 0
    BY <1>1, <2>2
  <2>4. SelectInSeq(checks, LAMBDA c : c[1]) = Min(I)
    BY <1>3 DEF SelectInSeq
  <2>5. FirstReason(checks) = checks[Min(I)][2]
    BY <2>3, <2>4 DEF FirstReason
  <2>6. checks[Min(I)] \in Checks
    BY <2>3, ElementOfSeq
  <2>7. checks[Min(I)][2] \in Refusals
    BY <2>6 DEF Checks
  <2>8. "none" \notin Refusals
    BY DEF Refusals
  <2> QED
    BY <2>5, <2>7, <2>8
<1> QED
  BY <1>2, <1>3

\* Conditions tested one list after the other.
LEMMA ClearJoined ==
    ASSUME NEW x \in Seq(Checks), NEW y \in Seq(Checks), Clear(x \o y)
    PROVE  x \o y \in Seq(Checks) /\ Clear(x) /\ Clear(y)
<1> DEFINE t == x \o y
<1>1. Len(x) \in Nat /\ Len(y) \in Nat
  BY LenProperties
<1>2. /\ t \in Seq(Checks) /\ Len(t) = Len(x) + Len(y)
      /\ \A i \in 1 .. Len(x) + Len(y) : t[i] = IF i <= Len(x) THEN x[i] ELSE y[i - Len(x)]
  BY ConcatProperties
<1>3. \A i \in 1 .. Len(t) : ~t[i][1]
  BY <1>2 DEF Clear
<1> HIDE DEF t
<1>4. ASSUME NEW i \in 1 .. Len(x)
      PROVE  ~x[i][1]
  <2>1. i \in 1 .. Len(x) + Len(y) /\ i <= Len(x)
    BY <1>1
  <2>2. t[i] = x[i]
    BY <1>2, <2>1
  <2> QED
    BY <1>2, <1>3, <2>1, <2>2
<1>5. ASSUME NEW i \in 1 .. Len(y)
      PROVE  ~y[i][1]
  <2>1. /\ Len(x) + i \in 1 .. Len(x) + Len(y) /\ ~(Len(x) + i <= Len(x))
        /\ (Len(x) + i) - Len(x) = i
    BY <1>1
  <2>2. t[Len(x) + i] = y[i]
    BY <1>2, <2>1
  <2> QED
    BY <1>2, <1>3, <2>1, <2>2
<1> QED
  BY <1>2, <1>4, <1>5 DEF t, Clear

\* Conditions of one of the lists that were joined.
LEMMA ClearParts ==
    ASSUME NEW n \in Nat, NEW g, \A i \in 1 .. n : g[i] \in Seq(Checks)
    PROVE  /\ Prefix(g, n) \in Seq(Checks)
           /\ Clear(Prefix(g, n)) => \A i \in 1 .. n : Clear(g[i])
<1> DEFINE c == [i \in 0 .. n |-> Len(Prefix(g, i))]
<1>1. \A i \in 0 .. n : c[i] = Len(Prefix(g, i))
  OBVIOUS
<1> HIDE DEF c
<1>2. Offsets(g, n, c)
  BY <1>1, PartsOfJoined
<1>3. Prefix(g, n) \in Seq(Checks)
  <2>1. \A m \in 0 .. n : Prefix(g, m) \in Seq(Checks)
    BY PrefixSteps
  <2>2. n \in 0 .. n
    OBVIOUS
  <2> QED
    BY <2>1, <2>2
<1>4. ASSUME Clear(Prefix(g, n)), NEW i \in 1 .. n, NEW k \in 1 .. Len(g[i])
      PROVE  ~g[i][k][1]
  <2>1. /\ c[n] \in Nat /\ Len(Prefix(g, n)) = c[n]
        /\ c[i - 1] \in Nat /\ c[i] \in Nat /\ Len(g[i]) \in Nat
        /\ c[i] = c[i - 1] + Len(g[i]) /\ c[i] <= c[n]
    BY <1>2 DEF Offsets
  <2>2. Prefix(g, n)[c[i - 1] + k] = g[i][k]
    BY <1>2 DEF Offsets
  <2>3. c[i - 1] + k \in 1 .. c[n]
    <3>1. \A a, b, z \in Nat : \A j \in 1 .. b : a + b <= z => a + j \in 1 .. z
      OBVIOUS
    <3> QED
      BY <2>1, <3>1
  <2>4. ~Prefix(g, n)[c[i - 1] + k][1]
    BY <1>4, <2>1, <2>3 DEF Clear
  <2> QED
    BY <2>2, <2>4
<1>5. Clear(Prefix(g, n)) => \A i \in 1 .. n : Clear(g[i])
  BY <1>4 DEF Clear
<1> QED
  BY <1>3, <1>5

-----------------------------------------------------------------------------
(* inspect_request.                                                         *)

Bodies == [field : Seq(STRING), resource : Seq(STRING)]
Actions == {"none", "allow", "redact", "block", "approval_required", "unknown"}
Policies == {"unset", "redact", "block"}
RequestReasons == UNION {Reasons[p] : p \in DOMAIN Reasons}
Results ==
    {"none", "inspection_unavailable", "pii_detected_identity_unverified", "broker",
     "pii_detected_unmapped_context", "policy_allowed", "pii_redacted"}
Words == RequestReasons \cup Refusals \cup Results
Verdicts == [action : Actions, reason : Words, body : Bodies, entities : BOOLEAN,
             complete : BOOLEAN, pii : Policies]

Unchecked == {"validate", "metadata", "parse", "scan", "redact"}
Authorizing == {"verify", "trust", "ask"}

RequestTyped ==
    /\ phase \in Unchecked \cup Authorizing \cup {"decided", "response", "done"}
    /\ mode \in {"inline", "mirror"} /\ settings \in Settings
    /\ verdict \in Verdicts

\* A mirror consumes nothing and spends nothing.
MirrorOnlyReports == mode = "mirror" => nonce = "unused" /\ broker.asked # "authorize"

\* Before its content has passed, a request has used nothing up.
NothingIsUsedUp ==
    phase \in Unchecked =>
        /\ request \in Contents /\ verdict.body = NoContent
        /\ nonce = "unused" /\ broker.asked = "no"

\* Once it has passed, what will be sent is the redacted content: without a finding, of
\* the resource that was asked for.  Its attestation is consumed before it is decided.
PassedIsSent ==
    phase \in Authorizing =>
        /\ SentContent = modified /\ ~HasFindings(modified)
        /\ modified.resource = request.resource
        /\ nonce = IF phase # "verify" /\ mode = "inline" THEN "consumed" ELSE "unused"
        /\ phase = "trust" => ~broker.enabled

\* The inductive invariant of inspect_request.
RequestIInv ==
    /\ RequestTyped /\ MirrorOnlyReports /\ NothingIsUsedUp /\ PassedIsSent
    /\ AuthorizationMatchesRelease

\* The fields that a step of inspect_request looks at.
LEMMA NoVerdictFacts ==
    /\ NoContent \in Bodies
    /\ NoVerdict \in Verdicts /\ NoVerdict.body = NoContent /\ NoVerdict.action = "none"
<1>1. NoContent \in Bodies
  BY EmptySeq DEF NoContent, Bodies
<1>2. "none" \in Actions /\ "none" \in Words /\ "unset" \in Policies
  BY DEF Actions, Words, Results, Policies
<1> QED
  BY <1>1, <1>2 DEF NoVerdict, Verdicts

LEMMA RequestInit == Init => RequestIInv
<1> SUFFICES ASSUME Init PROVE RequestIInv
  OBVIOUS
<1>1. /\ phase = "validate" /\ mode \in {"inline", "mirror"} /\ settings \in Settings /\ request \in Contents
      /\ verdict = NoVerdict /\ nonce = "unused"
  BY DEF Init
<1>2. broker.asked = "no"
  BY DEF Init, NoBroker
<1>3. RequestTyped
  BY <1>1, NoVerdictFacts DEF RequestTyped, Unchecked
<1>4. MirrorOnlyReports /\ NothingIsUsedUp
  BY <1>1, <1>2, NoVerdictFacts DEF MirrorOnlyReports, NothingIsUsedUp
<1>5. PassedIsSent
  BY <1>1 DEF PassedIsSent, Authorizing
<1>6. AuthorizationMatchesRelease
  BY <1>1, <1>2 DEF AuthorizationMatchesRelease
<1> QED
  BY <1>3, <1>4, <1>5, <1>6 DEF RequestIInv

\* A verdict is changed in fields of its own.
LEMMA VerdictNotes ==
    ASSUME NEW v \in Verdicts
    PROVE  /\ \A p \in Policies :
                [v EXCEPT !.pii = p] \in Verdicts /\ [v EXCEPT !.pii = p].body = v.body
           /\ \A e \in BOOLEAN :
                [v EXCEPT !.entities = e] \in Verdicts /\ [v EXCEPT !.entities = e].body = v.body
           /\ \A b \in Bodies :
                [v EXCEPT !.body = b] \in Verdicts /\ [v EXCEPT !.body = b].body = b
  BY DEF Verdicts

\* The same with names, for the provers.
Decided(v, a, r) == [v EXCEPT !.action = a, !.reason = r]
Stripped(v, a, r, b) == [v EXCEPT !.action = a, !.reason = r, !.body = b]
Reported(v, a, r, c, p, e) ==
    [v EXCEPT !.action = a, !.reason = r, !.complete = c, !.pii = p, !.entities = e]
Uncertainly(v, a, r, c) == [v EXCEPT !.action = a, !.reason = r, !.complete = c]
Marked(v, a, r, b, c) == [v EXCEPT !.action = a, !.reason = r, !.body = b, !.complete = c]

LEMMA VerdictDecided ==
    ASSUME NEW v \in Verdicts, NEW a \in Actions, NEW r \in Words
    PROVE  /\ Decided(v, a, r) \in Verdicts /\ Decided(v, a, r).action = a
           /\ Decided(v, a, r).reason = r /\ Decided(v, a, r).body = v.body
  BY DEF Verdicts, Decided

LEMMA VerdictStripped ==
    ASSUME NEW v \in Verdicts, NEW a \in Actions, NEW r \in Words, NEW b \in Bodies
    PROVE  /\ Stripped(v, a, r, b) \in Verdicts /\ Stripped(v, a, r, b).action = a
           /\ Stripped(v, a, r, b).reason = r /\ Stripped(v, a, r, b).body = b
  BY DEF Verdicts, Stripped

LEMMA VerdictMarked ==
    ASSUME NEW v \in Verdicts, NEW a \in Actions, NEW r \in Words, NEW b \in Bodies,
           NEW c \in BOOLEAN
    PROVE  /\ Marked(v, a, r, b, c) \in Verdicts /\ Marked(v, a, r, b, c).action = a
           /\ Marked(v, a, r, b, c).reason = r
  BY DEF Verdicts, Marked

LEMMA VerdictUncertain ==
    ASSUME NEW v \in Verdicts, NEW a \in Actions, NEW r \in Words, NEW c \in BOOLEAN
    PROVE  /\ Uncertainly(v, a, r, c) \in Verdicts /\ Uncertainly(v, a, r, c).action = a
           /\ Uncertainly(v, a, r, c).reason = r
  BY DEF Verdicts, Uncertainly

LEMMA VerdictUnmapped ==
    ASSUME NEW v \in Verdicts, NEW a \in Actions, NEW r \in Words, NEW c \in BOOLEAN,
           NEW p \in Policies, NEW e \in BOOLEAN
    PROVE  Reported(v, a, r, c, p, e) \in Verdicts
  BY DEF Verdicts, Reported

\* An error is a verdict that lets nothing through inline.
LEMMA FailedFacts ==
    ASSUME NEW v \in Verdicts, NEW reason \in Words, mode \in {"inline", "mirror"}
    PROVE  /\ Failed(v, reason) \in Verdicts
           /\ mode = "inline" => ~Sent(Failed(v, reason)) /\ Failed(v, reason).reason = reason
<1> DEFINE a == IF mode = "mirror" /\ reason \in Uncertain THEN "unknown" ELSE "block"
           c == reason \notin Uncertain
<1>1. a \in Actions /\ (mode = "inline" => a = "block")
  <2>1. CASE mode = "mirror" /\ reason \in Uncertain
    BY <2>1 DEF Actions
  <2>2. CASE ~(mode = "mirror" /\ reason \in Uncertain)
    BY <2>2 DEF Actions
  <2> QED
    BY <2>1, <2>2
<1>2. c \in BOOLEAN
  OBVIOUS
<1> HIDE DEF a, c
<1> DEFINE w == Marked(v, "redact", "pii_detected_identity_unverified", NoContent, FALSE)
           u == Marked(v, a, reason, NoContent, c)
<1>3. w \in Verdicts
  <2>1. "redact" \in Actions /\ "pii_detected_identity_unverified" \in Words
    BY DEF Actions, Words, Results
  <2> QED
    BY <2>1, VerdictMarked, NoVerdictFacts
<1>4. u \in Verdicts /\ u.action = a /\ u.reason = reason
  BY <1>1, <1>2, VerdictMarked, NoVerdictFacts
<1>5. Failed(v, reason) = IF mode = "mirror" /\ v.entities /\ reason = "untrusted_or_mismatched_identity"
                          THEN w ELSE u
  BY DEF Failed, Marked, a, c
<1> HIDE DEF w, u
<1> QED
  BY <1>1, <1>3, <1>4, <1>5 DEF Sent

\* A decision ends what the other parts of the invariant are about.
LEMMA DecisionKeeps ==
    ASSUME mode' \in {"inline", "mirror"}, settings' \in Settings, verdict' \in Verdicts, phase' = "decided",
           MirrorOnlyReports', AuthorizationMatchesRelease'
    PROVE  RequestIInv'
<1>1. RequestTyped'
  BY DEF RequestTyped
<1>2. NothingIsUsedUp' /\ PassedIsSent'
  BY DEF NothingIsUsedUp, PassedIsSent, Unchecked, Authorizing
<1> QED
  BY <1>1, <1>2 DEF RequestIInv

\* A verdict that refuses, inline, before the attestation was consumed or for a reason
\* that may come afterwards.
LEMMA RefusalKeeps ==
    ASSUME RequestIInv, config' = config, verdict' \in Verdicts, phase' = "decided",
           nonce' = nonce, broker' = broker,
           mode = "inline" => ~Sent(verdict'),
           nonce = "consumed" =>
             verdict'.reason \in {"broker", "untrusted_source", "inspection_deadline",
                                  "inspection_unavailable"}
    PROVE  RequestIInv'
<1>1. /\ mode \in {"inline", "mirror"} /\ settings \in Settings /\ MirrorOnlyReports
      /\ mode' = mode /\ settings' = settings
  BY DEF RequestIInv, RequestTyped, config
<1>2. MirrorOnlyReports'
  BY <1>1 DEF MirrorOnlyReports
<1>3. AuthorizationMatchesRelease'
  <2>1. mode' = "inline" => ~Sent(verdict)'
    BY <1>1 DEF Sent
  <2> QED
    BY <1>1, <1>2, <2>1 DEF AuthorizationMatchesRelease, MirrorOnlyReports
<1> QED
  BY <1>1, <1>2, <1>3, DecisionKeeps

LEMMA PassCheckStep ==
    ASSUME RequestIInv, PassCheck
    PROVE  RequestIInv'
<1>1. /\ RequestTyped /\ MirrorOnlyReports /\ NothingIsUsedUp
  BY DEF RequestIInv
<1>2. /\ phase \in {"validate", "metadata", "parse", "scan"}
      /\ phase' \in {"metadata", "parse", "scan", "redact"}
  BY DEF PassCheck, Order
<1>3. /\ mode' = mode /\ settings' = settings /\ request' = request /\ nonce' = nonce /\ broker' = broker
  BY DEF PassCheck, config
<1>4. verdict' \in Verdicts /\ verdict'.body = verdict.body
  <2>1. verdict \in Verdicts
    BY <1>1 DEF RequestTyped
  <2>2. PiiPolicy \in Policies
    <3>1. settings.global \in Policies /\ settings.tool \in Policies /\ settings.route \in Policies
      BY <1>1, ConfigAssumption DEF RequestTyped, Policies
    <3> QED
      BY <3>1 DEF PiiPolicy, RoutePolicy
  <2> QED
    BY <2>1, <2>2, VerdictNotes DEF PassCheck
<1>5. RequestTyped'
  BY <1>1, <1>2, <1>3, <1>4 DEF RequestTyped, Unchecked
<1>6. MirrorOnlyReports'
  BY <1>1, <1>3 DEF MirrorOnlyReports
<1>7. NothingIsUsedUp'
  BY <1>1, <1>2, <1>3, <1>4 DEF NothingIsUsedUp, Unchecked
<1>8. PassedIsSent'
  BY <1>2 DEF PassedIsSent, Authorizing
<1>9. AuthorizationMatchesRelease'
  BY <1>2, <1>6 DEF AuthorizationMatchesRelease, MirrorOnlyReports
<1> QED
  BY <1>5, <1>6, <1>7, <1>8, <1>9 DEF RequestIInv

LEMMA RaiseStep ==
    ASSUME RequestIInv, NEW p \in DOMAIN Reasons, NEW r \in Reasons[p], Raise(r)
    PROVE  RequestIInv'
<1>1. verdict \in Verdicts /\ mode \in {"inline", "mirror"}
  BY DEF RequestIInv, RequestTyped
<1>2. /\ verdict' = Failed(verdict, r) /\ phase' = "decided"
      /\ phase \in DOMAIN Reasons /\ r \in Reasons[phase]
      /\ config' = config /\ nonce' = nonce /\ broker' = broker
  BY DEF Raise
<1>3. r \in Words
  BY DEF Words, RequestReasons
<1>4. /\ verdict' \in Verdicts
      /\ mode = "inline" => ~Sent(verdict') /\ verdict'.reason = r
  BY <1>1, <1>2, <1>3, FailedFacts
<1>5. nonce = "consumed" => verdict'.reason \in {"untrusted_source", "inspection_deadline"}
  <2>1. SUFFICES ASSUME nonce = "consumed" PROVE verdict'.reason \in {"untrusted_source", "inspection_deadline"}
    OBVIOUS
  <2>2. mode = "inline"
    BY <1>1, <2>1 DEF RequestIInv, MirrorOnlyReports
  <2>3. phase \in {"trust", "ask"}
    <3>1. phase \in Unchecked \cup Authorizing
      BY <1>2 DEF Reasons, Unchecked, Authorizing
    <3>2. phase \notin Unchecked
      BY <2>1 DEF RequestIInv, NothingIsUsedUp
    <3>3. phase # "verify"
      BY <2>1 DEF RequestIInv, PassedIsSent, Authorizing
    <3> QED
      BY <3>1, <3>2, <3>3 DEF Authorizing
  <2>4. r \in {"untrusted_source", "inspection_deadline"}
    <3>1. CASE phase = "trust"
      BY <1>2, <3>1 DEF Reasons
    <3>2. CASE phase = "ask"
      BY <1>2, <3>2 DEF Reasons
    <3> QED
      BY <2>3, <3>1, <3>2
  <2> QED
    BY <1>4, <2>2, <2>4
<1> QED
  BY <1>2, <1>4, <1>5, RefusalKeeps

LEMMA UnavailableStep ==
    ASSUME RequestIInv, Unavailable
    PROVE  RequestIInv'
<1> DEFINE a == IF mode = "inline" THEN "block" ELSE "unknown"
           v == Uncertainly(NoVerdict, a, "inspection_unavailable", FALSE)
<1>1. /\ verdict' = v /\ phase' = "decided" /\ config' = config /\ nonce' = nonce
      /\ broker' = broker
  BY DEF Unavailable, Uncertainly
<1>2. v \in Verdicts /\ v.action = a /\ v.reason = "inspection_unavailable"
  <2>1. a \in Actions /\ "inspection_unavailable" \in Words
    BY DEF Actions, Words, Results
  <2> HIDE DEF a
  <2>2. NoVerdict \in Verdicts
    BY NoVerdictFacts
  <2> QED
    BY <2>1, <2>2, VerdictUncertain
<1>3. mode = "inline" => ~Sent(verdict')
  BY <1>1, <1>2 DEF Sent
<1> QED
  BY <1>1, <1>2, <1>3, RefusalKeeps

\* The redacted content: free of findings, and empty only if the content was.
LEMMA RedactedContent ==
    ASSUME NEW c \in Contents
    PROVE  LET new == [field |-> Masked(c.field), resource |-> Masked(c.resource)] IN
           /\ new \in Bodies /\ ~HasFindings(new)
           /\ new = NoContent => Content(c) = new
<1> DEFINE f == Masked(c.field)
           r == Masked(c.resource)
           new == [field |-> f, resource |-> r]
<1>1. c.field \in Seq(STRING) /\ c.resource \in Seq(STRING)
  BY ConfigAssumption
<1>2. /\ f \in Seq(STRING) /\ Findings(f) = {} /\ (c.field # <<>> => f # <<>>)
      /\ r \in Seq(STRING) /\ Findings(r) = {} /\ (c.resource # <<>> => r # <<>>)
  BY <1>1, MaskHides DEF Masked
<1> HIDE DEF f, r
<1>3. new \in Bodies /\ ~HasFindings(new)
  BY <1>2 DEF Bodies, HasFindings
<1>4. ASSUME new = NoContent
      PROVE  Content(c) = new
  <2>1. f = <<>> /\ r = <<>>
    BY <1>4 DEF NoContent
  <2> QED
    BY <1>2, <2>1 DEF Content
<1> QED
  BY <1>3, <1>4 DEF f, r

\* A content that is redacted and goes on names the same resource.
LEMMA RedactReasons ==
    ASSUME NEW r, NEW pii
    PROVE  /\ FirstReason(RedactChecks(r, pii)) \in Refusals \cup {"none"}
           /\ FirstReason(RedactChecks(r, pii)) = "none" => Masked(r.resource) = r.resource
<1> DEFINE c1 == HasFindings(Content(r)) /\ pii = "block"
           c2 == HasFindings(Content(r)) /\ ~r.redactable
           c3 == Masked(r.resource) # r.resource
           checks == RedactChecks(r, pii)
<1>1. c1 \in BOOLEAN /\ c2 \in BOOLEAN /\ c3 \in BOOLEAN
  OBVIOUS
<1>2. checks = << <<c1, "pii_block_policy">>, <<c2, "pii_in_nonredactable_field">>,
                  <<c3, "redaction_changed_authorized_action">> >>
  BY DEF RedactChecks
<1> HIDE DEF c1, c2, c3, checks
<1>3. /\ <<c1, "pii_block_policy">> \in Checks
      /\ <<c2, "pii_in_nonredactable_field">> \in Checks
      /\ <<c3, "redaction_changed_authorized_action">> \in Checks
  BY <1>1 DEF Checks, Refusals
<1>4. checks \in Seq(Checks) /\ Len(checks) = 3
  BY <1>2, <1>3
<1>5. /\ FirstReason(checks) \in Refusals \cup {"none"}
      /\ FirstReason(checks) = "none" => Clear(checks)
  BY <1>4, FirstOfList
<1>6. FirstReason(checks) = "none" => ~c3
  BY <1>2, <1>4, <1>5 DEF Clear
<1> QED
  BY <1>5, <1>6 DEF c3, checks

LEMMA RedactStep ==
    ASSUME RequestIInv, Redact
    PROVE  RequestIInv'
<1> DEFINE found == [verdict EXCEPT !.entities = HasFindings(Content(request))]
           reason == FirstReason(RedactChecks(request, verdict.pii))
           new == [field |-> Masked(request.field), resource |-> Masked(request.resource)]
<1>1. /\ RequestTyped /\ MirrorOnlyReports /\ NothingIsUsedUp /\ phase = "redact"
      /\ mode' = mode /\ settings' = settings /\ request' = request /\ nonce' = nonce
      /\ broker' = broker /\ config' = config
  BY DEF RequestIInv, Redact, config
<1>2. /\ request \in Contents /\ verdict.body = NoContent /\ verdict \in Verdicts
      /\ nonce = "unused" /\ broker.asked = "no"
  BY <1>1 DEF NothingIsUsedUp, RequestTyped, Unchecked
<1>3. found \in Verdicts /\ found.body = NoContent
  <2>1. HasFindings(Content(request)) \in BOOLEAN
    BY DEF HasFindings
  <2> QED
    BY <1>2, <2>1, VerdictNotes
<1>4. /\ new \in Bodies /\ ~HasFindings(new) /\ (new = NoContent => Content(request) = new)
      /\ new.resource = Masked(request.resource)
  BY <1>2, RedactedContent
<1> HIDE DEF found, reason, new
<1>5. CASE reason = "none"
  <2> DEFINE b == IF new = Content(request) THEN NoContent ELSE new
  <2>1. /\ modified' = new /\ verdict' = [found EXCEPT !.body = b] /\ phase' = "verify"
    BY <1>5 DEF Redact, found, reason, new
  <2>2. b \in Bodies
    BY <1>4, NoVerdictFacts
  <2> HIDE DEF b
  <2>3. verdict' \in Verdicts /\ verdict'.body = b
    BY <1>3, <2>1, <2>2, VerdictNotes
  <2>4. RequestTyped'
    BY <1>1, <2>1, <2>3 DEF RequestTyped, Authorizing
  <2>5. MirrorOnlyReports'
    BY <1>1 DEF MirrorOnlyReports
  <2>6. NothingIsUsedUp'
    BY <2>1 DEF NothingIsUsedUp, Unchecked
  <2>7. SentContent' = modified'
    BY <1>1, <1>4, <2>1, <2>3 DEF SentContent, Content, b
  <2>8. ~HasFindings(modified')
    BY <1>4, <2>1
  <2>9. modified'.resource = request'.resource
    BY <1>1, <1>4, <1>5, <2>1, RedactReasons DEF reason
  <2>10. PassedIsSent'
    <3>1. ~HasFindings(modified)'
      BY <2>8 DEF HasFindings
    <3> QED
      BY <1>1, <1>2, <2>1, <2>7, <2>9, <3>1 DEF PassedIsSent
  <2>11. AuthorizationMatchesRelease'
    BY <2>1, <2>5 DEF AuthorizationMatchesRelease, MirrorOnlyReports
  <2> QED
    BY <2>4, <2>5, <2>6, <2>10, <2>11 DEF RequestIInv
<1>6. CASE reason # "none"
  <2>1. verdict' = Failed(found, reason) /\ phase' = "decided"
    BY <1>6 DEF Redact, found, reason, new
  <2>2. reason \in Words
    BY RedactReasons DEF reason, Words, Results
  <2>3. /\ verdict' \in Verdicts
        /\ mode = "inline" => ~Sent(verdict')
    BY <1>1, <1>3, <2>1, <2>2, FailedFacts DEF RequestTyped
  <2> QED
    BY <1>1, <1>2, <2>1, <2>3, RefusalKeeps
<1> QED
  BY <1>5, <1>6

LEMMA VerifyStep ==
    ASSUME RequestIInv, Verify
    PROVE  RequestIInv'
<1>1. /\ RequestTyped /\ MirrorOnlyReports /\ PassedIsSent /\ phase = "verify"
      /\ mode' = mode /\ settings' = settings /\ request' = request /\ modified' = modified
      /\ verdict' = verdict /\ broker' = broker
      /\ nonce' = IF mode = "inline" THEN "consumed" ELSE nonce
      /\ phase' = IF broker.enabled THEN "ask" ELSE "trust"
  BY DEF RequestIInv, Verify, config
<1>2. /\ SentContent = modified /\ ~HasFindings(modified)
      /\ modified.resource = request.resource /\ nonce = "unused"
  BY <1>1 DEF PassedIsSent, Authorizing
<1>3. phase' \in {"trust", "ask"}
  BY <1>1
<1>4. RequestTyped'
  BY <1>1, <1>3 DEF RequestTyped, Authorizing
<1>5. MirrorOnlyReports'
  BY <1>1 DEF MirrorOnlyReports, RequestTyped
<1>6. NothingIsUsedUp'
  BY <1>3 DEF NothingIsUsedUp, Unchecked
<1>7. PassedIsSent'
  <2>1. SentContent' = modified' /\ ~HasFindings(modified)'
    BY <1>1, <1>2 DEF SentContent, Content, HasFindings
  <2>2. nonce' = IF mode' = "inline" THEN "consumed" ELSE "unused"
    BY <1>1, <1>2
  <2> QED
    BY <1>1, <1>2, <1>3, <2>1, <2>2 DEF PassedIsSent
<1>8. AuthorizationMatchesRelease'
  BY <1>3, <1>5 DEF AuthorizationMatchesRelease, MirrorOnlyReports
<1> QED
  BY <1>4, <1>5, <1>6, <1>7, <1>8 DEF RequestIInv

\* A verdict that permits keeps the body that is sent.
LEMMA PermittedFacts ==
    ASSUME NEW v \in Verdicts
    PROVE  Permitted(v) \in Verdicts /\ Sent(Permitted(v)) /\ Permitted(v).body = v.body
<1>1. /\ "allow" \in Actions /\ "redact" \in Actions
      /\ "policy_allowed" \in Words /\ "pii_redacted" \in Words
  BY DEF Actions, Words, Results
<1>2. /\ Permitted(v) = IF v.body = NoContent THEN Decided(v, "allow", "policy_allowed")
                        ELSE Decided(v, "redact", "pii_redacted")
  BY DEF Permitted, Decided
<1>3. /\ Decided(v, "allow", "policy_allowed") \in Verdicts
      /\ Decided(v, "allow", "policy_allowed").action = "allow"
      /\ Decided(v, "allow", "policy_allowed").body = v.body
  BY <1>1, VerdictDecided
<1>4. /\ Decided(v, "redact", "pii_redacted") \in Verdicts
      /\ Decided(v, "redact", "pii_redacted").action = "redact"
      /\ Decided(v, "redact", "pii_redacted").body = v.body
  BY <1>1, VerdictDecided
<1> QED
  BY <1>2, <1>3, <1>4 DEF Sent

LEMMA TrustSourceStep ==
    ASSUME RequestIInv, TrustSource
    PROVE  RequestIInv'
<1>1. /\ RequestTyped /\ MirrorOnlyReports /\ PassedIsSent /\ phase = "trust"
      /\ mode' = mode /\ settings' = settings /\ request' = request /\ modified' = modified
      /\ verdict' = Permitted(verdict) /\ broker' = broker /\ nonce' = nonce
      /\ phase' = "decided"
  BY DEF RequestIInv, TrustSource, config
<1>2. /\ SentContent = modified /\ ~HasFindings(modified) /\ ~broker.enabled
      /\ nonce = IF mode = "inline" THEN "consumed" ELSE "unused"
  BY <1>1 DEF PassedIsSent, Authorizing
<1>3. verdict' \in Verdicts /\ Sent(verdict') /\ verdict'.body = verdict.body
  BY <1>1, PermittedFacts DEF RequestTyped
<1>4. MirrorOnlyReports'
  BY <1>1 DEF MirrorOnlyReports
<1>5. SentContent' = modified
  BY <1>1, <1>2, <1>3 DEF SentContent, Content
<1>6. ~HasFindings(SentContent)' /\ Sent(verdict)'
  BY <1>2, <1>3, <1>5 DEF HasFindings, Sent
<1>7. AuthorizationMatchesRelease'
  BY <1>1, <1>2, <1>4, <1>6 DEF AuthorizationMatchesRelease, MirrorOnlyReports
<1> QED
  BY <1>1, <1>3, <1>4, <1>7, DecisionKeeps DEF RequestTyped

LEMMA AskStep ==
    ASSUME RequestIInv, NEW answer \in {"allow", "block", "approval_required"}, Ask(answer)
    PROVE  RequestIInv'
<1>1. /\ RequestTyped /\ MirrorOnlyReports /\ PassedIsSent /\ phase = "ask"
      /\ mode' = mode /\ settings' = settings /\ request' = request /\ modified' = modified
      /\ nonce' = nonce /\ phase' = "decided"
  BY DEF RequestIInv, Ask, config
<1>2. /\ SentContent = modified /\ ~HasFindings(modified)
      /\ modified.resource = request.resource
      /\ nonce = IF mode = "inline" THEN "consumed" ELSE "unused"
  BY <1>1 DEF PassedIsSent, Authorizing
<1>3. /\ broker'.asked = IF mode = "inline" THEN "authorize" ELSE "evaluate"
      /\ broker'.digest = modified /\ broker'.resource = request.resource
      /\ broker'.answer = answer
  BY DEF Ask
<1>4. MirrorOnlyReports'
  BY <1>1, <1>3 DEF MirrorOnlyReports
<1>5. CASE answer = "allow"
  <2>1. verdict' = Permitted(verdict)
    BY <1>5 DEF Ask
  <2>2. verdict' \in Verdicts /\ Sent(verdict') /\ verdict'.body = verdict.body
    BY <1>1, <2>1, PermittedFacts DEF RequestTyped
  <2>3. SentContent' = modified
    BY <1>1, <1>2, <2>2 DEF SentContent, Content
  <2>4. ~HasFindings(SentContent)' /\ Sent(verdict)'
    BY <1>2, <2>2, <2>3 DEF HasFindings, Sent
  <2>5. AuthorizationMatchesRelease'
    BY <1>1, <1>2, <1>3, <1>4, <1>5, <2>3, <2>4 DEF AuthorizationMatchesRelease, MirrorOnlyReports
  <2> QED
    BY <1>1, <1>4, <2>2, <2>5, DecisionKeeps DEF RequestTyped
<1>6. CASE answer # "allow"
  <2>1. verdict' = Stripped(verdict, answer, "broker", NoContent)
    BY <1>6 DEF Ask, Stripped
  <2>2. answer \in Actions /\ "broker" \in Words
    BY DEF Actions, Words, Results
  <2>3. verdict' \in Verdicts /\ verdict'.action = answer /\ verdict'.reason = "broker"
    BY <1>1, <2>1, <2>2, VerdictStripped, NoVerdictFacts DEF RequestTyped
  <2>4. ~Sent(verdict)'
    BY <1>6, <2>3 DEF Sent
  <2>5. AuthorizationMatchesRelease'
    BY <1>1, <1>4, <2>3, <2>4 DEF AuthorizationMatchesRelease, MirrorOnlyReports
  <2> QED
    BY <1>1, <1>4, <2>3, <2>5, DecisionKeeps DEF RequestTyped
<1> QED
  BY <1>5, <1>6

\* What a mirror reports about a request that no route or tool maps.
LEMMA InspectUnmappedStep ==
    ASSUME RequestIInv, NEW reason \in Unmapped,
           NEW scan \in {"clean", "suspicious_instruction", "invalid_json", "unsupported_media",
                         "unavailable"},
           InspectUnmapped(reason, scan)
    PROVE  RequestIInv'
<1> DEFINE c == Content(request)
           v == Reported(verdict, "unknown", reason, FALSE, settings.global, HasFindings(c))
<1>1. /\ RequestTyped /\ MirrorOnlyReports /\ mode = "mirror" /\ phase' = "decided"
      /\ config' = config /\ nonce' = nonce /\ broker' = broker
  BY DEF RequestIInv, InspectUnmapped
<1>2. v \in Verdicts
  <2>1. /\ "unknown" \in Actions /\ settings.global \in Policies /\ HasFindings(c) \in BOOLEAN
    BY <1>1, ConfigAssumption DEF RequestTyped, Actions, Policies, HasFindings
  <2>2. reason \in Words
    BY DEF InspectUnmapped, Words, RequestReasons
  <2> QED
    BY <1>1, <2>1, <2>2, VerdictUnmapped DEF RequestTyped
<1>3. verdict' =
        CASE scan = "unavailable" -> [v EXCEPT !.reason = "inspection_unavailable", !.entities = FALSE]
          [] scan \in {"suspicious_instruction", "invalid_json"} ->
                [v EXCEPT !.action = "block", !.reason = scan, !.entities = FALSE]
          [] scan = "unsupported_media" -> [v EXCEPT !.entities = FALSE]
          [] scan = "clean" /\ ~HasFindings(c) -> v
          [] scan = "clean" /\ HasFindings(c) /\ settings.global = "block" ->
                [v EXCEPT !.action = "block", !.reason = "pii_block_policy"]
          [] OTHER -> [v EXCEPT !.action = "redact", !.reason = "pii_detected_unmapped_context"]
  BY DEF InspectUnmapped, Reported
<1> HIDE DEF c, v
<1>4. /\ "block" \in Actions /\ "redact" \in Actions
      /\ "inspection_unavailable" \in Words /\ "pii_block_policy" \in Words
      /\ "pii_detected_unmapped_context" \in Words
      /\ "suspicious_instruction" \in Words /\ "invalid_json" \in Words
  BY DEF Actions, Words, Results, Refusals
<1>5. /\ [v EXCEPT !.reason = "inspection_unavailable", !.entities = FALSE] \in Verdicts
      /\ [v EXCEPT !.entities = FALSE] \in Verdicts
  BY <1>2, <1>4 DEF Verdicts
<1>6. scan \in {"suspicious_instruction", "invalid_json"} =>
        [v EXCEPT !.action = "block", !.reason = scan, !.entities = FALSE] \in Verdicts
  BY <1>2, <1>4 DEF Verdicts
<1>7. /\ [v EXCEPT !.action = "block", !.reason = "pii_block_policy"] \in Verdicts
      /\ [v EXCEPT !.action = "redact", !.reason = "pii_detected_unmapped_context"] \in Verdicts
  BY <1>2, <1>4 DEF Verdicts
<1>8. verdict' \in Verdicts
  BY <1>2, <1>3, <1>5, <1>6, <1>7
<1>9. nonce = "unused"
  BY <1>1 DEF MirrorOnlyReports
<1> QED
  BY <1>1, <1>8, <1>9, RefusalKeeps

\* Nothing of the request's inspection is left when its response is inspected.
LEMMA ResponseKeeps ==
    ASSUME RequestIInv, phase' \in {"response", "done"}, mode' = mode, settings' = settings,
           verdict' \in Verdicts, MirrorOnlyReports'
    PROVE  RequestIInv'
<1>1. RequestTyped'
  BY DEF RequestIInv, RequestTyped
<1>2. NothingIsUsedUp' /\ PassedIsSent' /\ AuthorizationMatchesRelease'
  BY DEF NothingIsUsedUp, PassedIsSent, Unchecked, Authorizing, AuthorizationMatchesRelease,
         MirrorOnlyReports
<1> QED
  BY <1>1, <1>2 DEF RequestIInv

LEMMA RespondStep ==
    ASSUME RequestIInv, NEW m, NEW t, Respond(m, t)
    PROVE  RequestIInv'
<1> PICK p \in ResponsePolicies : verdict' = [NoVerdict EXCEPT !.pii = p]
  BY DEF Respond
<1>1. /\ verdict' = [NoVerdict EXCEPT !.pii = p] /\ mode' = mode
      /\ settings' = settings /\ nonce' = "unused" /\ broker' = NoBroker /\ phase' = "response"
  BY DEF Respond, config
<1>2. p \in Policies
  <2>1. verdict.pii \in Policies /\ settings \in Settings
    BY DEF RequestIInv, RequestTyped, Verdicts
  <2>2. settings.global \in Policies /\ settings.route \in Policies
    BY <2>1, ConfigAssumption DEF Policies
  <2> QED
    BY <2>1, <2>2 DEF ResponsePolicies, RoutePolicy
<1>3. verdict' \in Verdicts
  BY <1>1, <1>2, NoVerdictFacts, VerdictNotes
<1>4. MirrorOnlyReports'
  BY <1>1 DEF MirrorOnlyReports, NoBroker
<1> QED
  BY <1>1, <1>3, <1>4, ResponseKeeps

LEMMA ResponseStep ==
    ASSUME RequestIInv,
           \/ \E r \in ResponseReasons : RaiseResponse(r)
           \/ RespondEmpty \/ RespondText \/ ReadStream \/ RespondStream
    PROVE  RequestIInv'
<1>1. /\ phase' \in {"response", "done"} /\ mode' = mode /\ settings' = settings
      /\ verdict' = verdict /\ nonce' = nonce /\ broker' = broker
  BY DEF RaiseResponse, RespondEmpty, RespondText, ReadStream, RespondStream, Answer, config
<1>2. MirrorOnlyReports'
  BY <1>1 DEF RequestIInv, MirrorOnlyReports
<1> QED
  BY <1>1, <1>2, ResponseKeeps DEF RequestIInv, RequestTyped

LEMMA RequestNext == RequestIInv /\ [Next]_vars => RequestIInv'
<1> SUFFICES ASSUME RequestIInv, [Next]_vars PROVE RequestIInv'
  OBVIOUS
<1>1. CASE PassCheck
  BY <1>1, PassCheckStep
<1>2. CASE \E p \in DOMAIN Reasons : \E r \in Reasons[p] : Raise(r)
  BY <1>2, RaiseStep
<1>3. CASE Unavailable
  BY <1>3, UnavailableStep
<1>4. CASE Redact
  BY <1>4, RedactStep
<1>5. CASE Verify
  BY <1>5, VerifyStep
<1>6. CASE TrustSource
  BY <1>6, TrustSourceStep
<1>7. CASE \E a \in {"allow", "block", "approval_required"} : Ask(a)
  BY <1>7, AskStep
<1>8. CASE \E r \in Unmapped, s \in {"clean", "suspicious_instruction", "invalid_json",
                                    "unsupported_media", "unavailable"} : InspectUnmapped(r, s)
  BY <1>8, InspectUnmappedStep
<1>9. CASE \E m \in {"json", "plain", "sse", "other", "empty"}, t \in Texts : Respond(m, t)
  BY <1>9, RespondStep
<1>10. CASE \/ \E r \in ResponseReasons : RaiseResponse(r)
            \/ RespondEmpty \/ RespondText \/ ReadStream \/ RespondStream
  BY <1>10, ResponseStep
<1>11. CASE UNCHANGED vars
  BY <1>11
  DEF vars, config, RequestIInv, RequestTyped, MirrorOnlyReports, NothingIsUsedUp, PassedIsSent,
      AuthorizationMatchesRelease, SentContent, Content, HasFindings, Sent
<1> QED
  BY <1>1, <1>2, <1>3, <1>4, <1>5, <1>6, <1>7, <1>8, <1>9, <1>10, <1>11 DEF Next

\* The invariant of inspect_request: nothing is used up before the content has passed,
\* and what is then decided about is what will be sent.
THEOREM RequestInvariantHolds == Spec => []RequestIInv
  BY RequestInit, RequestNext, PTL DEF Spec

\* What is let through inline is what was authorized: content without findings, under a
\* consumed attestation, with a digest and a resource the broker allowed; mirrors and
\* refused contents use nothing up.
THEOREM ReleaseWasAuthorized == Spec => []AuthorizationMatchesRelease
<1>1. RequestIInv => AuthorizationMatchesRelease
  BY DEF RequestIInv
<1> QED
  BY <1>1, RequestInvariantHolds, PTL

-----------------------------------------------------------------------------
(* _redact_sse.                                                             *)

\* What the checks of an event leave, for the life cycle of its stream.
Accepted(e) ==
    /\ HasData(e) => ~terminal
    /\ e.family = "done" => family \in {"none", "chat"}
    /\ HasPayload(e) => family \in {"none", e.family}
    /\ HasCandidate(e) /\ e.index \in finished => e.strings = <<>>
    /\ e.family = "anthropic" =>
        /\ e.type = "block_start" => e.index \notin seen
        /\ e.type \in {"block_delta", "block_stop"} => e.index \in open
        /\ e.type = "message_stop" => open = {}

LEMMA AnthropicList ==
    ASSUME NEW e
    PROVE  /\ AnthropicChecks(e) \in Seq(Checks)
           /\ Clear(AnthropicChecks(e)) =>
                /\ e.type = "block_start" => e.index \notin seen
                /\ e.type \in {"block_delta", "block_stop"} => e.index \in open
                /\ e.type = "message_stop" => open = {}
<1> DEFINE block == e.type \in {"block_start", "block_delta", "block_stop"}
           c1 == e.type = "message_start" /\ started
           c2 == e.type \notin {"message_start", "ping"} /\ ~started
           c3 == e.type = "block_start" /\ e.index \in seen
           c4 == block /\ e.type # "block_start" /\ e.index \notin open
           c5 == e.type = "message_stop" /\ open # {}
           checks == AnthropicChecks(e)
<1>1. /\ c1 \in BOOLEAN /\ c2 \in BOOLEAN /\ c3 \in BOOLEAN /\ c4 \in BOOLEAN /\ c5 \in BOOLEAN
  OBVIOUS
<1>2. checks = << <<c1, "unexpected_sse_message_start">>, <<c2, "incomplete_sse_stream">>,
                  <<c3, "unexpected_sse_content_block">>, <<c4, "incomplete_sse_stream">>,
                  <<c5, "incomplete_sse_stream">> >>
  BY DEF AnthropicChecks
<1> HIDE DEF c1, c2, c3, c4, c5, checks
<1>3. /\ <<c1, "unexpected_sse_message_start">> \in Checks
      /\ <<c2, "incomplete_sse_stream">> \in Checks
      /\ <<c3, "unexpected_sse_content_block">> \in Checks
      /\ <<c4, "incomplete_sse_stream">> \in Checks
      /\ <<c5, "incomplete_sse_stream">> \in Checks
  BY <1>1 DEF Checks, Refusals
<1>4. checks \in Seq(Checks) /\ Len(checks) = 5
  BY <1>2, <1>3
<1>5. Clear(checks) => ~c3 /\ ~c4 /\ ~c5
  BY <1>2, <1>4 DEF Clear
<1> QED
  BY <1>4, <1>5 DEF c3, c4, c5, checks

LEMMA EventList ==
    ASSUME NEW e
    PROVE  /\ FirstReason(EventChecks(e)) \in Refusals \cup {"none"}
           /\ FirstReason(EventChecks(e)) = "none" => Accepted(e)
<1> DEFINE c1 == e.defect = "metadata"
           c2 == HasData(e) /\ terminal
           c3 == e.family = "done" /\ family \notin {"none", "chat"}
           c4 == e.defect = "json"
           c5 == \E k \in 1..Len(e.strings) : Suspicious(e.strings[k].text)
           c6 == e.defect = "schema"
           c7 == HasCandidate(e) /\ e.index \in finished /\ e.strings # <<>>
           c8 == HasPayload(e) /\ family \notin {"none", e.family}
           c9 == e.defect = "event_name"
           c10 == Duplicate(e)
           c11 == e.defect = "numeric"
           c12 == e.defect = "key"
           before == << <<c1, "pii_in_sse_metadata">>, <<c2, "sse_data_after_terminal">>,
                        <<c3, "unexpected_sse_terminal">>, <<c4, "invalid_json">>,
                        <<c5, "suspicious_instruction">>, <<c6, "unsupported_sse_schema">> >>
           cycle == IF e.family = "anthropic" THEN AnthropicChecks(e) ELSE <<>>
           after == << <<c7, "sse_data_after_terminal">>, <<c8, "mixed_sse_protocols">>,
                       <<c9, "sse_event_type_mismatch">>, <<c12, "pii_in_structural_field">>,
                       <<c10, "duplicate_sse_index">>, <<c11, "pii_in_numeric_field">> >>
<1>1. /\ c1 \in BOOLEAN /\ c2 \in BOOLEAN /\ c3 \in BOOLEAN /\ c4 \in BOOLEAN /\ c5 \in BOOLEAN
      /\ c6 \in BOOLEAN /\ c7 \in BOOLEAN /\ c8 \in BOOLEAN /\ c9 \in BOOLEAN
      /\ c11 \in BOOLEAN /\ c12 \in BOOLEAN
  OBVIOUS
<1>2. c10 \in BOOLEAN
  BY DEF Duplicate
<1>3. EventChecks(e) = before \o cycle \o after
  BY DEF EventChecks
<1> HIDE DEF c1, c2, c3, c4, c5, c6, c7, c8, c9, c10, c11, c12
<1>4. /\ <<c1, "pii_in_sse_metadata">> \in Checks /\ <<c2, "sse_data_after_terminal">> \in Checks
      /\ <<c3, "unexpected_sse_terminal">> \in Checks /\ <<c4, "invalid_json">> \in Checks
      /\ <<c5, "suspicious_instruction">> \in Checks
      /\ <<c6, "unsupported_sse_schema">> \in Checks
  BY <1>1 DEF Checks, Refusals
<1>5. /\ <<c7, "sse_data_after_terminal">> \in Checks /\ <<c8, "mixed_sse_protocols">> \in Checks
      /\ <<c9, "sse_event_type_mismatch">> \in Checks
      /\ <<c10, "duplicate_sse_index">> \in Checks
      /\ <<c11, "pii_in_numeric_field">> \in Checks
      /\ <<c12, "pii_in_structural_field">> \in Checks
  BY <1>1, <1>2 DEF Checks, Refusals
<1>6. before \in Seq(Checks) /\ Len(before) = 6 /\ before[2][1] = c2 /\ before[3][1] = c3
  BY <1>4
<1>7. after \in Seq(Checks) /\ Len(after) = 6 /\ after[1][1] = c7 /\ after[2][1] = c8
  BY <1>5
<1>8. cycle \in Seq(Checks)
  BY AnthropicList, EmptySeq
<1> HIDE DEF before, after, cycle
<1>9. before \o cycle \in Seq(Checks)
  BY <1>6, <1>8, ConcatProperties
<1>10. before \o cycle \o after \in Seq(Checks)
  BY <1>7, <1>9, ConcatProperties
<1>11. /\ FirstReason(EventChecks(e)) \in Refusals \cup {"none"}
       /\ FirstReason(EventChecks(e)) = "none" => Clear(before \o cycle \o after)
  BY <1>3, <1>10, FirstOfList
<1> SUFFICES ASSUME Clear(before \o cycle \o after) PROVE Accepted(e)
  BY <1>11
<1>12. Clear(before \o cycle) /\ Clear(after)
  BY <1>7, <1>9, ClearJoined
<1>13. Clear(before) /\ Clear(cycle)
  BY <1>6, <1>8, <1>12, ClearJoined
<1>14. ~c2 /\ ~c3
  BY <1>6, <1>13 DEF Clear
<1>15. ~c7 /\ ~c8
  BY <1>7, <1>12 DEF Clear
<1>16. e.family = "anthropic" => Clear(AnthropicChecks(e))
  BY <1>13 DEF cycle
<1> QED
  BY <1>14, <1>15, <1>16, AnthropicList DEF c2, c3, c7, c8, Accepted

\* What the checks after the last event leave of it, and of its lanes.
Complete(policy) ==
    /\ family \in {"chat", "responses", "anthropic"} => terminal
    /\ family = "gemini" => candidates = finished
    /\ \A i \in 1 .. Len(refs) :
        /\ ~Suspicious(JoinedText(refs[i].lane))
        /\ Findings(JoinedText(refs[i].lane)) # {} => policy # "block"

LEMMA EndLists ==
    ASSUME NEW policy, Len(refs) \in Nat
    PROVE  /\ FirstReason(EndChecks(policy)) \in Refusals \cup {"none"}
           /\ FirstReason(EndChecks(policy)) = "none" => Complete(policy)
<1> DEFINE c1 == family \in {"chat", "responses", "anthropic"} /\ ~terminal
           c2 == family = "gemini" /\ (candidates = {} \/ candidates # finished)
           whole == << <<c1, "incomplete_sse_stream">>, <<c2, "incomplete_sse_stream">> >>
           lanes == [i \in 1 .. Len(refs) |-> LaneChecks(i, policy)]
<1>1. c1 \in BOOLEAN /\ c2 \in BOOLEAN
  OBVIOUS
<1>2. EndChecks(policy) = whole \o Prefix(lanes, Len(refs))
  <2>1. lanes = [i \in 1 .. Len(refs) |-> lanes[i]]
    OBVIOUS
  <2>2. EndChecks(policy) = whole \o FlattenSeq(lanes)
    BY DEF EndChecks
  <2> HIDE DEF lanes, whole
  <2> QED
    BY <2>1, <2>2 DEF Prefix
<1> HIDE DEF c1, c2
<1>3. <<c1, "incomplete_sse_stream">> \in Checks /\ <<c2, "incomplete_sse_stream">> \in Checks
  BY <1>1 DEF Checks, Refusals
<1>4. whole \in Seq(Checks) /\ Len(whole) = 2 /\ whole[1][1] = c1 /\ whole[2][1] = c2
  BY <1>3
<1>5. ASSUME NEW i \in 1 .. Len(refs)
      PROVE  /\ lanes[i] \in Seq(Checks)
             /\ Clear(lanes[i]) =>
                  /\ ~Suspicious(JoinedText(refs[i].lane))
                  /\ Findings(JoinedText(refs[i].lane)) # {} => policy # "block"
  <2> DEFINE text == JoinedText(refs[i].lane)
             d1 == Suspicious(text)
             d2 == refs[i].kind = "json" /\ ~WellFormed(text)
             d3 == Findings(text) # {} /\ policy = "block"
             d4 == Findings(text) # {} /\ refs[i].kind = "structural"
  <2>1. d1 \in BOOLEAN /\ d2 \in BOOLEAN /\ d3 \in BOOLEAN /\ d4 \in BOOLEAN
    BY DEF Suspicious
  <2>2. lanes[i] = << <<d1, "suspicious_instruction">>, <<d2, "invalid_json">>,
                      <<d3, "pii_block_policy">>, <<d4, "pii_in_sse_structural_field">> >>
    BY DEF LaneChecks
  <2> HIDE DEF d1, d2, d3, d4, lanes
  <2>3. /\ <<d1, "suspicious_instruction">> \in Checks /\ <<d2, "invalid_json">> \in Checks
        /\ <<d3, "pii_block_policy">> \in Checks
        /\ <<d4, "pii_in_sse_structural_field">> \in Checks
    BY <2>1 DEF Checks, Refusals
  <2>4. lanes[i] \in Seq(Checks) /\ Len(lanes[i]) = 4
    BY <2>2, <2>3
  <2>5. Clear(lanes[i]) => ~d1 /\ ~d3
    BY <2>2, <2>4 DEF Clear
  <2> QED
    BY <2>4, <2>5 DEF d1, d3
<1> HIDE DEF whole, lanes
<1>6. /\ Prefix(lanes, Len(refs)) \in Seq(Checks)
      /\ Clear(Prefix(lanes, Len(refs))) => \A i \in 1 .. Len(refs) : Clear(lanes[i])
  BY <1>5, ClearParts
<1>7. whole \o Prefix(lanes, Len(refs)) \in Seq(Checks)
  BY <1>4, <1>6, ConcatProperties
<1>8. /\ FirstReason(EndChecks(policy)) \in Refusals \cup {"none"}
      /\ FirstReason(EndChecks(policy)) = "none" => Clear(whole \o Prefix(lanes, Len(refs)))
  BY <1>2, <1>7, FirstOfList
<1> SUFFICES ASSUME Clear(whole \o Prefix(lanes, Len(refs))) PROVE Complete(policy)
  BY <1>8
<1>9. Clear(whole) /\ Clear(Prefix(lanes, Len(refs)))
  BY <1>4, <1>6, ClearJoined
<1>10. ~c1 /\ ~c2
  BY <1>4, <1>9 DEF Clear
<1>11. \A i \in 1 .. Len(refs) : Clear(lanes[i])
  BY <1>6, <1>9
<1> QED
  BY <1>5, <1>10, <1>11 DEF Complete, c1, c2

-----------------------------------------------------------------------------
(* The life cycle of a stream.                                              *)

Places == 1 .. Len(input)
Closing(e) == e.family = "done" \/ e.type \in Terminals
Starts(e, x) == HasPayload(e) /\ e.type = "block_start" /\ e.index = x
Stops(e, x) == HasPayload(e) /\ e.type = "block_stop" /\ e.index = x
InBlock(e) == HasPayload(e) /\ e.type \in {"block_start", "block_delta", "block_stop"}

StreamTyped ==
    /\ input \in Seq(Events) /\ \E S : refs \in Seq(S)
    /\ family \in Families \cup {"none"} /\ terminal \in BOOLEAN

\* There are payloads of one family only, and the [DONE] marker is one of chat.
OneFamily ==
    /\ \A i \in Places :
        /\ HasPayload(input[i]) => input[i].family = family
        /\ input[i].family = "done" => family = "chat"
    /\ family = "none" => open = {} /\ seen = {}

\* The flag is set by the closing event, and no data follows it.
ClosedAtEnd ==
    /\ terminal <=> \E i \in Places : Closing(input[i])
    /\ \A i, j \in Places : Closing(input[i]) /\ HasData(input[j]) => j <= i

\* A block is started once, before anything is written to it, and is open until stopped.
BlocksAreCycles ==
    family = "anthropic" =>
        /\ \A x \in open : \E j \in Places : Starts(input[j], x)
        /\ \A j \in Places : \A x : Starts(input[j], x) => x \in seen
        /\ \A j, m \in Places : \A x : Starts(input[j], x) /\ Starts(input[m], x) => j = m
        /\ \A i \in Places : InBlock(input[i]) =>
            /\ \E j \in 1 .. i : Starts(input[j], input[i].index)
            /\ \/ input[i].index \in open
               \/ \E k \in i .. Len(input) : Stops(input[k], input[i].index)
        /\ terminal => open = {}

\* Candidates are those of the chunks read, and a finished one is silent.
CandidatesAreRead ==
    /\ \A i \in Places : HasCandidate(input[i]) =>
        /\ input[i].index \in candidates
        /\ input[i].finish => input[i].index \in finished
    /\ \A x \in finished :
        \E i \in Places : HasCandidate(input[i]) /\ input[i].finish /\ input[i].index = x
    /\ \A i, j \in Places :
        (/\ HasCandidate(input[i]) /\ HasCandidate(input[j])
         /\ j < i /\ input[j].finish /\ input[j].index = input[i].index) =>
            input[i].strings = <<>>

\* What the end of the stream was checked for.
ReleasedAtEnd ==
    Released =>
        /\ family \in {"chat", "responses", "anthropic"} => terminal
        /\ family = "gemini" => candidates = finished

\* The inductive invariant of _redact_sse.
StreamIInv ==
    /\ StreamTyped /\ OneFamily /\ ClosedAtEnd /\ BlocksAreCycles /\ CandidatesAreRead
    /\ ReleasedAtEnd

\* Before the first event, and after an error.
Emptied ==
    /\ input = <<>> /\ family = "none" /\ terminal = FALSE /\ started = FALSE
    /\ open = {} /\ seen = {} /\ candidates = {} /\ finished = {} /\ refs = <<>>

LEMMA EmptiedStream == Emptied => StreamIInv
<1> SUFFICES ASSUME Emptied PROVE StreamIInv
  OBVIOUS
<1>1. Len(input) = 0 /\ Places = {}
  BY DEF Emptied, Places
<1>2. StreamTyped
  <2>1. input \in Seq(Events) /\ refs \in Seq(Events)
    BY DEF Emptied
  <2> QED
    BY <2>1 DEF Emptied, StreamTyped
<1>3. OneFamily /\ ClosedAtEnd /\ BlocksAreCycles /\ CandidatesAreRead /\ ReleasedAtEnd
  BY <1>1 DEF Emptied, OneFamily, ClosedAtEnd, BlocksAreCycles, CandidatesAreRead, ReleasedAtEnd
<1> QED
  BY <1>2, <1>3 DEF StreamIInv

LEMMA RaiseSseStep ==
    ASSUME NEW reason, RaiseSse(reason)
    PROVE  StreamIInv'
<1>1. Emptied'
  BY DEF RaiseSse, Emptied
<1> QED
  BY <1>1, EmptiedStream, PTL

\* What is released is whole.
LEMMA WholeFromInvariant ==
    ASSUME StreamIInv
    PROVE  ReleasedIsWhole
<1> SUFFICES ASSUME Released PROVE ReleasedIsWhole
  BY DEF ReleasedIsWhole
<1> DEFINE data == {i \in Places : HasData(input[i])}
           close == {i \in Places : Closing(input[i])}
           chunks == {i \in Places : HasCandidate(input[i])}
<1>1. /\ StreamTyped /\ OneFamily /\ ClosedAtEnd /\ BlocksAreCycles /\ CandidatesAreRead
      /\ ReleasedAtEnd /\ Len(input) \in Nat /\ \A i \in Places : i \in Nat /\ input[i] \in Events
  BY LenProperties, ElementOfSeq DEF StreamIInv, StreamTyped, Places
<1>2. \A i \in close, j \in data : j <= i
  BY <1>1 DEF ClosedAtEnd
<1>3. family \in {"chat", "responses", "anthropic"} => \E i \in close : \A j \in data : j <= i
  BY <1>1, <1>2 DEF ReleasedAtEnd, ClosedAtEnd
<1>4. ASSUME family = "anthropic", NEW i \in data,
             input[i].type \in {"block_start", "block_delta", "block_stop"}
      PROVE  \E j, k \in data :
               /\ j <= i /\ i <= k
               /\ input[j].type = "block_start" /\ input[j].index = input[i].index
               /\ input[k].type = "block_stop" /\ input[k].index = input[i].index
               /\ \A m \in data \ {j} :
                    ~(input[m].type = "block_start" /\ input[m].index = input[i].index)
  <2>1. \A m \in data : HasPayload(input[m])
    BY <1>1, <1>4, EventAssumption DEF OneFamily, HasData, HasPayload
  <2>2. InBlock(input[i])
    BY <1>4, <2>1 DEF InBlock
  <2>3. open = {}
    BY <1>1, <1>4 DEF BlocksAreCycles, ReleasedAtEnd
  <2>4. PICK j \in 1 .. i : Starts(input[j], input[i].index)
    BY <1>1, <1>4, <2>2 DEF BlocksAreCycles
  <2>5. PICK k \in i .. Len(input) : Stops(input[k], input[i].index)
    BY <1>1, <1>4, <2>2, <2>3 DEF BlocksAreCycles
  <2>6. j \in Places /\ k \in Places /\ j <= i /\ i <= k
    BY <1>1, <2>4, <2>5 DEF Places
  <2>7. j \in data /\ k \in data
    BY <2>4, <2>5, <2>6 DEF Starts, Stops, HasPayload, HasData, Families
  <2>8. ASSUME NEW m \in data, m # j, input[m].type = "block_start",
               input[m].index = input[i].index
        PROVE  FALSE
    <3>1. Starts(input[m], input[i].index)
      BY <2>1, <2>8 DEF Starts
    <3> QED
      BY <1>1, <1>4, <2>4, <2>6, <2>8, <3>1 DEF BlocksAreCycles
  <2> QED
    BY <2>4, <2>5, <2>6, <2>7, <2>8 DEF Starts, Stops
<1>5. ASSUME NEW i \in chunks
      PROVE  \E j \in chunks : input[j].index = input[i].index /\ input[j].finish
  <2>1. family = "gemini"
    BY <1>1 DEF OneFamily, HasCandidate, HasPayload, Families
  <2>2. input[i].index \in finished
    BY <1>1, <2>1 DEF CandidatesAreRead, ReleasedAtEnd
  <2> QED
    BY <1>1, <2>2 DEF CandidatesAreRead
<1>6. \A i, j \in chunks :
        (j < i /\ input[j].finish /\ input[j].index = input[i].index) => input[i].strings = <<>>
  BY <1>1 DEF CandidatesAreRead
<1>7. /\ family \in {"chat", "responses", "anthropic"} =>
            \E i \in close : \A j \in data : j <= i
      /\ \A i \in close, j \in data : j <= i
      /\ family = "anthropic" => \A i \in data :
            input[i].type \in {"block_start", "block_delta", "block_stop"} =>
              \E j, k \in data :
                /\ j <= i /\ i <= k
                /\ input[j].type = "block_start" /\ input[j].index = input[i].index
                /\ input[k].type = "block_stop" /\ input[k].index = input[i].index
                /\ \A m \in data \ {j} :
                     ~(input[m].type = "block_start" /\ input[m].index = input[i].index)
      /\ \A i \in chunks :
           /\ \E j \in chunks : input[j].index = input[i].index /\ input[j].finish
           /\ \A j \in chunks :
                (j < i /\ input[j].finish /\ input[j].index = input[i].index) =>
                    input[i].strings = <<>>
  <2> HIDE DEF data, close, chunks
  <2>1. \A i \in chunks :
           /\ \E j \in chunks : input[j].index = input[i].index /\ input[j].finish
           /\ \A j \in chunks :
                (j < i /\ input[j].finish /\ input[j].index = input[i].index) =>
                    input[i].strings = <<>>
    BY <1>5, <1>6
  <2> QED
    BY <1>2, <1>3, <1>4, <2>1
<1> QED
  BY <1>7 DEF ReleasedIsWhole, At, Places, Closing

\* What reading an event does to the state of its stream, for all kinds of events.
Reads(e) ==
    /\ Reading /\ outcome' = outcome /\ Accepted(e)
    /\ input' = Append(input, e) /\ \E S : refs' \in Seq(S)
    /\ family' = IF HasPayload(e) THEN e.family ELSE IF e.family = "done" THEN "chat" ELSE family
    /\ terminal' = IF HasData(e) THEN Closing(e) ELSE terminal
    /\ open' = IF Starts(e, e.index) THEN open \cup {e.index}
               ELSE IF Stops(e, e.index) THEN open \ {e.index} ELSE open
    /\ seen' = IF Starts(e, e.index) THEN seen \cup {e.index} ELSE seen
    /\ candidates' = IF HasCandidate(e) THEN candidates \cup {e.index} ELSE candidates
    /\ finished' = IF HasCandidate(e) /\ e.finish THEN finished \cup {e.index} ELSE finished

\* What kinds of events there are.
LEMMA EventKinds ==
    ASSUME NEW e \in Events
    PROVE  /\ HasPayload(e) <=> e.family \in Families
           /\ HasData(e) <=> HasPayload(e) \/ e.family = "done"
           /\ ~(HasPayload(e) /\ e.family = "done")
           /\ Closing(e) => HasData(e)
           /\ HasCandidate(e) => HasPayload(e) /\ e.family = "gemini"
           /\ Closing(e) /\ e.family = "anthropic" => e.type = "message_stop"
  BY EventAssumption DEF HasPayload, HasData, Closing, HasCandidate, Families, Terminals

\* The events read so far, and the new one behind them.
LEMMA ReadPlaces ==
    ASSUME StreamTyped, NEW e \in Events, input' = Append(input, e)
    PROVE  LET n == Len(input) IN
           /\ n \in Nat /\ Places = 1 .. n /\ Places' = 1 .. n + 1 /\ Len(input') = n + 1
           /\ input' \in Seq(Events) /\ input'[n + 1] = e
           /\ \A i \in Places : input'[i] = input[i] /\ input[i] \in Events /\ i \in Nat /\ i < n + 1
           /\ \A i \in Places' : i = n + 1 \/ i \in Places
<1> DEFINE n == Len(input)
<1>1. input \in Seq(Events) /\ n \in Nat
  BY LenProperties DEF StreamTyped
<1>2. input' \in Seq(Events) /\ Len(input') = n + 1 /\ input'[n + 1] = e
  BY <1>1, AppendProperties
<1>3. \A i \in 1 .. n : input'[i] = input[i] /\ input[i] \in Events
  BY <1>1, AppendProperties, ElementOfSeq
<1> QED
  BY <1>1, <1>2, <1>3 DEF Places

LEMMA ReadsClosed ==
    ASSUME StreamIInv, NEW e \in Events, Reads(e)
    PROVE  ClosedAtEnd'
<1> DEFINE n == Len(input)
<1>1. StreamTyped /\ ClosedAtEnd /\ (HasData(e) => ~terminal)
  BY DEF StreamIInv, Reads, Accepted
<1>2. terminal' = IF HasData(e) THEN Closing(e) ELSE terminal
  BY DEF Reads
<1>3. /\ n \in Nat /\ Places = 1 .. n /\ Places' = 1 .. n + 1 /\ input'[n + 1] = e
      /\ \A i \in Places : input'[i] = input[i] /\ input[i] \in Events /\ i \in Nat /\ i < n + 1
      /\ \A i \in Places' : i = n + 1 \/ i \in Places
  BY <1>1, ReadPlaces DEF Reads
<1> HIDE DEF n
<1>4. /\ HasData(e) => \A i \in Places : ~Closing(input[i])
      /\ terminal <=> \E i \in Places : Closing(input[i])
  BY <1>1 DEF ClosedAtEnd
<1>5. Closing(e) => HasData(e)
  BY EventKinds
<1>6. terminal' <=> \E i \in Places' : Closing(input'[i])
  <2>1. CASE HasData(e)
    <3>1. terminal' <=> Closing(input'[n + 1])
      BY <1>2, <1>3, <2>1
    <3>2. \A i \in Places : ~Closing(input'[i])
      BY <1>3, <1>4, <2>1
    <3> QED
      BY <1>3, <3>1, <3>2
  <2>2. CASE ~HasData(e)
    BY <1>2, <1>3, <1>4, <1>5, <2>2
  <2> QED
    BY <2>1, <2>2
<1>7. ASSUME NEW i \in Places', NEW j \in Places', Closing(input'[i]), HasData(input'[j])
      PROVE  j <= i
  <2>1. CASE i = n + 1
    BY <1>3, <2>1
  <2>2. CASE i \in Places /\ j \in Places
    BY <1>1, <1>3, <1>7, <2>2 DEF ClosedAtEnd
  <2>3. CASE i \in Places /\ j = n + 1
    BY <1>3, <1>4, <1>7, <2>3
  <2> QED
    BY <1>3, <2>1, <2>2, <2>3
<1>8. /\ terminal' <=> \E i \in Places' : Closing(input[i])'
      /\ \A i, j \in Places' : Closing(input[i])' /\ HasData(input[j])' => j <= i
  BY <1>6, <1>7 DEF Closing, HasData
<1> QED
  BY <1>8 DEF ClosedAtEnd

LEMMA ReadsFamily ==
    ASSUME StreamIInv, NEW e \in Events, Reads(e)
    PROVE  OneFamily' /\ family' \in Families \cup {"none"}
<1> DEFINE n == Len(input)
<1>1. StreamTyped /\ OneFamily /\ Accepted(e)
  BY DEF StreamIInv, Reads
<1>2. /\ n \in Nat /\ Places' = 1 .. n + 1 /\ input'[n + 1] = e
      /\ \A i \in Places : input'[i] = input[i] /\ input[i] \in Events
      /\ \A i \in Places' : i = n + 1 \/ i \in Places
  BY <1>1, ReadPlaces DEF Reads
<1>3. /\ family' = IF HasPayload(e) THEN e.family ELSE IF e.family = "done" THEN "chat" ELSE family
      /\ open' = IF Starts(e, e.index) THEN open \cup {e.index}
                 ELSE IF Stops(e, e.index) THEN open \ {e.index} ELSE open
      /\ seen' = IF Starts(e, e.index) THEN seen \cup {e.index} ELSE seen
  BY DEF Reads
<1> HIDE DEF n
<1>4. /\ HasPayload(e) <=> e.family \in Families
      /\ ~(HasPayload(e) /\ e.family = "done")
  BY EventKinds
<1>5. /\ HasPayload(e) => family \in {"none", e.family} /\ family' = e.family
      /\ e.family = "done" => family \in {"none", "chat"} /\ family' = "chat"
      /\ ~HasPayload(e) /\ e.family # "done" => family' = family
  BY <1>1, <1>3, <1>4 DEF Accepted
<1>6. family = "none" \/ family' = family
  BY <1>5
<1>7. ASSUME NEW i \in Places
      PROVE  /\ HasPayload(input[i]) => input[i].family = family'
             /\ input[i].family = "done" => family' = "chat"
  <2>1. /\ HasPayload(input[i]) => input[i].family = family /\ family # "none"
        /\ input[i].family = "done" => family = "chat"
    BY <1>1 DEF OneFamily, HasPayload, Families
  <2> QED
    BY <1>6, <2>1
<1>8. \A i \in Places' :
        /\ HasPayload(input[i])' => input'[i].family = family'
        /\ input'[i].family = "done" => family' = "chat"
  <2>1. SUFFICES ASSUME NEW i \in Places'
                 PROVE  /\ HasPayload(input'[i]) => input'[i].family = family'
                        /\ input'[i].family = "done" => family' = "chat"
    BY DEF HasPayload
  <2>2. CASE i = n + 1
    BY <1>2, <1>4, <1>5, <2>2
  <2>3. CASE i \in Places
    BY <1>2, <1>7, <2>3
  <2> QED
    BY <1>2, <2>2, <2>3
<1>9. family' = "none" => open' = {} /\ seen' = {}
  <2>1. SUFFICES ASSUME family' = "none" PROVE open' = {} /\ seen' = {}
    OBVIOUS
  <2>2. ~HasPayload(e) /\ family = "none"
    BY <1>4, <1>5, <2>1 DEF Families
  <2> QED
    BY <1>1, <1>3, <2>2 DEF OneFamily, Starts, Stops
<1>10. family' \in Families \cup {"none"}
  BY <1>1, <1>4, <1>5 DEF StreamTyped, Families
<1> QED
  BY <1>8, <1>9, <1>10 DEF OneFamily

LEMMA ReadsCandidates ==
    ASSUME StreamIInv, NEW e \in Events, Reads(e)
    PROVE  CandidatesAreRead'
<1> DEFINE n == Len(input)
<1>1. StreamTyped /\ CandidatesAreRead /\ Accepted(e)
  BY DEF StreamIInv, Reads
<1>2. /\ n \in Nat /\ Places' = 1 .. n + 1 /\ input'[n + 1] = e
      /\ \A i \in Places : input'[i] = input[i] /\ i \in Nat /\ i < n + 1
      /\ \A i \in Places' : i = n + 1 \/ i \in Places
      /\ \A i \in Places : i \in Places'
  BY <1>1, ReadPlaces DEF Reads
<1>3. /\ candidates' = IF HasCandidate(e) THEN candidates \cup {e.index} ELSE candidates
      /\ finished' = IF HasCandidate(e) /\ e.finish THEN finished \cup {e.index} ELSE finished
      /\ HasCandidate(e) /\ e.index \in finished => e.strings = <<>>
  BY <1>1 DEF Reads, Accepted
<1> HIDE DEF n
<1>4. ASSUME NEW i \in Places', HasCandidate(input'[i])
      PROVE  /\ input'[i].index \in candidates'
             /\ input'[i].finish => input'[i].index \in finished'
  <2>1. CASE i = n + 1
    BY <1>2, <1>3, <1>4, <2>1
  <2>2. CASE i \in Places
    <3>1. HasCandidate(input[i])
      BY <1>2, <1>4, <2>2
    <3>2. input[i].index \in candidates /\ (input[i].finish => input[i].index \in finished)
      BY <1>1, <2>2, <3>1 DEF CandidatesAreRead
    <3> QED
      BY <1>2, <1>3, <2>2, <3>2
  <2> QED
    BY <1>2, <2>1, <2>2
<1>5. ASSUME NEW x \in finished'
      PROVE  \E i \in Places' : HasCandidate(input'[i]) /\ input'[i].finish /\ input'[i].index = x
  <2>1. CASE x \in finished
    <3>1. PICK i \in Places : HasCandidate(input[i]) /\ input[i].finish /\ input[i].index = x
      BY <1>1, <2>1 DEF CandidatesAreRead
    <3> QED
      BY <1>2, <3>1
  <2>2. CASE x \notin finished
    <3>1. HasCandidate(e) /\ e.finish /\ x = e.index
      BY <1>3, <1>5, <2>2
    <3>2. n + 1 \in Places'
      BY <1>2
    <3> QED
      BY <1>2, <3>1, <3>2
  <2> QED
    BY <2>1, <2>2
<1>6. ASSUME NEW i \in Places', NEW j \in Places', HasCandidate(input'[i]), HasCandidate(input'[j]),
             j < i, input'[j].finish, input'[j].index = input'[i].index
      PROVE  input'[i].strings = <<>>
  <2>1. j \in Places
    BY <1>2, <1>6
  <2>2. HasCandidate(input[j]) /\ input[j].finish /\ input[j].index = input'[i].index
    BY <1>2, <1>6, <2>1
  <2>3. CASE i = n + 1
    <3>1. input[j].index \in finished
      BY <1>1, <2>1, <2>2 DEF CandidatesAreRead
    <3> QED
      BY <1>2, <1>3, <1>6, <2>2, <2>3, <3>1
  <2>4. CASE i \in Places
    <3>1. HasCandidate(input[i]) /\ input'[i] = input[i]
      BY <1>2, <1>6, <2>4
    <3> QED
      BY <1>1, <1>6, <2>1, <2>2, <2>4, <3>1 DEF CandidatesAreRead
  <2> QED
    BY <1>2, <2>3, <2>4
<1> QED
  BY <1>4, <1>5, <1>6 DEF CandidatesAreRead, HasCandidate

LEMMA ReadsBlocks ==
    ASSUME StreamIInv, NEW e \in Events, Reads(e)
    PROVE  BlocksAreCycles'
<1> DEFINE n == Len(input)
<1>1. /\ StreamTyped /\ OneFamily /\ BlocksAreCycles /\ ClosedAtEnd /\ Accepted(e)
  BY DEF StreamIInv, Reads
<1>2. /\ n \in Nat /\ Places = 1 .. n /\ Places' = 1 .. n + 1 /\ Len(input') = n + 1
      /\ input'[n + 1] = e
      /\ \A i \in Places : input'[i] = input[i] /\ i \in Nat /\ i < n + 1
      /\ \A i \in Places' : i = n + 1 \/ i \in Places
      /\ \A i \in Places : i \in Places'
  BY <1>1, ReadPlaces DEF Reads
<1>3. /\ open' = IF Starts(e, e.index) THEN open \cup {e.index}
                 ELSE IF Stops(e, e.index) THEN open \ {e.index} ELSE open
      /\ seen' = IF Starts(e, e.index) THEN seen \cup {e.index} ELSE seen
      /\ terminal' = IF HasData(e) THEN Closing(e) ELSE terminal
      /\ family' = IF HasPayload(e) THEN e.family ELSE IF e.family = "done" THEN "chat" ELSE family
  BY DEF Reads
<1>4. /\ HasPayload(e) <=> e.family \in Families
      /\ HasData(e) <=> HasPayload(e) \/ e.family = "done"
      /\ ~(HasPayload(e) /\ e.family = "done")
      /\ Closing(e) /\ e.family = "anthropic" => e.type = "message_stop"
  BY EventKinds
<1> SUFFICES ASSUME family' = "anthropic" PROVE BlocksAreCycles'
  BY DEF BlocksAreCycles
<1> HIDE DEF n
<1>5. /\ e.family # "done"
      /\ HasPayload(e) => e.family = "anthropic"
      /\ family \in {"none", "anthropic"}
  BY <1>1, <1>3, <1>4 DEF Accepted
\* What was so before: nothing was read yet, or the stream was one of blocks already.
<1>6. /\ \A x \in open : \E j \in Places : Starts(input[j], x)
      /\ \A j \in Places : \A x : Starts(input[j], x) => x \in seen
      /\ \A j, m \in Places : \A x : Starts(input[j], x) /\ Starts(input[m], x) => j = m
      /\ \A i \in Places : InBlock(input[i]) =>
            /\ \E j \in 1 .. i : Starts(input[j], input[i].index)
            /\ \/ input[i].index \in open
               \/ \E k \in i .. n : Stops(input[k], input[i].index)
      /\ terminal => open = {}
  <2>1. CASE family = "anthropic"
    BY <1>1, <2>1 DEF BlocksAreCycles, n
  <2>2. CASE family = "none"
    <3>1. \A i \in Places : ~HasPayload(input[i])
      BY <1>1, <2>2 DEF OneFamily, HasPayload, Families
    <3>2. open = {}
      BY <1>1, <2>2 DEF OneFamily
    <3> QED
      BY <3>1, <3>2 DEF Starts, InBlock
  <2> QED
    BY <1>5, <2>1, <2>2
<1>7. /\ HasPayload(e) /\ e.type = "block_start" => e.index \notin seen
      /\ HasPayload(e) /\ e.type \in {"block_delta", "block_stop"} => e.index \in open
      /\ HasPayload(e) /\ e.type = "message_stop" => open = {}
  BY <1>1, <1>5 DEF Accepted
<1>8. ASSUME NEW x \in open'
      PROVE  \E j \in Places' : Starts(input'[j], x)
  <2>1. CASE x \in open
    <3>1. PICK j \in Places : Starts(input[j], x)
      BY <1>6, <2>1
    <3> QED
      BY <1>2, <3>1
  <2>2. CASE x \notin open
    <3>1. Starts(e, e.index) /\ x = e.index
      BY <1>3, <1>8, <2>2
    <3>2. n + 1 \in Places'
      BY <1>2
    <3> QED
      BY <1>2, <3>1, <3>2
  <2> QED
    BY <2>1, <2>2
<1>9. ASSUME NEW j \in Places', NEW x, Starts(input'[j], x)
      PROVE  x \in seen'
  <2>1. CASE j = n + 1
    <3>1. Starts(e, x) /\ x = e.index
      BY <1>2, <1>9, <2>1 DEF Starts
    <3> QED
      BY <1>3, <3>1
  <2>2. CASE j \in Places
    <3>1. x \in seen
      BY <1>2, <1>6, <1>9, <2>2
    <3> QED
      BY <1>3, <3>1
  <2> QED
    BY <1>2, <2>1, <2>2
<1>10. ASSUME NEW j \in Places, NEW x, Starts(input[j], x), Starts(e, x)
       PROVE  FALSE
  <2>1. x \in seen
    BY <1>6, <1>10
  <2>2. x \notin seen
    BY <1>7, <1>10 DEF Starts
  <2> QED
    BY <2>1, <2>2
<1>11. ASSUME NEW j \in Places', NEW m \in Places', NEW x, Starts(input'[j], x), Starts(input'[m], x)
       PROVE  j = m
  <2>1. CASE j \in Places /\ m \in Places
    BY <1>2, <1>6, <1>11, <2>1
  <2>2. CASE j \in Places /\ m = n + 1
    BY <1>2, <1>10, <1>11, <2>2
  <2>3. CASE j = n + 1 /\ m \in Places
    BY <1>2, <1>10, <1>11, <2>3
  <2> QED
    BY <1>2, <2>1, <2>2, <2>3
<1>12. ASSUME NEW i \in Places', InBlock(input'[i])
       PROVE  \E j \in 1 .. i : Starts(input'[j], input'[i].index)
  <2>1. CASE i \in Places
    <3>1. PICK j \in 1 .. i : Starts(input[j], input[i].index)
      BY <1>2, <1>6, <1>12, <2>1
    <3>2. j \in Places
      BY <1>2, <2>1, <3>1
    <3> QED
      BY <1>2, <2>1, <3>1, <3>2
  <2>2. CASE i = n + 1 /\ e.type = "block_start"
    <3>1. Starts(e, e.index) /\ n + 1 \in 1 .. i
      BY <1>2, <1>12, <2>2 DEF InBlock, Starts
    <3> QED
      BY <1>2, <2>2, <3>1
  <2>3. CASE i = n + 1 /\ e.type \in {"block_delta", "block_stop"}
    <3>1. e.index \in open
      BY <1>2, <1>7, <1>12, <2>3 DEF InBlock
    <3>2. PICK j \in Places : Starts(input[j], e.index)
      BY <1>6, <3>1
    <3>3. j \in 1 .. i
      BY <1>2, <2>3, <3>2
    <3> QED
      BY <1>2, <2>3, <3>2, <3>3
  <2> QED
    BY <1>2, <1>12, <2>1, <2>2, <2>3 DEF InBlock
<1>13. ASSUME NEW i \in Places', InBlock(input'[i])
       PROVE  \/ input'[i].index \in open'
              \/ \E k \in i .. n + 1 : Stops(input'[k], input'[i].index)
  <2> DEFINE x == input'[i].index
  <2>1. i \in Nat /\ i <= n + 1 /\ n + 1 \in i .. n + 1
    BY <1>2
  <2>2. CASE Stops(e, x)
    BY <1>2, <2>1, <2>2
  <2>3. CASE ~Stops(e, x) /\ i \in Places /\ x \in open
    <3>1. x \in open'
      <4>1. Stops(e, e.index) => e.index # x
        BY <2>3 DEF Stops
      <4> QED
        BY <1>3, <2>3, <4>1
    <3> QED
      BY <3>1
  <2>4. CASE i \in Places /\ x \notin open
    <3>1. PICK k \in i .. n : Stops(input[k], x)
      BY <1>2, <1>6, <1>13, <2>4
    <3>2. k \in Places /\ k \in i .. n + 1
      BY <1>2, <2>1, <3>1
    <3> QED
      BY <1>2, <3>1, <3>2
  <2>5. CASE ~Stops(e, x) /\ i = n + 1
    <3>1. x = e.index /\ InBlock(e)
      BY <1>2, <1>13, <2>5
    <3>2. CASE e.type = "block_start"
      BY <1>3, <3>1, <3>2 DEF InBlock, Starts
    <3>3. CASE e.type # "block_start"
      <4>1. e.index \in open
        BY <1>7, <3>1, <3>3 DEF InBlock
      <4> QED
        BY <1>3, <2>5, <3>1, <4>1
    <3> QED
      BY <3>2, <3>3
  <2> QED
    BY <1>2, <2>2, <2>3, <2>4, <2>5
<1>14. terminal' => open' = {}
  <2>1. CASE HasData(e)
    <3>1. terminal' => e.type = "message_stop" /\ HasPayload(e)
      BY <1>3, <1>4, <1>5, <2>1
    <3>2. e.type = "message_stop" => ~Starts(e, e.index) /\ ~Stops(e, e.index)
      BY DEF Starts, Stops
    <3> QED
      BY <1>3, <1>7, <3>1, <3>2
  <2>2. CASE ~HasData(e)
    <3>1. ~Starts(e, e.index) /\ ~Stops(e, e.index)
      BY <1>4, <2>2 DEF Starts, Stops
    <3> QED
      BY <1>3, <1>6, <2>2, <3>1
  <2> QED
    BY <2>1, <2>2
<1>15. \A i \in Places' : InBlock(input'[i]) =>
            /\ \E j \in 1 .. i : Starts(input'[j], input'[i].index)
            /\ \/ input'[i].index \in open'
               \/ \E k \in i .. Len(input') : Stops(input'[k], input'[i].index)
  BY <1>2, <1>12, <1>13
<1>16. /\ \A x \in open' : \E j \in Places' : Starts(input'[j], x)
       /\ \A j \in Places' : \A x : Starts(input'[j], x) => x \in seen'
       /\ \A j, m \in Places' : \A x : Starts(input'[j], x) /\ Starts(input'[m], x) => j = m
  BY <1>8, <1>9, <1>11
<1> QED
  BY <1>14, <1>15, <1>16 DEF BlocksAreCycles, Starts, Stops, InBlock, HasPayload

LEMMA ReadsStep ==
    ASSUME StreamIInv, NEW e \in Events, Reads(e)
    PROVE  StreamIInv'
<1>1. StreamTyped'
  <2>1. input' \in Seq(Events)
    BY ReadPlaces DEF StreamIInv, Reads
  <2>2. terminal' \in BOOLEAN
    BY DEF Reads, StreamIInv, StreamTyped, Closing
  <2> QED
    BY <2>1, <2>2, ReadsFamily DEF StreamTyped, Reads
<1>2. ReleasedAtEnd'
  BY DEF ReleasedAtEnd, Released, Reads, Reading
<1> QED
  BY <1>1, <1>2, ReadsFamily, ReadsClosed, ReadsBlocks, ReadsCandidates DEF StreamIInv

LEMMA ReadCommentStep ==
    ASSUME StreamIInv, NEW e \in Events, ReadComment(e)
    PROVE  StreamIInv'
<1>1. e.family = "comment" /\ ~HasPayload(e) /\ ~HasData(e) /\ ~HasCandidate(e)
  BY DEF ReadComment, HasPayload, HasData, HasCandidate, Families
<1>2. /\ Reading /\ outcome' = outcome /\ input' = Append(input, e)
      /\ family' = family /\ terminal' = terminal /\ open' = open /\ seen' = seen
      /\ candidates' = candidates /\ finished' = finished /\ refs' = refs
  BY DEF ReadComment, parser
<1>3. Accepted(e)
  BY EventList DEF ReadComment
<1>4. \E S : refs' \in Seq(S)
  BY <1>2 DEF StreamIInv, StreamTyped
<1>5. Reads(e)
  BY <1>1, <1>2, <1>3, <1>4 DEF Reads, Starts, Stops
<1> QED
  BY <1>5, ReadsStep

LEMMA ReadDoneStep ==
    ASSUME StreamIInv, NEW e \in Events, ReadDone(e)
    PROVE  StreamIInv'
<1>1. /\ e.family = "done" /\ ~HasPayload(e) /\ HasData(e) /\ ~HasCandidate(e) /\ Closing(e)
  BY DEF ReadDone, HasPayload, HasData, HasCandidate, Closing, Families
<1>2. /\ Reading /\ outcome' = outcome /\ input' = Append(input, e)
      /\ family' = "chat" /\ terminal' = TRUE /\ open' = open /\ seen' = seen
      /\ candidates' = candidates /\ finished' = finished /\ refs' = refs
  BY DEF ReadDone
<1>3. Accepted(e)
  BY EventList DEF ReadDone
<1>4. \E S : refs' \in Seq(S)
  BY <1>2 DEF StreamIInv, StreamTyped
<1>5. Reads(e)
  BY <1>1, <1>2, <1>3, <1>4 DEF Reads, Starts, Stops
<1> QED
  BY <1>5, ReadsStep

LEMMA ReadPayloadStep ==
    ASSUME StreamIInv, NEW e \in Events, ReadPayload(e)
    PROVE  StreamIInv'
<1>1. HasPayload(e) /\ HasData(e) /\ e.family # "done"
  BY EventKinds DEF ReadPayload
<1>2. /\ Reading /\ outcome' = outcome /\ input' = Append(input, e)
      /\ family' = e.family /\ terminal' = (e.type \in Terminals)
      /\ candidates' = IF HasCandidate(e) THEN candidates \cup {e.index} ELSE candidates
      /\ finished' = IF HasCandidate(e) /\ e.finish THEN finished \cup {e.index} ELSE finished
      /\ refs' = refs \o Collected(e, Len(input'))
  BY DEF ReadPayload
<1>3. /\ open' = IF Starts(e, e.index) THEN open \cup {e.index}
                 ELSE IF Stops(e, e.index) THEN open \ {e.index} ELSE open
      /\ seen' = IF Starts(e, e.index) THEN seen \cup {e.index} ELSE seen
  BY <1>1 DEF ReadPayload, Starts, Stops
<1>4. Accepted(e)
  BY EventList DEF ReadPayload
<1>5. \E S : refs' \in Seq(S)
  <2> DEFINE new == Collected(e, Len(input'))
             m == Len(e.strings)
  <2>1. PICK T : refs \in Seq(T)
    BY DEF StreamIInv, StreamTyped
  <2>2. m \in Nat
    BY EventAssumption, LenProperties
  <2> DEFINE S == T \cup {new[k] : k \in 1 .. m}
  <2>3. new \in [1 .. m -> S]
    BY DEF Collected
  <2> HIDE DEF new, m
  <2>4. new \in Seq(S)
    BY <2>2, <2>3, SeqDef
  <2>5. refs \in Seq(S)
    <3>1. \A i \in 1 .. Len(refs) : refs[i] \in S
      BY <2>1, ElementOfSeq
    <3> HIDE DEF S
    <3> QED
      BY <2>1, <3>1, LenProperties, SeqDef
  <2> HIDE DEF S
  <2>6. refs \o new \in Seq(S)
    BY <2>4, <2>5, ConcatProperties
  <2>7. refs' \in Seq(S)
    BY <1>2, <2>6 DEF new
  <2> QED
    BY <2>7
<1>6. terminal' = Closing(e)
  BY <1>1, <1>2 DEF Closing
<1>7. Reads(e)
  BY <1>1, <1>2, <1>3, <1>4, <1>5, <1>6 DEF Reads
<1> QED
  BY <1>7, ReadsStep

LEMMA ReleaseStep ==
    ASSUME StreamIInv, NEW policy, Release(policy)
    PROVE  StreamIInv'
<1>1. /\ input' = input /\ family' = family /\ terminal' = terminal /\ open' = open
      /\ seen' = seen /\ candidates' = candidates /\ finished' = finished /\ refs' = refs
  BY DEF Release, parser
<1>2. Len(refs) \in Nat
  BY LenProperties DEF StreamIInv, StreamTyped
<1>3. /\ family \in {"chat", "responses", "anthropic"} => terminal
      /\ family = "gemini" => candidates = finished
  BY <1>2, EndLists DEF Release, Complete
<1>4. ReleasedAtEnd'
  BY <1>1, <1>3 DEF ReleasedAtEnd
<1>5. StreamTyped' /\ OneFamily' /\ ClosedAtEnd' /\ BlocksAreCycles' /\ CandidatesAreRead'
  BY <1>1
  DEF StreamIInv, StreamTyped, OneFamily, ClosedAtEnd, BlocksAreCycles, CandidatesAreRead,
      Places, Closing, HasData, HasPayload, HasCandidate, InBlock, Starts, Stops
<1> QED
  BY <1>4, <1>5 DEF StreamIInv

LEMMA SameStream ==
    ASSUME StreamIInv, sse' = sse
    PROVE  StreamIInv'
<1>1. /\ input' = input /\ family' = family /\ terminal' = terminal /\ open' = open
      /\ seen' = seen /\ candidates' = candidates /\ finished' = finished /\ refs' = refs
      /\ outcome' = outcome
  BY DEF sse
<1>2. ReleasedAtEnd'
  BY <1>1 DEF StreamIInv, ReleasedAtEnd, Released
<1>3. StreamTyped' /\ OneFamily' /\ ClosedAtEnd' /\ BlocksAreCycles' /\ CandidatesAreRead'
  BY <1>1
  DEF StreamIInv, StreamTyped, OneFamily, ClosedAtEnd, BlocksAreCycles, CandidatesAreRead,
      Places, Closing, HasData, HasPayload, HasCandidate, InBlock, Starts, Stops
<1> QED
  BY <1>2, <1>3 DEF StreamIInv

LEMMA ReadSseStep ==
    ASSUME StreamIInv, NEW policy, ReadSse(policy)
    PROVE  StreamIInv'
<1>1. ASSUME NEW r, Malformed(r) PROVE StreamIInv'
  BY <1>1, RaiseSseStep DEF Malformed
<1>2. ASSUME NEW e \in Events, Refuse(e) PROVE StreamIInv'
  BY <1>2, RaiseSseStep DEF Refuse
<1>3. ASSUME RefuseStream(policy) PROVE StreamIInv'
  BY <1>3, RaiseSseStep DEF RefuseStream
<1> QED
  BY <1>1, <1>2, <1>3, ReadCommentStep, ReadDoneStep, ReadPayloadStep, ReleaseStep DEF ReadSse

LEMMA StreamInit == Init => StreamIInv
<1> SUFFICES ASSUME Init PROVE StreamIInv
  OBVIOUS
<1>1. Emptied
  BY DEF Init, SseInit, Emptied
<1> QED
  BY <1>1, EmptiedStream

LEMMA StreamNext == StreamIInv /\ [Next]_vars => StreamIInv'
<1> SUFFICES ASSUME StreamIInv, [Next]_vars PROVE StreamIInv'
  OBVIOUS
<1>1. CASE \E r \in ResponseReasons : RaiseResponse(r)
  BY <1>1, RaiseSseStep DEF RaiseResponse
<1>2. CASE ReadStream
  BY <1>2, ReadSseStep DEF ReadStream
<1>3. CASE \/ PassCheck
           \/ \E p \in DOMAIN Reasons : \E r \in Reasons[p] : Raise(r)
           \/ Unavailable \/ Redact \/ Verify \/ TrustSource
           \/ \E a \in {"allow", "block", "approval_required"} : Ask(a)
  <2>1. sse' = sse
    BY <1>3 DEF PassCheck, Raise, Unavailable, Redact, Verify, TrustSource, Ask
  <2> QED
    BY <2>1, SameStream
<1>4. CASE \/ \E r \in Unmapped, s \in {"clean", "suspicious_instruction", "invalid_json",
                                        "unsupported_media", "unavailable"} : InspectUnmapped(r, s)
           \/ \E m \in {"json", "plain", "sse", "other", "empty"}, t \in Texts : Respond(m, t)
           \/ RespondEmpty \/ RespondText \/ RespondStream
  <2>1. sse' = sse
    BY <1>4 DEF InspectUnmapped, Respond, RespondEmpty, RespondText, RespondStream
  <2> QED
    BY <2>1, SameStream
<1>5. CASE UNCHANGED vars
  <2>1. sse' = sse
    BY <1>5 DEF vars
  <2> QED
    BY <2>1, SameStream
<1> QED
  BY <1>1, <1>2, <1>3, <1>4, <1>5 DEF Next

\* The invariant of _redact_sse: the flag, the open blocks and the candidates say what
\* the events read so far say.
THEOREM StreamInvariantHolds == Spec => []StreamIInv
  BY StreamInit, StreamNext, PTL DEF Spec

\* A released stream is whole: closed with no data behind its closing event, every block
\* opened once, written in between and closed, every candidate finished and then silent.
THEOREM OnlyWholeStreamsAreReleased == Spec => []ReleasedIsWhole
<1>1. StreamIInv => ReleasedIsWhole
  BY WholeFromInvariant
<1> QED
  BY <1>1, StreamInvariantHolds, PTL

-----------------------------------------------------------------------------
(* Lanes are what clients join.                                             *)

\* The text of the client that a string belongs to, by event and place.
TextOf(e, i, k) ==
    LET s == e.strings[k]
    IN IF Place(e, s) \in Alone THEN <<i, k, "alone">>
       ELSE CASE e.family = "chat"   -> <<s.index, 0, s.field>>
              [] e.family = "gemini" -> <<e.index, s.index, s.field>>
              [] e.family = "mcp"    -> <<i, 0, s.field>>
              [] e.family = "responses" ->
                    <<e.index, 0, CASE e.type = "text_delta" \/ s.field = "text" -> "text"
                                    [] e.type = "refusal_delta" \/ s.field = "refusal" -> "refusal"
                                    [] OTHER -> "arguments">>
              [] OTHER -> <<e.index, 0, s.field>>

LEMMA ClientTextOf ==
    ASSUME NEW i
    PROVE  ClientText(i) = TextOf(input[refs[i].event], refs[i].event, refs[i].at)
  BY DEF ClientText, TextOf

\* A string stands alone, in its lane and for the client, or it is joined to others.
LEMMA PlaceKinds ==
    ASSUME NEW e, NEW s, Place(e, s) \in Joined \cup Alone
    PROVE  /\ Place(e, s) \in Alone <=> Place(e, s) \notin Joined
           /\ e.family = "chat" => e.type = "chunk"
           /\ e.family = "chat" /\ Place(e, s) \in Joined =>
                s.field \in {"content", "refusal", "arguments", "name", "id"}
           /\ e.family = "gemini" /\ Place(e, s) \in Joined => s.field = "text" /\ e.type = "chunk"
           /\ e.family = "mcp" /\ Place(e, s) \in Joined => s.field = "content" /\ e.type = "result"
           /\ e.family = "anthropic" /\ Place(e, s) \in Joined =>
                /\ e.type \in {"block_start", "block_delta"}
                /\ s.field \in {"text", "thinking", "partial_json", "signature"}
           /\ e.family = "responses" /\ Place(e, s) \in Joined =>
                \/ e.type \in {"text_delta", "refusal_delta", "arguments_delta"} /\ s.field = "delta"
                \/ e.type = "part_added" /\ s.field \in {"text", "refusal"}
                \/ e.type = "item_added" /\ s.field = "arguments"
  BY DEF Place, Joined, Alone

\* The lane, the client's text and the kind of a text of an item.
Response(lane, text, n, kind) ==
    \/ lane = <<"responses", n, 0, "output_text.delta">> /\ text = <<n, 0, "text">> /\ kind = "text"
    \/ lane = <<"responses", n, 0, "refusal.delta">> /\ text = <<n, 0, "refusal">> /\ kind = "text"
    \/ /\ lane = <<"responses", n, 0, "function_call_arguments.delta">>
       /\ text = <<n, 0, "arguments">> /\ kind = "json"

\* Of two strings of one stream: the engine puts them in one lane exactly if the client
\* joins them, and the strings of a lane are treated alike.
LEMMA SamePlaces ==
    ASSUME NEW e, NEW f, NEW i \in Nat, NEW j \in Nat, NEW k \in Nat, NEW l \in Nat,
           e.family \in Families, f.family = e.family,
           i = j => e = f,
           Place(e, e.strings[k]) \in Joined \cup Alone, Place(f, f.strings[l]) \in Joined \cup Alone
    PROVE  /\ Lane(e, i, k) = Lane(f, j, l) <=> TextOf(e, i, k) = TextOf(f, j, l)
           /\ Lane(e, i, k) = Lane(f, j, l) =>
                Kind(e, e.strings[k].field) = Kind(f, f.strings[l].field)
<1> DEFINE s == e.strings[k]
           t == f.strings[l]
           P == Place(e, s)
           Q == Place(f, t)
           L == Lane(e, i, k)
           M == Lane(f, j, l)
           X == TextOf(e, i, k)
           Y == TextOf(f, j, l)
<1>1. /\ P \in Alone \/ P \in Joined
      /\ Q \in Alone \/ Q \in Joined
      /\ P \in Alone <=> P \notin Joined
      /\ Q \in Alone <=> Q \notin Joined
  BY PlaceKinds
<1>2. /\ P \in Alone => L = <<"event", i, k, "alone">> /\ X = <<i, k, "alone">>
      /\ Q \in Alone => M = <<"event", j, l, "alone">> /\ Y = <<j, l, "alone">>
  BY <1>1 DEF Lane, TextOf
<1> HIDE DEF L, M, X, Y
<1>3. CASE P \in Alone /\ Q \in Alone
  <2>1. L = M <=> i = j /\ k = l
    BY <1>2, <1>3
  <2>2. X = Y <=> i = j /\ k = l
    BY <1>2, <1>3
  <2>3. i = j /\ k = l => Kind(e, s.field) = Kind(f, t.field)
    OBVIOUS
  <2> QED
    BY <2>1, <2>2, <2>3 DEF L, M, X, Y
<1>4. CASE e.family = "chat"
  <2>1. /\ e.type = "chunk" /\ f.type = "chunk"
        /\ P \in Joined => s.field # "alone"
        /\ Q \in Joined => t.field # "alone"
    BY <1>4, PlaceKinds
  <2>2. P \in Joined => L = <<"chat", s.index, 0, s.field>> /\ X = <<s.index, 0, s.field>>
    BY <1>1, <1>4 DEF Lane, TextOf, L, X
  <2>3. Q \in Joined => M = <<"chat", t.index, 0, t.field>> /\ Y = <<t.index, 0, t.field>>
    BY <1>1, <1>4 DEF Lane, TextOf, M, Y
  <2>4. L = M <=> X = Y
    BY <1>1, <1>2, <2>1, <2>2, <2>3
  <2>5. P \in Joined /\ L = M => Kind(e, s.field) = Kind(f, t.field)
    BY <1>1, <1>2, <2>1, <2>2, <2>3 DEF Kind
  <2>6. P \in Alone /\ Q \in Joined => L # M
    BY <1>2, <2>3
  <2> QED
    BY <1>1, <1>3, <2>4, <2>5, <2>6 DEF L, M, X, Y
<1>5. CASE e.family = "gemini"
  <2>1. /\ P \in Joined => s.field = "text" /\ e.type = "chunk"
        /\ Q \in Joined => t.field = "text" /\ f.type = "chunk"
    BY <1>5, PlaceKinds
  <2>2. P \in Joined => L = <<"gemini", e.index, s.index, "text">> /\ X = <<e.index, s.index, "text">>
    BY <1>1, <1>5, <2>1 DEF Lane, TextOf, L, X
  <2>3. Q \in Joined => M = <<"gemini", f.index, t.index, "text">> /\ Y = <<f.index, t.index, "text">>
    BY <1>1, <1>5, <2>1 DEF Lane, TextOf, M, Y
  <2>4. L = M <=> X = Y
    BY <1>1, <1>2, <2>1, <2>2, <2>3
  <2>5. P \in Joined /\ L = M => Kind(e, s.field) = Kind(f, t.field)
    BY <1>1, <1>2, <2>1, <2>2, <2>3 DEF Kind
  <2>6. P \in Alone /\ Q \in Joined => L # M
    BY <1>2, <2>3
  <2> QED
    BY <1>1, <1>3, <2>4, <2>5, <2>6 DEF L, M, X, Y
<1>6. CASE e.family = "mcp"
  <2>1. /\ P \in Joined => s.field = "content" /\ e.type = "result"
        /\ Q \in Joined => t.field = "content" /\ f.type = "result"
    BY <1>6, PlaceKinds
  <2>2. P \in Joined => L = <<"mcp", i, 0, "content_text">> /\ X = <<i, 0, "content">>
    BY <1>1, <1>6, <2>1 DEF Lane, TextOf, L, X
  <2>3. Q \in Joined => M = <<"mcp", j, 0, "content_text">> /\ Y = <<j, 0, "content">>
    BY <1>1, <1>6, <2>1 DEF Lane, TextOf, M, Y
  <2>4. L = M <=> X = Y
    BY <1>1, <1>2, <2>1, <2>2, <2>3
  <2>5. P \in Joined /\ L = M => Kind(e, s.field) = Kind(f, t.field)
    BY <1>1, <1>2, <2>1, <2>2, <2>3 DEF Kind
  <2>6. P \in Alone /\ Q \in Joined => L # M
    BY <1>2, <2>3
  <2> QED
    BY <1>1, <1>3, <2>4, <2>5, <2>6 DEF L, M, X, Y
<1>7. CASE e.family = "anthropic"
  <2>1. /\ P \in Joined => s.field # "alone" /\ e.type \in {"block_start", "block_delta"}
        /\ Q \in Joined => t.field # "alone" /\ f.type \in {"block_start", "block_delta"}
    BY <1>7, PlaceKinds
  <2>2. P \in Joined => L = <<"anthropic", e.index, 0, s.field>> /\ X = <<e.index, 0, s.field>>
    BY <1>1, <1>7, <2>1 DEF Lane, TextOf, Channel, L, X
  <2>3. Q \in Joined => M = <<"anthropic", f.index, 0, t.field>> /\ Y = <<f.index, 0, t.field>>
    BY <1>1, <1>7, <2>1 DEF Lane, TextOf, Channel, M, Y
  <2>4. L = M <=> X = Y
    BY <1>1, <1>2, <2>1, <2>2, <2>3
  <2>5. P \in Joined /\ L = M => Kind(e, s.field) = Kind(f, t.field)
    BY <1>1, <1>2, <2>1, <2>2, <2>3 DEF Kind
  <2>6. P \in Alone /\ Q \in Joined => L # M
    BY <1>2, <2>3
  <2> QED
    BY <1>1, <1>3, <2>4, <2>5, <2>6 DEF L, M, X, Y
<1>8. CASE e.family = "responses"
  <2>1. P \in Joined => Response(L, X, e.index, Kind(e, s.field))
    <3> SUFFICES ASSUME P \in Joined PROVE Response(L, X, e.index, Kind(e, s.field))
      OBVIOUS
    <3>1. CASE e.type = "text_delta" \/ (e.type = "part_added" /\ s.field = "text")
      BY <1>1, <1>8, <3>1, PlaceKinds DEF Lane, TextOf, Channel, Kind, Structural, Response, L, X
    <3>2. CASE e.type = "refusal_delta" \/ (e.type = "part_added" /\ s.field = "refusal")
      BY <1>1, <1>8, <3>2, PlaceKinds DEF Lane, TextOf, Channel, Kind, Structural, Response, L, X
    <3>3. CASE e.type = "arguments_delta" \/ e.type = "item_added"
      BY <1>1, <1>8, <3>3, PlaceKinds DEF Lane, TextOf, Channel, Kind, Structural, Response, L, X
    <3>4. \/ e.type \in {"text_delta", "refusal_delta", "arguments_delta"}
          \/ e.type = "part_added" /\ s.field \in {"text", "refusal"}
          \/ e.type = "item_added"
      BY <1>8, PlaceKinds
    <3> QED
      BY <3>1, <3>2, <3>3, <3>4
  <2>2. Q \in Joined => Response(M, Y, f.index, Kind(f, t.field))
    <3> SUFFICES ASSUME Q \in Joined PROVE Response(M, Y, f.index, Kind(f, t.field))
      OBVIOUS
    <3>1. CASE f.type = "text_delta" \/ (f.type = "part_added" /\ t.field = "text")
      BY <1>1, <1>8, <3>1, PlaceKinds DEF Lane, TextOf, Channel, Kind, Structural, Response, M, Y
    <3>2. CASE f.type = "refusal_delta" \/ (f.type = "part_added" /\ t.field = "refusal")
      BY <1>1, <1>8, <3>2, PlaceKinds DEF Lane, TextOf, Channel, Kind, Structural, Response, M, Y
    <3>3. CASE f.type = "arguments_delta" \/ f.type = "item_added"
      BY <1>1, <1>8, <3>3, PlaceKinds DEF Lane, TextOf, Channel, Kind, Structural, Response, M, Y
    <3>4. \/ f.type \in {"text_delta", "refusal_delta", "arguments_delta"}
          \/ f.type = "part_added" /\ t.field \in {"text", "refusal"}
          \/ f.type = "item_added"
      BY <1>8, PlaceKinds
    <3> QED
      BY <3>1, <3>2, <3>3, <3>4
  <2>3. L = M <=> X = Y
    BY <1>1, <1>2, <2>1, <2>2 DEF Response
  <2>4. P \in Joined /\ L = M => Kind(e, s.field) = Kind(f, t.field)
    BY <1>1, <1>2, <2>1, <2>2 DEF Response
  <2>5. P \in Alone /\ Q \in Joined => L # M
    BY <1>2, <2>2 DEF Response
  <2> QED
    BY <1>1, <1>3, <2>3, <2>4, <2>5 DEF L, M, X, Y
<1> QED
  BY <1>4, <1>5, <1>6, <1>7, <1>8 DEF Families

-----------------------------------------------------------------------------
(* What is written back.                                                    *)

\* The strings collected are those of the payloads read, with their lanes.
RefsRead ==
    \A r \in 1 .. Len(refs) :
        /\ refs[r].event \in Places /\ HasPayload(input[refs[r].event])
        /\ refs[r].at \in 1 .. Len(input[refs[r].event].strings)
        /\ refs[r].lane = Lane(input[refs[r].event], refs[r].event, refs[r].at)
        /\ refs[r].kind = Kind(input[refs[r].event], input[refs[r].event].strings[refs[r].at].field)
        /\ refs[r].text = input[refs[r].event].strings[refs[r].at].text

Written(i) == IF refs[i].kind = "json" THEN Sliced(i) ELSE Starred(i)

\* What is written back, and what the lanes were checked for.
WrittenBack ==
    Released =>
        /\ output = [i \in 1 .. Len(refs) |-> Written(i)]
        /\ \A i \in 1 .. Len(refs) :
            /\ ~Suspicious(JoinedText(refs[i].lane))
            /\ Findings(JoinedText(refs[i].lane)) # {} => ResponsePolicy # "block"

\* A string of a stream.
LEMMA RefFacts ==
    ASSUME StreamIInv, RefsRead, NEW i \in 1 .. Len(refs)
    PROVE  /\ refs[i].text \in Seq(STRING) /\ refs[i].event \in Nat /\ refs[i].at \in Nat
           /\ input[refs[i].event].family = family /\ family \in Families
           /\ Place(input[refs[i].event], input[refs[i].event].strings[refs[i].at]) \in Joined \cup Alone
<1> DEFINE n == refs[i].event
           k == refs[i].at
           e == input[n]
<1>1. /\ n \in Places /\ HasPayload(e) /\ k \in 1 .. Len(e.strings)
      /\ refs[i].text = e.strings[k].text
  BY DEF RefsRead
<1>2. e \in Events /\ n \in Nat
  <2>1. input \in Seq(Events)
    BY DEF StreamIInv, StreamTyped
  <2> QED
    BY <1>1, <2>1, ElementOfSeq DEF Places
<1>3. e.family = family /\ family \in Families
  BY <1>1 DEF StreamIInv, OneFamily, HasPayload
<1>4. e.strings \in Seq(Strings)
  BY <1>2, EventAssumption
<1>5. e.strings[k] \in Strings
  BY <1>1, <1>4, ElementOfSeq
<1>6. e.strings[k].text \in Seq(STRING)
  BY <1>5 DEF Strings
<1>7. Place(e, e.strings[k]) \in Joined \cup Alone
  BY <1>1, <1>2, StringAssumption
<1>8. k \in Nat
  BY <1>1
<1> QED
  BY <1>1, <1>2, <1>3, <1>6, <1>7, <1>8

\* Lanes are the texts that clients join.
LEMMA LanesAreTexts ==
    ASSUME StreamIInv, RefsRead, NEW i \in 1 .. Len(refs), NEW j \in 1 .. Len(refs)
    PROVE  /\ refs[i].lane = refs[j].lane <=> ClientText(i) = ClientText(j)
           /\ refs[i].lane = refs[j].lane => refs[i].kind = refs[j].kind
<1> DEFINE n == refs[i].event
           k == refs[i].at
           m == refs[j].event
           l == refs[j].at
           e == input[n]
           f == input[m]
<1>1. /\ refs[i].lane = Lane(e, n, k) /\ refs[i].kind = Kind(e, e.strings[k].field)
      /\ refs[j].lane = Lane(f, m, l) /\ refs[j].kind = Kind(f, f.strings[l].field)
  BY DEF RefsRead
<1>2. /\ n \in Nat /\ k \in Nat /\ m \in Nat /\ l \in Nat
      /\ e.family \in Families /\ f.family = e.family
      /\ Place(e, e.strings[k]) \in Joined \cup Alone
      /\ Place(f, f.strings[l]) \in Joined \cup Alone
  BY RefFacts
<1>3. n = m => e = f
  OBVIOUS
<1>4. ClientText(i) = TextOf(e, n, k) /\ ClientText(j) = TextOf(f, m, l)
  BY ClientTextOf
<1> HIDE DEF e, f, n, m, k, l
<1>5. /\ Lane(e, n, k) = Lane(f, m, l) <=> TextOf(e, n, k) = TextOf(f, m, l)
      /\ Lane(e, n, k) = Lane(f, m, l) => Kind(e, e.strings[k].field) = Kind(f, f.strings[l].field)
  BY <1>2, <1>3, SamePlaces
<1> QED
  BY <1>1, <1>4, <1>5

\* A lane before and after it was written back, as the client joins it: a text is starred
\* where it has findings, an argument text is replaced by its redacted form.
LEMMA LaneReleased ==
    ASSUME StreamIInv, RefsRead, WrittenBack, Released, NEW i \in 1 .. Len(refs)
    PROVE  LET before == Reassembled(Received, ClientText(i))
               after  == Reassembled(output, ClientText(i))
           IN /\ before \in Seq(STRING) /\ before = JoinedText(refs[i].lane)
              /\ after = IF refs[i].kind = "json" THEN Mask(before, Findings(before))
                         ELSE Stars(before, Findings(before))
<1> DEFINE n == Len(refs)
           lane == refs[i].lane
           J == {j \in 1 .. n : refs[j].lane = lane}
           T == Received
           g == Parts(T, J, n)
           before == Prefix(g, n)
           found == Findings(before)
<1>1. n \in Nat
  BY LenProperties DEF StreamIInv, StreamTyped
<1>2. \A j \in 1 .. n : T[j] = refs[j].text /\ T[j] \in Seq(STRING)
  BY RefFacts DEF Received
<1>3. \A j \in 1 .. n : j \in J <=> ClientText(j) = ClientText(i)
  BY LanesAreTexts
<1>4. \A j \in 1 .. n : j \in J => refs[j].kind = refs[i].kind /\ refs[j].lane = lane
  BY LanesAreTexts
<1>5. i \in J
  OBVIOUS
<1>6. \A j \in 1 .. n : j \in J <=> refs[j].lane = lane
  OBVIOUS
<1> HIDE DEF n, J, T
<1>7. ASSUME NEW m \in 0 .. n
      PROVE  LaneText(lane, m) = Prefix(g, m)
  <2>1. [j \in 1 .. m |-> IF refs[j].lane = lane THEN refs[j].text ELSE <<>>] = [j \in 1 .. m |-> g[j]]
    <3>1. ASSUME NEW j \in 1 .. m
          PROVE  g[j] = IF refs[j].lane = lane THEN refs[j].text ELSE <<>>
      <4>1. j \in 1 .. n
        BY <1>1
      <4> QED
        BY <1>2, <1>6, <4>1 DEF Parts
    <3> HIDE DEF g
    <3> QED
      BY <3>1
  <2> QED
    BY <2>1 DEF LaneText, Prefix
<1>8. ASSUME NEW x
      PROVE  Reassembled(x, ClientText(i)) = Prefix(Parts(x, J, n), n)
  <2>1. [j \in 1 .. n |-> IF ClientText(j) = ClientText(i) THEN x[j] ELSE <<>>] = Parts(x, J, n)
    BY <1>3 DEF Parts
  <2>2. Parts(x, J, n) = [j \in 1 .. n |-> Parts(x, J, n)[j]]
    BY DEF Parts
  <2> QED
    BY <2>1, <2>2 DEF Reassembled, Prefix, n
<1>9. JoinedText(lane) = before
  <2>1. n \in 0 .. n
    BY <1>1
  <2> QED
    BY <1>7, <2>1 DEF JoinedText, n
<1>10. before \in Seq(STRING)
  <2>1. \A j \in 1 .. n : g[j] \in Seq(STRING)
    BY <1>2, EmptySeq DEF Parts
  <2> HIDE DEF g
  <2>2. \A m \in 0 .. n : Prefix(g, m) \in Seq(STRING)
    BY <1>1, <2>1, PrefixSteps
  <2>3. n \in 0 .. n
    BY <1>1
  <2> QED
    BY <2>2, <2>3
<1>11. ASSUME NEW j \in 1 .. n, j \in J
       PROVE  /\ Offset(j) = Len(Prefix(g, j - 1))
              /\ JoinedText(refs[j].lane) = before /\ refs[j].text = T[j]
              /\ output[j] = IF refs[i].kind = "json" THEN Sliced(j) ELSE Starred(j)
  <2>1. refs[j].lane = lane /\ refs[j].kind = refs[i].kind
    BY <1>4, <1>11
  <2>2. j - 1 \in 0 .. n
    BY <1>1
  <2>3. LaneText(lane, j - 1) = Prefix(g, j - 1)
    BY <1>7, <2>2
  <2>4. output[j] = Written(j)
    BY DEF WrittenBack, n
  <2> HIDE DEF g, lane, before
  <2> QED
    BY <1>2, <1>9, <2>1, <2>3, <2>4 DEF Offset, Written
<1> HIDE DEF before, lane
<1>12. CASE refs[i].kind # "json"
  <2>1. ASSUME NEW j \in 1 .. n, j \in J
        PROVE  output[j] = [k \in 1 .. Len(T[j]) |->
                             IF Covered(Len(Prefix(g, j - 1)) + k, found) THEN "*" ELSE T[j][k]]
    <3>1. output[j] = Starred(j)
      BY <1>11, <1>12, <2>1
    <3>2. /\ Offset(j) = Len(Prefix(g, j - 1)) /\ JoinedText(refs[j].lane) = before
          /\ refs[j].text = T[j]
      BY <1>11, <2>1
    <3> QED
      BY <3>1, <3>2 DEF Starred
  <2> HIDE DEF found
  <2>2. Prefix(Parts(output, J, n), n) = Stars(before, found)
    <3>1. Starring(output, T, J, n, found)
      BY <1>2, <2>1 DEF Starring
    <3> QED
      BY <1>1, <3>1, StarsJoin DEF before
  <2> QED
    BY <1>8, <1>9, <1>10, <1>12, <2>2 DEF before, lane, T, found
<1>13. CASE refs[i].kind = "json" /\ found # {}
  <2> DEFINE R == Mask(before, found)
  <2>1. R \in Seq(STRING)
    BY <1>10, MaskHides
  <2>2. ASSUME NEW j \in 1 .. n, j \in J
        PROVE  output[j] = SubSeq(R, Len(Prefix(g, j - 1)) + 1,
                                  IF \A k \in j + 1 .. n : k \notin J THEN Len(R)
                                  ELSE Shorter(Len(Prefix(g, j)), Len(R)))
    <3>1. output[j] = Sliced(j)
      BY <1>11, <1>13, <2>2
    <3>2. /\ Offset(j) = Len(Prefix(g, j - 1)) /\ JoinedText(refs[j].lane) = before
          /\ refs[j].text = T[j]
      BY <1>11, <2>2
    <3>3. LastOfLane(j) <=> \A k \in j + 1 .. n : k \notin J
      <4>1. refs[j].lane = lane
        BY <1>4, <2>2
      <4>2. \A k \in j + 1 .. n : k \in 1 .. n
        BY <1>1
      <4>3. \A k \in j + 1 .. n : k \in J <=> refs[k].lane = refs[j].lane
        BY <1>6, <4>1, <4>2
      <4> QED
        BY <4>3 DEF LastOfLane, n
    <3>4. Len(Prefix(g, j)) = Len(Prefix(g, j - 1)) + Len(T[j])
      <4> DEFINE c == [m \in 0 .. n |-> Len(Prefix(g, m))]
      <4>1. \A m \in 0 .. n : c[m] = Len(Prefix(g, m))
        OBVIOUS
      <4>2. \A m \in 1 .. n : g[m] \in Seq(STRING)
        BY <1>2, EmptySeq DEF Parts
      <4>3. g[j] = T[j]
        BY <2>2 DEF Parts
      <4> HIDE DEF c, g
      <4>4. Offsets(g, n, c)
        BY <1>1, <4>1, <4>2, PartsOfJoined
      <4>5. c[j] = c[j - 1] + Len(g[j])
        BY <4>4 DEF Offsets
      <4>6. j \in 0 .. n /\ j - 1 \in 0 .. n
        BY <1>1
      <4> QED
        BY <4>1, <4>3, <4>5, <4>6
    <3> HIDE DEF g
    <3>5. Sliced(j) = SubSeq(R, Offset(j) + 1, IF LastOfLane(j) THEN Len(R)
                                               ELSE Shorter(Offset(j) + Len(refs[j].text), Len(R)))
      BY <1>13, <3>2 DEF Sliced, found
    <3> HIDE DEF R
    <3> QED
      BY <3>1, <3>2, <3>3, <3>4, <3>5
  <2> HIDE DEF R
  <2>3. Prefix(Parts(output, J, n), n) = R
    <3>1. \E j \in 1 .. n : j \in J
      BY <1>5 DEF n
    <3>2. Slicing(output, T, J, n, R)
      BY <1>2, <2>2, <3>1 DEF Slicing
    <3> QED
      BY <1>1, <2>1, <3>2, SlicesJoin
  <2> QED
    BY <1>8, <1>9, <1>10, <1>13, <2>3 DEF before, lane, T, found, R
<1>14. CASE refs[i].kind = "json" /\ found = {}
  <2>1. ASSUME NEW j \in 1 .. n, j \in J
        PROVE  output[j] = T[j]
    <3>1. output[j] = Sliced(j) /\ JoinedText(refs[j].lane) = before /\ refs[j].text = T[j]
      BY <1>11, <1>14, <2>1
    <3> QED
      BY <1>14, <3>1 DEF Sliced, found
  <2>2. Parts(output, J, n) = g
    BY <2>1 DEF Parts
  <2>3. Mask(before, found) = before
    BY <1>10, <1>14, MaskNothing
  <2> HIDE DEF g, found
  <2>4. Prefix(Parts(output, J, n), n) = Mask(before, found)
    BY <2>2, <2>3 DEF before
  <2> QED
    BY <1>8, <1>9, <1>10, <1>14, <2>4 DEF before, lane, T, found, g
<1> QED
  BY <1>12, <1>13, <1>14

\* What the two properties ask of the text of one client.
LEMMA TextReleased ==
    ASSUME StreamIInv, RefsRead, WrittenBack, Released, NEW t \in ClientTexts
    PROVE  LET before == Reassembled(Received, t)
               after  == Reassembled(output, t)
           IN /\ before \in Seq(STRING) /\ ~Suspicious(before)
              /\ Findings(before) # {} => ResponsePolicy # "block"
              /\ Findings(after) = {} /\ ~Suspicious(after)
              /\ IF \E i \in 1 .. Len(refs) : ClientText(i) = t /\ refs[i].kind = "json"
                 THEN after = Mask(before, Findings(before))
                 ELSE \A k \in 1 .. Len(before) :
                        after[k] # before[k] => Covered(k, Findings(before))
<1> DEFINE before == Reassembled(Received, t)
           after == Reassembled(output, t)
           found == Findings(before)
<1>1. PICK i \in 1 .. Len(refs) : ClientText(i) = t
  BY DEF ClientTexts
<1>2. ASSUME NEW j \in 1 .. Len(refs), ClientText(j) = t
      PROVE  /\ before \in Seq(STRING) /\ before = JoinedText(refs[j].lane)
             /\ after = IF refs[j].kind = "json" THEN Mask(before, found) ELSE Stars(before, found)
  BY <1>2, LaneReleased
<1> HIDE DEF before, after
<1>3. /\ before \in Seq(STRING) /\ before = JoinedText(refs[i].lane)
  BY <1>1, <1>2
<1>4. /\ ~Suspicious(before)
      /\ found # {} => ResponsePolicy # "block"
  BY <1>3 DEF WrittenBack
<1> HIDE DEF found
<1>5. CASE \E j \in 1 .. Len(refs) : ClientText(j) = t /\ refs[j].kind = "json"
  <2>1. after = Mask(before, found)
    BY <1>2, <1>5
  <2>2. Findings(after) = {} /\ ~Suspicious(after)
    BY <1>3, <1>4, <2>1, MaskHides DEF found
  <2> QED
    BY <1>3, <1>4, <1>5, <2>1, <2>2 DEF before, after, found
<1>6. CASE ~\E j \in 1 .. Len(refs) : ClientText(j) = t /\ refs[j].kind = "json"
  <2>1. after = Stars(before, found)
    BY <1>1, <1>2, <1>6
  <2>2. /\ Findings(after) = {} /\ ~Suspicious(after)
        /\ \A k \in 1 .. Len(before) : after[k] # before[k] => Covered(k, found)
    BY <1>3, <1>4, <2>1, StarsHide DEF found
  <2> QED
    BY <1>3, <1>4, <1>6, <2>2 DEF before, after, found
<1> QED
  BY <1>5, <1>6

LEMMA HiddenFromInvariant ==
    ASSUME StreamIInv, RefsRead, WrittenBack
    PROVE  NothingDetectedIsReleased /\ OnlyFindingsAreHidden
<1>1. NothingDetectedIsReleased
  BY TextReleased DEF NothingDetectedIsReleased, Sensitive
<1>2. ASSUME Released, NEW i \in 1 .. Len(refs), refs[i].kind # "json"
      PROVE  Len(output[i]) = Len(refs[i].text)
  <2>1. output[i] = Starred(i)
    BY <1>2 DEF WrittenBack, Written
  <2>2. Len(refs[i].text) \in Nat
    BY RefFacts, LenProperties
  <2> QED
    BY <2>1, <2>2 DEF Starred
<1>3. OnlyFindingsAreHidden
  BY <1>2, TextReleased DEF OnlyFindingsAreHidden
<1> QED
  BY <1>1, <1>3

-----------------------------------------------------------------------------
(* The strings that are read and written back, step by step.               *)

\* A stream is released while its response is inspected.
ReleasedInResponse == Released => phase \in {"response", "done"}

\* What is known of the strings of a stream.
ContentIInv == RefsRead /\ WrittenBack /\ ReleasedInResponse

LEMMA CollectedFields ==
    ASSUME NEW e, NEW i, NEW k \in 1 .. Len(e.strings)
    PROVE  /\ Collected(e, i)[k].lane = Lane(e, i, k)
           /\ Collected(e, i)[k].kind = Kind(e, e.strings[k].field)
           /\ Collected(e, i)[k].event = i /\ Collected(e, i)[k].at = k
           /\ Collected(e, i)[k].text = e.strings[k].text
  BY DEF Collected

LEMMA RefsReadNext ==
    RefsRead' <=> \A r \in 1 .. Len(refs') :
        /\ refs'[r].event \in Places' /\ HasPayload(input'[refs'[r].event])
        /\ refs'[r].at \in 1 .. Len(input'[refs'[r].event].strings)
        /\ refs'[r].lane = Lane(input'[refs'[r].event], refs'[r].event, refs'[r].at)
        /\ refs'[r].kind = Kind(input'[refs'[r].event], input'[refs'[r].event].strings[refs'[r].at].field)
        /\ refs'[r].text = input'[refs'[r].event].strings[refs'[r].at].text
  BY DEF RefsRead, HasPayload, Lane, Kind, Place, Channel

LEMMA RefsOfPayload ==
    ASSUME StreamIInv, RefsRead, NEW e \in Events, ReadPayload(e)
    PROVE  RefsRead'
<1> DEFINE n == Len(input)
           m == Len(refs)
           new == Collected(e, n + 1)
           d == Len(e.strings)
<1>1. /\ n \in Nat /\ Places = 1 .. n /\ Places' = 1 .. n + 1 /\ Len(input') = n + 1
      /\ input'[n + 1] = e
      /\ \A i \in Places : input'[i] = input[i] /\ i \in Places'
  <2>1. input \in Seq(Events) /\ input' = Append(input, e)
    BY DEF StreamIInv, StreamTyped, ReadPayload
  <2> QED
    BY <2>1, AppendProperties, LenProperties DEF Places
<1>2. refs' = refs \o new /\ HasPayload(e)
  BY <1>1 DEF ReadPayload
<1>3. m \in Nat /\ d \in Nat
  BY LenProperties, EventAssumption DEF StreamIInv, StreamTyped
<1>4. Len(new) = d
  BY <1>3 DEF Collected
<1>5. /\ \A k \in 1 .. d : new[k].lane = Lane(e, n + 1, k)
      /\ \A k \in 1 .. d : new[k].kind = Kind(e, e.strings[k].field)
      /\ \A k \in 1 .. d : new[k].event = n + 1 /\ new[k].at = k
      /\ \A k \in 1 .. d : new[k].text = e.strings[k].text
  BY CollectedFields
<1>6. Len(refs') = m + d /\ \A r \in 1 .. m + d : refs'[r] = IF r <= m THEN refs[r] ELSE new[r - m]
  <2>1. PICK T : refs \in Seq(T)
    BY DEF StreamIInv, StreamTyped
  <2> DEFINE S == T \cup {new[k] : k \in 1 .. d}
  <2>2. new \in [1 .. d -> S]
    BY DEF Collected
  <2> HIDE DEF new, d
  <2>3. new \in Seq(S)
    BY <1>3, <2>2, SeqDef
  <2>4. refs \in Seq(S)
    <3>1. \A i \in 1 .. Len(refs) : refs[i] \in S
      BY <2>1, ElementOfSeq
    <3> HIDE DEF S
    <3> QED
      BY <2>1, <3>1, LenProperties, SeqDef
  <2> HIDE DEF S
  <2> QED
    BY <1>2, <1>4, <2>3, <2>4, ConcatProperties
<1> HIDE DEF n, m, new, d
<1>7. ASSUME NEW r \in 1 .. Len(refs')
      PROVE  /\ refs'[r].event \in Places' /\ HasPayload(input'[refs'[r].event])
             /\ refs'[r].at \in 1 .. Len(input'[refs'[r].event].strings)
             /\ refs'[r].lane = Lane(input'[refs'[r].event], refs'[r].event, refs'[r].at)
             /\ refs'[r].kind = Kind(input'[refs'[r].event], input'[refs'[r].event].strings[refs'[r].at].field)
             /\ refs'[r].text = input'[refs'[r].event].strings[refs'[r].at].text
  <2>1. CASE r <= m
    <3>1. r \in 1 .. Len(refs) /\ refs'[r] = refs[r]
      BY <1>3, <1>6, <2>1 DEF m
    <3>2. refs[r].event \in Places
      BY <3>1 DEF RefsRead
    <3>3. input'[refs[r].event] = input[refs[r].event] /\ refs[r].event \in Places'
      BY <1>1, <3>2
    <3> QED
      BY <3>1, <3>3 DEF RefsRead
  <2>2. CASE ~(r <= m)
    <3> DEFINE k == r - m
    <3>1. k \in 1 .. d
      BY <1>3, <1>6, <2>2
    <3>2. refs'[r] = new[k]
      BY <1>6, <2>2
    <3> HIDE DEF k
    <3>3. refs'[r].event = n + 1 /\ refs'[r].at = k
      BY <1>5, <3>1, <3>2
    <3>4. /\ refs'[r].lane = Lane(e, n + 1, k) /\ refs'[r].kind = Kind(e, e.strings[k].field)
          /\ refs'[r].text = e.strings[k].text
      BY <1>5, <3>1, <3>2
    <3>5. n + 1 \in Places' /\ input'[n + 1] = e
      BY <1>1
    <3> QED
      BY <1>2, <3>1, <3>3, <3>4, <3>5 DEF d
  <2> QED
    BY <2>1, <2>2
<1> QED
  BY <1>7, RefsReadNext

\* Events without payload are read.
LEMMA RefsOfOthers ==
    ASSUME StreamIInv, RefsRead, NEW e \in Events, input' = Append(input, e), refs' = refs
    PROVE  RefsRead'
<1>1. \A i \in Places : input'[i] = input[i] /\ i \in Places'
  <2>1. input \in Seq(Events)
    BY DEF StreamIInv, StreamTyped
  <2> QED
    BY <2>1, AppendProperties, LenProperties DEF Places
<1>2. ASSUME NEW r \in 1 .. Len(refs')
      PROVE  /\ refs'[r].event \in Places' /\ HasPayload(input'[refs'[r].event])
             /\ refs'[r].at \in 1 .. Len(input'[refs'[r].event].strings)
             /\ refs'[r].lane = Lane(input'[refs'[r].event], refs'[r].event, refs'[r].at)
             /\ refs'[r].kind = Kind(input'[refs'[r].event], input'[refs'[r].event].strings[refs'[r].at].field)
             /\ refs'[r].text = input'[refs'[r].event].strings[refs'[r].at].text
  <2>1. r \in 1 .. Len(refs) /\ refs'[r] = refs[r]
    OBVIOUS
  <2>2. refs[r].event \in Places
    BY <2>1 DEF RefsRead
  <2>3. input'[refs[r].event] = input[refs[r].event] /\ refs[r].event \in Places'
    BY <1>1, <2>2
  <2> QED
    BY <2>1, <2>3 DEF RefsRead
<1> QED
  BY <1>2, RefsReadNext

LEMMA RaiseContent ==
    ASSUME NEW reason, RaiseSse(reason), reason # "released"
    PROVE  ContentIInv'
<1>1. refs' = <<>> /\ outcome' = reason
  BY DEF RaiseSse
<1>2. RefsRead'
  BY <1>1 DEF RefsRead
<1>3. ~Released'
  BY <1>1 DEF Released
<1> QED
  BY <1>2, <1>3 DEF ContentIInv, WrittenBack, ReleasedInResponse

LEMMA ReleaseContent ==
    ASSUME StreamIInv, RefsRead, Release(ResponsePolicy), phase' = "response",
           ResponsePolicy' = ResponsePolicy
    PROVE  ContentIInv'
<1>1. /\ input' = input /\ refs' = refs
      /\ output' = [i \in 1 .. Len(refs) |-> Written(i)]
  BY DEF Release, parser, Written
<1>2. RefsRead'
  BY <1>1 DEF RefsRead, Places
<1>3. \A i \in 1 .. Len(refs) :
        /\ ~Suspicious(JoinedText(refs[i].lane))
        /\ Findings(JoinedText(refs[i].lane)) # {} => ResponsePolicy # "block"
  <2>1. Len(refs) \in Nat
    BY LenProperties DEF StreamIInv, StreamTyped
  <2> QED
    BY <2>1, EndLists DEF Release, Complete
<1>4. WrittenBack'
  <2>1. ASSUME NEW l PROVE JoinedText(l)' = JoinedText(l)
    BY <1>1 DEF JoinedText, LaneText
  <2>2. ASSUME NEW i PROVE Written(i)' = Written(i)
    BY <1>1 DEF Written, Sliced, Starred, JoinedText, LaneText, Offset, LastOfLane
  <2> QED
    BY <1>1, <1>3, <2>1, <2>2 DEF WrittenBack
<1> QED
  BY <1>2, <1>4 DEF ContentIInv, ReleasedInResponse

LEMMA SameContent ==
    ASSUME ContentIInv, sse' = sse,
           Released => ResponsePolicy' = ResponsePolicy /\ phase' \in {"response", "done"}
    PROVE  ContentIInv'
<1>1. input' = input /\ refs' = refs /\ output' = output /\ outcome' = outcome
  BY DEF sse
<1>2. RefsRead'
  BY <1>1 DEF ContentIInv, RefsRead, Places
<1>3. WrittenBack'
  <2>1. ASSUME NEW l PROVE JoinedText(l)' = JoinedText(l)
    BY <1>1 DEF JoinedText, LaneText
  <2>2. ASSUME NEW i PROVE Written(i)' = Written(i)
    BY <1>1 DEF Written, Sliced, Starred, JoinedText, LaneText, Offset, LastOfLane
  <2> QED
    BY <1>1, <2>1, <2>2 DEF ContentIInv, WrittenBack, Released
<1>4. ReleasedInResponse'
  BY <1>1 DEF ReleasedInResponse, Released
<1> QED
  BY <1>2, <1>3, <1>4 DEF ContentIInv

\* The reasons for which a response or a stream is refused.
LEMMA NeverReleased ==
    /\ "released" \notin ResponseReasons /\ "released" \notin Refusals
    /\ "released" \notin {"incomplete_sse_event", "invalid_utf8"}
  BY DEF ResponseReasons, MessageReasons, ScanReasons, JsonReasons, LlmReasons, StructureReasons,
         Refusals

LEMMA ReadContent ==
    ASSUME StreamIInv, ContentIInv, ReadStream
    PROVE  ContentIInv'
<1>1. /\ phase = "response" /\ phase' = "response" /\ verdict' = verdict /\ settings' = settings
      /\ ReadSse(ResponsePolicy)
  BY DEF ReadStream, config
<1>2. ResponsePolicy' = ResponsePolicy
  BY <1>1 DEF ResponsePolicy, RoutePolicy
<1>3. ASSUME NEW r \in {"incomplete_sse_event", "invalid_utf8"}, Malformed(r) PROVE ContentIInv'
  BY <1>3, RaiseContent, NeverReleased DEF Malformed
<1>4. ASSUME NEW e \in Events, Refuse(e) PROVE ContentIInv'
  <2>1. FirstReason(EventChecks(e)) # "released"
    BY NeverReleased, EventList
  <2> QED
    BY <1>4, <2>1, RaiseContent DEF Refuse
<1>5. ASSUME NEW e \in Events, ReadComment(e) \/ ReadDone(e) \/ ReadPayload(e) PROVE ContentIInv'
  <2>1. RefsRead'
    <3>1. CASE ReadComment(e)
      BY <3>1, RefsOfOthers DEF ReadComment, parser, ContentIInv
    <3>2. CASE ReadDone(e)
      BY <3>2, RefsOfOthers DEF ReadDone, ContentIInv
    <3>3. CASE ReadPayload(e)
      BY <3>3, RefsOfPayload DEF ContentIInv
    <3> QED
      BY <1>5, <3>1, <3>2, <3>3
  <2>2. ~Released'
    BY <1>5 DEF ReadComment, ReadDone, ReadPayload, Reading, Released
  <2> QED
    BY <2>1, <2>2 DEF ContentIInv, WrittenBack, ReleasedInResponse
<1>6. ASSUME Release(ResponsePolicy) PROVE ContentIInv'
  BY <1>1, <1>2, <1>6, ReleaseContent DEF ContentIInv
<1>7. ASSUME RefuseStream(ResponsePolicy) PROVE ContentIInv'
  <2>1. FirstReason(EndChecks(ResponsePolicy)) # "released"
    <3>1. Len(refs) \in Nat
      BY LenProperties DEF StreamIInv, StreamTyped
    <3> QED
      BY <3>1, NeverReleased, EndLists
  <2> QED
    BY <1>7, <2>1, RaiseContent DEF RefuseStream
<1> QED
  BY <1>1, <1>3, <1>4, <1>5, <1>6, <1>7 DEF ReadSse

LEMMA ContentInit == Init => ContentIInv
<1> SUFFICES ASSUME Init PROVE ContentIInv
  OBVIOUS
<1>1. refs = <<>> /\ outcome = "reading"
  BY DEF Init, SseInit
<1>2. RefsRead
  BY <1>1 DEF RefsRead
<1>3. ~Released
  BY <1>1 DEF Released
<1> QED
  BY <1>2, <1>3 DEF ContentIInv, WrittenBack, ReleasedInResponse

\* Before its response is inspected there is no stream of an exchange.
LEMMA RequestSteps ==
    ASSUME \/ PassCheck
           \/ \E p \in DOMAIN Reasons : \E r \in Reasons[p] : Raise(r)
           \/ Unavailable \/ Redact \/ Verify \/ TrustSource
           \/ \E a \in {"allow", "block", "approval_required"} : Ask(a)
           \/ \E r \in Unmapped, s \in {"clean", "suspicious_instruction", "invalid_json",
                                        "unsupported_media", "unavailable"} : InspectUnmapped(r, s)
           \/ \E m \in {"json", "plain", "sse", "other", "empty"}, t \in Texts : Respond(m, t)
    PROVE  sse' = sse /\ phase \notin {"response", "done"}
  BY DEF PassCheck, Raise, Unavailable, Redact, Verify, TrustSource, Ask, InspectUnmapped, Respond,
         Order, Reasons

LEMMA ContentNext == RequestIInv /\ StreamIInv /\ ContentIInv /\ [Next]_vars => ContentIInv'
<1> SUFFICES ASSUME RequestIInv, StreamIInv, ContentIInv, [Next]_vars PROVE ContentIInv'
  OBVIOUS
<1>1. CASE \E r \in ResponseReasons : RaiseResponse(r)
  BY <1>1, RaiseContent, NeverReleased DEF RaiseResponse
<1>2. CASE ReadStream
  BY <1>2, ReadContent
<1>3. CASE \/ PassCheck
           \/ \E p \in DOMAIN Reasons : \E r \in Reasons[p] : Raise(r)
           \/ Unavailable \/ Redact \/ Verify \/ TrustSource
           \/ \E a \in {"allow", "block", "approval_required"} : Ask(a)
           \/ \E r \in Unmapped, s \in {"clean", "suspicious_instruction", "invalid_json",
                                        "unsupported_media", "unavailable"} : InspectUnmapped(r, s)
           \/ \E m \in {"json", "plain", "sse", "other", "empty"}, t \in Texts : Respond(m, t)
  <2>1. sse' = sse /\ phase \notin {"response", "done"}
    BY <1>3, RequestSteps
  <2>2. ~Released
    BY <2>1 DEF ContentIInv, ReleasedInResponse
  <2> QED
    BY <2>1, <2>2, SameContent
<1>4. CASE RespondEmpty \/ RespondText \/ RespondStream
  <2>1. /\ sse' = sse /\ verdict' = verdict /\ settings' = settings /\ phase' = "done"
    BY <1>4 DEF RespondEmpty, RespondText, RespondStream, Answer, config
  <2>2. ResponsePolicy' = ResponsePolicy
    BY <2>1 DEF ResponsePolicy, RoutePolicy
  <2> QED
    BY <2>1, <2>2, SameContent
<1>5. CASE UNCHANGED vars
  <2>1. sse' = sse /\ verdict' = verdict /\ settings' = settings /\ phase' = phase
    BY <1>5 DEF vars, config
  <2>2. ResponsePolicy' = ResponsePolicy
    BY <2>1 DEF ResponsePolicy, RoutePolicy
  <2>3. Released => phase' \in {"response", "done"}
    BY <2>1 DEF ContentIInv, ReleasedInResponse
  <2> QED
    BY <2>1, <2>2, <2>3, SameContent
<1> QED
  BY <1>1, <1>2, <1>3, <1>4, <1>5 DEF Next

\* The invariant of the strings of a stream: each is of a payload that was read, and what
\* is written back of it is its part of what its lane became.
THEOREM ContentInvariantHolds == Spec => []ContentIInv
<1>1. RequestIInv /\ StreamIInv /\ ContentIInv /\ [Next]_vars => ContentIInv'
  BY ContentNext
<1> QED
  BY <1>1, ContentInit, RequestInvariantHolds, StreamInvariantHolds, PTL DEF Spec

\* Nothing sensitive reaches the client, however it was cut up over the events and
\* interleaved with other texts.
THEOREM NothingSensitiveIsReleased == Spec => []NothingDetectedIsReleased
<1>1. StreamIInv /\ ContentIInv => NothingDetectedIsReleased
  BY HiddenFromInvariant DEF ContentIInv
<1> QED
  BY <1>1, StreamInvariantHolds, ContentInvariantHolds, PTL

\* Redaction hides findings and nothing else: plain fragments keep their length and the
\* characters outside findings, argument fragments join to the redacted arguments.
THEOREM FindingsAreHidden == Spec => []OnlyFindingsAreHidden
<1>1. StreamIInv /\ ContentIInv => OnlyFindingsAreHidden
  BY HiddenFromInvariant DEF ContentIInv
<1> QED
  BY <1>1, StreamInvariantHolds, ContentInvariantHolds, PTL

-----------------------------------------------------------------------------
(* inspect_response.                                                        *)

\* The setting that applies is the first that is set.
LEMMA PolicyIsSelected ==
    settings \in Settings => PiiPolicy = Selected /\ PiiPolicy \in {"redact", "block"}
<1> SUFFICES ASSUME settings \in Settings
             PROVE  PiiPolicy = Selected /\ PiiPolicy \in {"redact", "block"}
  OBVIOUS
<1> DEFINE s == <<settings.tool, settings.route, settings.global>>
           I == {i \in 1 .. Len(s) : s[i] # "unset"}
<1>1. /\ settings.global \in {"redact", "block"}
      /\ settings.tool \in {"redact", "block", "unset"} /\ settings.route \in {"redact", "block", "unset"}
  BY ConfigAssumption
<1>2. Len(s) = 3 /\ s[1] = settings.tool /\ s[2] = settings.route /\ s[3] = settings.global
  OBVIOUS
<1>3. SelectInSeq(s, LAMBDA a : a # "unset") = IF I # {} THEN Min(I) ELSE 0
  BY DEF SelectInSeq
<1>4. Selected = s[SelectInSeq(s, LAMBDA a : a # "unset")]
  BY DEF Selected
<1> HIDE DEF s
<1>5. I = {i \in {1, 2, 3} : s[i] # "unset"}
  BY <1>2
<1> HIDE DEF I
<1>6. CASE settings.tool # "unset"
  <2>1. 1 \in I /\ \A i \in I : 1 <= i
    BY <1>2, <1>5, <1>6
  <2>2. Min(I) = 1
    BY <2>1, <1>5 DEF Min
  <2> QED
    BY <1>1, <1>2, <1>3, <1>4, <1>6, <2>1, <2>2 DEF PiiPolicy
<1>7. CASE settings.tool = "unset" /\ settings.route # "unset"
  <2>1. 2 \in I /\ \A i \in I : 2 <= i
    BY <1>2, <1>5, <1>7
  <2>2. Min(I) = 2
    BY <2>1, <1>5 DEF Min
  <2> QED
    BY <1>1, <1>2, <1>3, <1>4, <1>7, <2>1, <2>2 DEF PiiPolicy, RoutePolicy
<1>8. CASE settings.tool = "unset" /\ settings.route = "unset"
  <2>1. 3 \in I /\ \A i \in I : 3 <= i
    BY <1>1, <1>2, <1>5, <1>8
  <2>2. Min(I) = 3
    BY <2>1, <1>5 DEF Min
  <2> QED
    BY <1>1, <1>2, <1>3, <1>4, <1>8, <2>1, <2>2 DEF PiiPolicy, RoutePolicy
<1> QED
  BY <1>6, <1>7, <1>8

LEMMA SameSelected ==
    ASSUME settings \in Settings, settings' = settings
    PROVE  Selected' = Selected
<1>1. PiiPolicy = Selected
  BY PolicyIsSelected
<1>2. (settings \in Settings)'
  OBVIOUS
<1>3. (PiiPolicy = Selected)'
  BY <1>2, PolicyIsSelected, PTL
<1>4. PiiPolicy' = PiiPolicy
  BY DEF PiiPolicy, RoutePolicy
<1> QED
  BY <1>1, <1>3, <1>4

\* Inline, a request that is sent carries the policy that was selected for it.
PolicyIsKept ==
    mode = "inline" =>
        /\ phase \in {"scan", "redact", "verify", "trust", "ask", "response", "done"} =>
            verdict.pii = PiiPolicy
        /\ phase = "decided" /\ Sent(verdict) => verdict.pii = PiiPolicy

\* A response that is no event stream has a text, or none.
BodyIsKept ==
    phase \in {"response", "done"} =>
        body \in Seq(STRING) /\ (media \notin {"json", "plain"} => body = <<>>)

\* The inductive invariant of inspect_response.
ResponseIInv == PolicyIsKept /\ BodyIsKept /\ ResponseFollowsPolicy

\* A policy is kept by what changes other fields of a verdict.
LEMMA PolicyOfVerdict ==
    ASSUME NEW v \in Verdicts
    PROVE  /\ Permitted(v).pii = v.pii
           /\ \A e, b : [v EXCEPT !.entities = e, !.body = b].pii = v.pii
           /\ \A e : [v EXCEPT !.entities = e].pii = v.pii
           /\ \A b : [v EXCEPT !.body = b].pii = v.pii
           /\ \A p : [v EXCEPT !.pii = p].pii = p
  BY DEF Verdicts, Permitted

LEMMA Unanswered ==
    ASSUME phase' # "done"
    PROVE  ResponseFollowsPolicy'
  BY DEF ResponseFollowsPolicy

LEMMA NoBodyYet ==
    ASSUME phase' \notin {"response", "done"}
    PROVE  BodyIsKept'
  BY DEF BodyIsKept

LEMMA RequestKeepsPolicy ==
    ASSUME RequestIInv, ResponseIInv,
           \/ PassCheck
           \/ \E p \in DOMAIN Reasons : \E r \in Reasons[p] : Raise(r)
           \/ Unavailable \/ Redact \/ Verify \/ TrustSource
           \/ \E a \in {"allow", "block", "approval_required"} : Ask(a)
           \/ \E r \in Unmapped, s \in {"clean", "suspicious_instruction", "invalid_json",
                                        "unsupported_media", "unavailable"} : InspectUnmapped(r, s)
    PROVE  ResponseIInv'
<1>1. /\ phase' \notin {"response", "done"} /\ mode' = mode /\ settings' = settings
  <2>1. CASE PassCheck
    BY <2>1 DEF PassCheck, Order, config
  <2>2. CASE Redact
    BY <2>2 DEF Redact, config
  <2>3. CASE Verify \/ TrustSource \/ Unavailable
    BY <2>3 DEF Verify, TrustSource, Unavailable, config
  <2>4. CASE \E p \in DOMAIN Reasons : \E r \in Reasons[p] : Raise(r)
    BY <2>4 DEF Raise, config
  <2>5. CASE \E a \in {"allow", "block", "approval_required"} : Ask(a)
    BY <2>5 DEF Ask, config
  <2>6. CASE \E r \in Unmapped, s \in {"clean", "suspicious_instruction", "invalid_json",
                                      "unsupported_media", "unavailable"} : InspectUnmapped(r, s)
    BY <2>6 DEF InspectUnmapped, config
  <2> QED
    BY <2>1, <2>2, <2>3, <2>4, <2>5, <2>6
<1>2. PiiPolicy' = PiiPolicy
  BY <1>1 DEF PiiPolicy, RoutePolicy
<1>3. verdict \in Verdicts /\ mode \in {"inline", "mirror"} /\ PolicyIsKept
  BY DEF RequestIInv, RequestTyped, ResponseIInv
<1> SUFFICES ASSUME mode = "inline" PROVE PolicyIsKept'
  BY <1>1, Unanswered, NoBodyYet DEF ResponseIInv, PolicyIsKept
<1>4. CASE PassCheck
  <2>1. phase \in {"validate", "metadata", "parse", "scan"} /\ phase' = Order[phase]
    BY <1>4 DEF PassCheck, Order
  <2>2. CASE phase = "parse"
    BY <1>2, <1>3, <1>4, <2>2, PolicyOfVerdict DEF PassCheck, PolicyIsKept, Order
  <2>3. CASE phase # "parse"
    BY <1>2, <1>3, <1>4, <2>1, <2>3 DEF PassCheck, PolicyIsKept, Order
  <2> QED
    BY <2>2, <2>3
<1>5. CASE \E p \in DOMAIN Reasons : \E r \in Reasons[p] : Raise(r)
  <2>1. PICK r : Raise(r)
    BY <1>5
  <2>2. r \in Words
    BY <2>1 DEF Raise, Words, RequestReasons
  <2>3. ~Sent(verdict') /\ phase' = "decided"
    BY <1>3, <2>1, <2>2, FailedFacts DEF Raise
  <2> QED
    BY <2>3 DEF PolicyIsKept, Sent
<1>6. CASE Unavailable
  <2>1. verdict'.action = "block" /\ phase' = "decided"
    BY <1>6 DEF Unavailable, NoVerdict
  <2> QED
    BY <2>1 DEF PolicyIsKept, Sent
<1>7. CASE Redact
  <2> DEFINE found == [verdict EXCEPT !.entities = HasFindings(Content(request))]
             reason == FirstReason(RedactChecks(request, verdict.pii))
             new == [field |-> Masked(request.field), resource |-> Masked(request.resource)]
             b == IF new = Content(request) THEN NoContent ELSE new
  <2>1. found \in Verdicts /\ found.pii = verdict.pii
    <3>1. HasFindings(Content(request)) \in BOOLEAN
      BY DEF HasFindings
    <3> QED
      BY <1>3, <3>1, VerdictNotes, PolicyOfVerdict
  <2>2. phase = "redact" /\ verdict.pii = PiiPolicy
    BY <1>3, <1>7 DEF Redact, PolicyIsKept
  <2>3. \/ phase' = "verify" /\ verdict' = [found EXCEPT !.body = b]
        \/ reason # "none" /\ phase' = "decided" /\ verdict' = Failed(found, reason)
    BY <1>7 DEF Redact
  <2>4. reason \in Refusals \cup {"none"}
    BY RedactReasons
  <2> HIDE DEF found, reason, new, b
  <2>5. CASE phase' = "verify" /\ verdict' = [found EXCEPT !.body = b]
    BY <1>2, <2>1, <2>2, <2>5, PolicyOfVerdict DEF PolicyIsKept
  <2>6. CASE reason # "none" /\ phase' = "decided" /\ verdict' = Failed(found, reason)
    <3>1. reason \in Words
      BY <2>4, <2>6 DEF Words
    <3>2. ~Sent(verdict')
      BY <1>3, <2>1, <2>6, <3>1, FailedFacts
    <3> QED
      BY <2>6, <3>2 DEF PolicyIsKept, Sent
  <2> QED
    BY <2>3, <2>5, <2>6
<1>8. CASE Verify
  <2>1. phase = "verify" /\ verdict' = verdict
    BY <1>8 DEF Verify
  <2> QED
    BY <1>2, <1>3, <2>1 DEF PolicyIsKept
<1>9. CASE TrustSource
  <2>1. phase = "trust" /\ verdict' = Permitted(verdict)
    BY <1>9 DEF TrustSource
  <2> QED
    BY <1>2, <1>3, <2>1, PolicyOfVerdict DEF PolicyIsKept
<1>10. CASE \E a \in {"allow", "block", "approval_required"} : Ask(a)
  <2>1. PICK a \in {"allow", "block", "approval_required"} : Ask(a)
    BY <1>10
  <2>2. phase = "ask" /\ phase' = "decided" /\ verdict.pii = PiiPolicy
    BY <1>3, <2>1 DEF Ask, PolicyIsKept
  <2>3. CASE a = "allow"
    <3>1. verdict' = Permitted(verdict)
      BY <2>1, <2>3 DEF Ask
    <3> QED
      BY <1>2, <1>3, <2>2, <3>1, PolicyOfVerdict DEF PolicyIsKept
  <2>4. CASE a # "allow"
    <3>1. verdict' = Stripped(verdict, a, "broker", NoContent)
      BY <2>1, <2>4 DEF Ask, Stripped
    <3>2. a \in Actions /\ "broker" \in Words
      BY DEF Actions, Words, Results
    <3>3. verdict'.action = a
      BY <1>3, <3>1, <3>2, VerdictStripped, NoVerdictFacts
    <3> QED
      BY <2>2, <2>4, <3>3 DEF PolicyIsKept, Sent
  <2> QED
    BY <2>3, <2>4
<1>11. CASE \E r \in Unmapped, s \in {"clean", "suspicious_instruction", "invalid_json",
                                      "unsupported_media", "unavailable"} : InspectUnmapped(r, s)
  BY <1>11 DEF InspectUnmapped
<1> QED
  BY <1>4, <1>5, <1>6, <1>7, <1>8, <1>9, <1>10, <1>11

\* What upstream sent held something that was to be found.
Dirty ==
    IF media = "sse" THEN Sensitive(Received) ELSE Findings(body) # {} \/ Suspicious(body)

LEMMA SameTexts ==
    ASSUME sse' = sse
    PROVE  Sensitive(Received)' = Sensitive(Received)
<1>1. input' = input /\ refs' = refs
  BY DEF sse
<1>2. ASSUME NEW i PROVE ClientText(i)' = ClientText(i)
  BY <1>1 DEF ClientText, Place
<1>3. ClientTexts' = ClientTexts
  BY <1>1, <1>2 DEF ClientTexts
<1>4. Received' = Received
  BY <1>1 DEF Received
<1>5. ASSUME NEW t PROVE Reassembled(Received, t)' = Reassembled(Received, t)
  <2>1. [i \in 1 .. Len(refs') |-> IF ClientText(i)' = t THEN Received'[i] ELSE <<>>]
        = [i \in 1 .. Len(refs) |-> IF ClientText(i) = t THEN Received[i] ELSE <<>>]
    BY <1>1, <1>2, <1>4
  <2> QED
    BY <2>1 DEF Reassembled
<1> QED
  BY <1>3, <1>5 DEF Sensitive

LEMMA AnswerKeeps ==
    ASSUME RequestIInv, ResponseIInv, phase = "response", NEW r, Answer(r)
    PROVE  PolicyIsKept' /\ BodyIsKept'
<1>1. /\ mode' = mode /\ settings' = settings /\ verdict' = verdict /\ media' = media
      /\ body' = body /\ phase' = "done"
  BY DEF Answer, config
<1>2. PolicyIsKept'
  BY <1>1 DEF ResponseIInv, PolicyIsKept, PiiPolicy, RoutePolicy
<1>3. BodyIsKept'
  BY <1>1 DEF ResponseIInv, BodyIsKept
<1> QED
  BY <1>2, <1>3

LEMMA RefusedKeeps ==
    ASSUME RequestIInv, ResponseIInv, phase = "response", NEW reason, Answer(Refused(reason))
    PROVE  ResponseIInv'
<1>1. response' = Refused(reason)
  BY DEF Answer
<1>2. response'.action \in {"block", "unknown"}
  BY <1>1 DEF Refused
<1>3. ResponseFollowsPolicy'
  BY <1>2 DEF ResponseFollowsPolicy, Sent
<1> QED
  BY <1>3, AnswerKeeps DEF ResponseIInv

LEMMA AnsweredKeeps ==
    ASSUME RequestIInv, ResponseIInv, phase = "response", NEW r, Answer(r), sse' = sse,
           r.action = "allow" <=> ~Dirty,
           mode = "inline" /\ Dirty => Selected = "redact"
    PROVE  ResponseIInv'
<1>1. /\ response' = r /\ media' = media /\ body' = body /\ mode' = mode /\ settings' = settings
  BY DEF Answer, config
<1>2. Dirty' = Dirty
  BY <1>1, SameTexts DEF Dirty
<1>3. Selected' = Selected
  BY <1>1, SameSelected DEF RequestIInv, RequestTyped
<1>4. ResponseFollowsPolicy' <=>
        (phase' = "done" /\ Sent(response)' =>
            /\ response'.action = "allow" <=> ~Dirty'
            /\ mode' = "inline" /\ Dirty' => Selected' = "redact")
  BY DEF ResponseFollowsPolicy, Dirty
<1>5. ResponseFollowsPolicy'
  BY <1>1, <1>2, <1>3, <1>4
<1> QED
  BY <1>5, AnswerKeeps DEF ResponseIInv

\* Inline, a response that was not to be blocked was to be redacted.
LEMMA NotBlocked ==
    ASSUME RequestIInv, ResponseIInv, phase = "response", mode = "inline", ResponsePolicy # "block"
    PROVE  Selected = "redact"
<1>1. verdict.pii = PiiPolicy /\ settings \in Settings
  BY DEF RequestIInv, RequestTyped, ResponseIInv, PolicyIsKept
<1>2. PiiPolicy = Selected /\ PiiPolicy \in {"redact", "block"}
  BY <1>1, PolicyIsSelected
<1> QED
  BY <1>1, <1>2 DEF ResponsePolicy

LEMMA CleanText ==
    ASSUME NEW text \in Seq(STRING)
    PROVE  Masked(text) = text <=> Findings(text) = {}
<1>1. Findings(text) = {} => Masked(text) = text
  BY MaskNothing DEF Masked
<1>2. Findings(Masked(text)) = {}
  BY MaskHides DEF Masked
<1> QED
  BY <1>1, <1>2

LEMMA TextReasons ==
    ASSUME NEW text, NEW policy
    PROVE  LET reason == FirstReason(<< <<Suspicious(text), "suspicious_instruction">>,
                                        <<Findings(text) # {} /\ policy = "block", "pii_block_policy">> >>)
           IN reason = "none" => ~Suspicious(text) /\ (Findings(text) # {} => policy # "block")
<1> DEFINE c1 == Suspicious(text)
           c2 == Findings(text) # {} /\ policy = "block"
           checks == << <<c1, "suspicious_instruction">>, <<c2, "pii_block_policy">> >>
<1>1. c1 \in BOOLEAN /\ c2 \in BOOLEAN
  BY DEF Suspicious
<1> HIDE DEF c1, c2
<1>2. <<c1, "suspicious_instruction">> \in Checks /\ <<c2, "pii_block_policy">> \in Checks
  BY <1>1 DEF Checks, Refusals
<1>3. checks \in Seq(Checks) /\ Len(checks) = 2 /\ checks[1][1] = c1 /\ checks[2][1] = c2
  BY <1>2
<1> HIDE DEF checks
<1>4. FirstReason(checks) = "none" => Clear(checks)
  BY <1>3, FirstOfList
<1>5. FirstReason(checks) = "none" => ~c1 /\ ~c2
  BY <1>3, <1>4 DEF Clear
<1> QED
  BY <1>5 DEF c1, c2, checks

LEMMA RespondTextStep ==
    ASSUME RequestIInv, ResponseIInv, RespondText
    PROVE  ResponseIInv'
<1> DEFINE reason == FirstReason(<< <<Suspicious(body), "suspicious_instruction">>,
                                    <<Findings(body) # {} /\ ResponsePolicy = "block", "pii_block_policy">> >>)
           redacted == [action |-> "redact", reason |-> "response_pii_redacted",
                        body |-> Masked(body), complete |-> TRUE]
<1>1. /\ phase = "response" /\ media \in {"json", "plain"} /\ sse' = sse
      /\ Answer(IF reason # "none" THEN Refused(reason)
                ELSE IF Masked(body) = body THEN Clean ELSE redacted)
  BY DEF RespondText
<1>2. body \in Seq(STRING)
  BY <1>1 DEF ResponseIInv, BodyIsKept
<1>3. CASE reason # "none"
  BY <1>1, <1>3, RefusedKeeps
<1>4. CASE reason = "none"
  <2>1. ~Suspicious(body) /\ (Findings(body) # {} => ResponsePolicy # "block")
    BY <1>4, TextReasons
  <2> HIDE DEF reason
  <2>2. Dirty <=> Findings(body) # {}
    BY <1>1, <2>1 DEF Dirty
  <2>3. mode = "inline" /\ Dirty => Selected = "redact"
    BY <1>1, <2>1, <2>2, NotBlocked
  <2>4. CASE Masked(body) = body
    <3>1. Answer(Clean) /\ Clean.action = "allow" /\ ~Dirty
      BY <1>1, <1>2, <1>4, <2>2, <2>4, CleanText DEF Clean
    <3> QED
      BY <1>1, <2>3, <3>1, AnsweredKeeps
  <2>5. CASE Masked(body) # body
    <3>1. Answer(redacted) /\ redacted.action # "allow" /\ Dirty
      BY <1>1, <1>2, <1>4, <2>2, <2>5, CleanText
    <3> HIDE DEF redacted
    <3> QED
      BY <1>1, <2>3, <3>1, AnsweredKeeps
  <2> QED
    BY <2>4, <2>5
<1> QED
  BY <1>3, <1>4

LEMMA RespondEmptyStep ==
    ASSUME RequestIInv, ResponseIInv, RespondEmpty
    PROVE  ResponseIInv'
<1>1. phase = "response" /\ media = "empty" /\ Answer(Clean) /\ sse' = sse
  BY DEF RespondEmpty
<1>2. body = <<>>
  BY <1>1 DEF ResponseIInv, BodyIsKept
<1>3. ~Dirty
  BY <1>1, <1>2 DEF Dirty, Findings, Suspicious, Pairs
<1>4. Clean.action = "allow"
  BY DEF Clean
<1> QED
  BY <1>1, <1>3, <1>4, AnsweredKeeps

\* What is written back is what was read exactly if there was nothing to find.
LEMMA CleanStream ==
    ASSUME StreamIInv, ContentIInv, Released
    PROVE  output = Received <=> ~Sensitive(Received)
<1>1. RefsRead /\ WrittenBack
  BY DEF ContentIInv
<1>2. output = Received => ~Sensitive(Received)
  BY <1>1, HiddenFromInvariant DEF NothingDetectedIsReleased
<1>3. ASSUME ~Sensitive(Received), NEW i \in 1 .. Len(refs)
      PROVE  Written(i) = refs[i].text
  <2>1. ClientText(i) \in ClientTexts
    BY DEF ClientTexts
  <2>2. Findings(Reassembled(Received, ClientText(i))) = {}
    BY <1>3, <2>1 DEF Sensitive
  <2>3. Findings(JoinedText(refs[i].lane)) = {}
    BY <1>1, <2>2, LaneReleased
  <2>4. refs[i].text \in Seq(STRING)
    BY <1>1, RefFacts
  <2>5. Sliced(i) = refs[i].text
    BY <2>3 DEF Sliced
  <2>6. Starred(i) = [k \in 1 .. Len(refs[i].text) |-> refs[i].text[k]]
    BY <2>3 DEF Starred, Covered
  <2>7. refs[i].text = [k \in 1 .. Len(refs[i].text) |-> refs[i].text[k]]
    BY <2>4
  <2> QED
    BY <2>5, <2>6, <2>7 DEF Written
<1>4. ASSUME ~Sensitive(Received)
      PROVE  output = Received
  <2>1. [i \in 1 .. Len(refs) |-> Written(i)] = [i \in 1 .. Len(refs) |-> refs[i].text]
    BY <1>3, <1>4
  <2> QED
    BY <1>1, <2>1 DEF WrittenBack, Received
<1> QED
  BY <1>2, <1>4

LEMMA RespondStreamStep ==
    ASSUME RequestIInv, StreamIInv, ContentIInv, ResponseIInv, RespondStream
    PROVE  ResponseIInv'
<1> DEFINE redacted == [Clean EXCEPT !.action = "redact", !.reason = "response_pii_redacted"]
<1>1. /\ phase = "response" /\ media = "sse" /\ sse' = sse
      /\ Answer(IF ~Released THEN Refused(outcome)
                ELSE IF output = Received THEN Clean ELSE redacted)
  BY DEF RespondStream
<1>2. Clean.action = "allow" /\ redacted.action = "redact"
  BY DEF Clean
<1> HIDE DEF redacted
<1>3. CASE ~Released
  BY <1>1, <1>3, RefusedKeeps
<1>4. CASE Released
  <2>1. Dirty <=> output # Received
    BY <1>1, <1>4, CleanStream DEF Dirty
  <2>2. mode = "inline" /\ Dirty => Selected = "redact"
    <3>1. SUFFICES ASSUME mode = "inline", Sensitive(Received) PROVE ResponsePolicy # "block"
      BY <1>1, NotBlocked DEF Dirty
    <3>2. RefsRead /\ WrittenBack
      BY DEF ContentIInv
    <3>3. \A t \in ClientTexts :
            /\ ~Suspicious(Reassembled(Received, t))
            /\ Findings(Reassembled(Received, t)) # {} => ResponsePolicy # "block"
      BY <1>4, <3>2, TextReleased
    <3> QED
      BY <3>1, <3>3 DEF Sensitive
  <2>3. CASE output = Received
    BY <1>1, <1>2, <1>4, <2>1, <2>2, <2>3, AnsweredKeeps
  <2>4. CASE output # Received
    BY <1>1, <1>2, <1>4, <2>1, <2>2, <2>4, AnsweredKeeps
  <2> QED
    BY <2>3, <2>4
<1> QED
  BY <1>3, <1>4

LEMMA ResponseInit == Init => ResponseIInv
<1> SUFFICES ASSUME Init PROVE ResponseIInv
  OBVIOUS
<1>1. phase = "validate"
  BY DEF Init
<1> QED
  BY <1>1 DEF ResponseIInv, PolicyIsKept, BodyIsKept, ResponseFollowsPolicy

LEMMA ResponseNext ==
    RequestIInv /\ StreamIInv /\ ContentIInv /\ ResponseIInv /\ [Next]_vars => ResponseIInv'
<1> SUFFICES ASSUME RequestIInv, StreamIInv, ContentIInv, ResponseIInv, [Next]_vars
             PROVE  ResponseIInv'
  OBVIOUS
<1>1. CASE \/ PassCheck
           \/ \E p \in DOMAIN Reasons : \E r \in Reasons[p] : Raise(r)
           \/ Unavailable \/ Redact \/ Verify \/ TrustSource
           \/ \E a \in {"allow", "block", "approval_required"} : Ask(a)
           \/ \E r \in Unmapped, s \in {"clean", "suspicious_instruction", "invalid_json",
                                        "unsupported_media", "unavailable"} : InspectUnmapped(r, s)
  BY <1>1, RequestKeepsPolicy
<1>2. ASSUME NEW m \in {"json", "plain", "sse", "other", "empty"}, NEW t \in Texts, Respond(m, t)
      PROVE  ResponseIInv'
  <2> PICK p \in ResponsePolicies : verdict' = [NoVerdict EXCEPT !.pii = p]
    BY <1>2 DEF Respond
  <2>1. /\ phase = "decided" /\ phase' = "response" /\ (mode = "mirror" \/ Sent(verdict))
        /\ media' = m /\ body' = IF m \in {"json", "plain"} THEN t ELSE <<>>
        /\ verdict' = [NoVerdict EXCEPT !.pii = p]
        /\ mode' = mode /\ settings' = settings
    BY <1>2 DEF Respond, config
  <2>2. mode = "inline" => verdict'.pii = PiiPolicy
    <3>1. SUFFICES ASSUME mode = "inline" PROVE p = PiiPolicy
      BY <2>1, NoVerdictFacts, PolicyOfVerdict
    <3>2. verdict.pii = PiiPolicy
      BY <2>1, <3>1 DEF ResponseIInv, PolicyIsKept
    <3>3. PiiPolicy # "unset"
      BY PolicyIsSelected DEF RequestIInv, RequestTyped
    <3> QED
      BY <3>2, <3>3 DEF ResponsePolicies
  <2>3. PolicyIsKept'
    BY <2>1, <2>2 DEF PolicyIsKept, PiiPolicy, RoutePolicy
  <2>4. t \in Seq(STRING)
    BY ConfigAssumption
  <2>5. BodyIsKept'
    BY <2>1, <2>4, EmptySeq DEF BodyIsKept
  <2> QED
    BY <2>1, <2>3, <2>5, Unanswered DEF ResponseIInv
<1>3. CASE \E r \in ResponseReasons : RaiseResponse(r)
  BY <1>3, RefusedKeeps DEF RaiseResponse
<1>4. CASE RespondEmpty
  BY <1>4, RespondEmptyStep
<1>5. CASE RespondText
  BY <1>5, RespondTextStep
<1>6. CASE RespondStream
  BY <1>6, RespondStreamStep
<1>7. CASE ReadStream
  <2>1. /\ phase = "response" /\ phase' = "response" /\ mode' = mode /\ settings' = settings
        /\ verdict' = verdict /\ media' = media /\ body' = body
    BY <1>7 DEF ReadStream, config
  <2>2. PolicyIsKept'
    BY <2>1 DEF ResponseIInv, PolicyIsKept, PiiPolicy, RoutePolicy
  <2>3. BodyIsKept'
    BY <2>1 DEF ResponseIInv, BodyIsKept
  <2> QED
    BY <2>1, <2>2, <2>3, Unanswered DEF ResponseIInv
<1>8. CASE UNCHANGED vars
  <2>1. /\ phase' = phase /\ mode' = mode /\ settings' = settings /\ verdict' = verdict
        /\ media' = media /\ body' = body /\ response' = response /\ sse' = sse
    BY <1>8 DEF vars, config
  <2>2. PolicyIsKept'
    BY <2>1 DEF ResponseIInv, PolicyIsKept, PiiPolicy, RoutePolicy, Sent
  <2>3. BodyIsKept'
    BY <2>1 DEF ResponseIInv, BodyIsKept
  <2>4. Dirty' = Dirty /\ Selected' = Selected
    <3>1. settings \in Settings
      BY DEF RequestIInv, RequestTyped
    <3>2. Dirty' = Dirty
      BY <2>1, SameTexts DEF Dirty
    <3> QED
      BY <2>1, <3>1, <3>2, SameSelected
  <2>5. ResponseFollowsPolicy'
    BY <2>1, <2>4 DEF ResponseIInv, ResponseFollowsPolicy, Dirty, Sent
  <2> QED
    BY <2>2, <2>3, <2>5 DEF ResponseIInv
<1> QED
  BY <1>1, <1>2, <1>3, <1>4, <1>5, <1>6, <1>7, <1>8 DEF Next

\* A response is called clean exactly if there was nothing to find in it, and inline it
\* is redacted only if the policy that was selected for its request says so.
THEOREM ResponseIsGoverned == Spec => []ResponseFollowsPolicy
<1>1. RequestIInv /\ StreamIInv /\ ContentIInv /\ ResponseIInv /\ [Next]_vars => ResponseIInv'
  BY ResponseNext
<1>2. ResponseIInv => ResponseFollowsPolicy
  BY DEF ResponseIInv
<1> QED
  BY <1>1, <1>2, ResponseInit, RequestInvariantHolds, StreamInvariantHolds, ContentInvariantHolds,
     PTL DEF Spec

=============================================================================
