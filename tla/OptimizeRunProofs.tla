-------------------------- MODULE OptimizeRunProofs --------------------------
(***************************************************************************)
(* The theorems about sessions over one cache, for any files, tasks,       *)
(* requests, budgets, sessions and edits.  The argument: every record of   *)
(* the cache is as good as what a session would find out by itself.  What  *)
(* is known of a file is what a cold analysis of the content its hash      *)
(* names finds, up to what the hook hides; a summary is of that content;   *)
(* and a ranking, under a key that names all it depends on, gives the      *)
(* pack that a fresh one gives.  Files that are edited between two reads   *)
(* of a session are left out.                                              *)
(***************************************************************************)
EXTENDS OptimizeRun, FiniteSetTheorems, WellFoundedInduction, TLAPS

-----------------------------------------------------------------------------
(* Induction, over a set that holds the numbers of which a claim is true.  *)
LEMMA SetInduction ==
  ASSUME NEW T, 0 \in T, \A n \in Nat : n \in T => n + 1 \in T
  PROVE  Nat \subseteq T
  <1>. DEFINE Bad == Nat \ T
              R == OpToRel(<, Nat)
  <1>1. SUFFICES ASSUME Bad # {}
                 PROVE  FALSE
    OBVIOUS
  <1>2. IsWellFoundedOn(R, Nat)
    BY NatLessThanWellFounded
  <1>3. \A x, y \in Nat : <<y, x>> \in R <=> y < x
    BY DEF OpToRel
  <1>. HIDE DEF R
  <1>4. PICK x \in Bad : \A y \in Bad : ~ (<<y, x>> \in R)
    BY <1>1, <1>2, WFMin
  <1>5. x # 0 /\ x \in Nat
    BY <1>4
  <1>6. x - 1 \in Nat /\ (x - 1) + 1 = x
    BY <1>5
  <1>7. x - 1 \in T
    <2>1. x - 1 < x
      BY <1>5
    <2>2. <<x - 1, x>> \in R
      BY <1>3, <1>5, <1>6, <2>1
    <2>3. QED
      BY <1>4, <1>6, <2>2
  <1>8. QED
    BY <1>4, <1>6, <1>7

(* A function that is defined by recursion over 0 .. n exists.             *)
Recurs(g, n, V, first, step) ==
  g \in [0 .. n -> V] /\ g[0] = first /\ \A i \in 1 .. n : g[i] = step[i][g[i - 1]]

LEMMA Recursion ==
  ASSUME NEW n \in Nat, NEW V, NEW first \in V, NEW step \in [1 .. n -> [V -> V]]
  PROVE  \E g : Recurs(g, n, V, first, step)
  <1>. DEFINE Solves(g, m) ==
                g[0] = first /\ \A i \in 1 .. m : g[i] = step[i][g[i - 1]]
              T == {m \in Nat : m <= n => \E g \in [0 .. m -> V] : Solves(g, m)}
  <1>1. 0 \in T
    <2>1. [i \in 0 .. 0 |-> first] \in [0 .. 0 -> V] /\ Solves([i \in 0 .. 0 |-> first], 0)
      OBVIOUS
    <2>2. QED
      BY <2>1
  <1>2. ASSUME NEW m \in Nat, m \in T
        PROVE  m + 1 \in T
    <2>1. SUFFICES ASSUME m + 1 <= n
                   PROVE  \E g \in [0 .. m + 1 -> V] : Solves(g, m + 1)
      OBVIOUS
    <2>2. PICK g \in [0 .. m -> V] : Solves(g, m)
      BY <1>2, <2>1
    <2>. DEFINE h == [i \in 0 .. m + 1 |-> IF i = m + 1 THEN step[m + 1][g[m]] ELSE g[i]]
    <2>3. step[m + 1][g[m]] \in V
      BY <2>1
    <2>4. h \in [0 .. m + 1 -> V]
      BY <2>3
    <2>5. \A i \in 0 .. m : h[i] = g[i]
      OBVIOUS
    <2>6. h[m + 1] = step[m + 1][g[m]]
      OBVIOUS
    <2>. HIDE DEF h
    <2>7. Solves(h, m + 1)
      <3>1. h[0] = first
        BY <2>2, <2>5
      <3>2. ASSUME NEW i \in 1 .. m + 1
            PROVE  h[i] = step[i][h[i - 1]]
        <4>1. CASE i = m + 1
          BY <2>5, <2>6, <4>1
        <4>2. CASE i # m + 1
          <5>1. i \in 1 .. m /\ i - 1 \in 0 .. m /\ i \in 0 .. m
            BY <4>2
          <5>2. QED
            BY <2>2, <2>5, <5>1
        <4>3. QED
          BY <4>1, <4>2
      <3>3. QED
        BY <3>1, <3>2
    <2>8. QED
      BY <2>4, <2>7
  <1>. HIDE DEF T
  <1>3. n \in T
    BY <1>1, <1>2, SetInduction
  <1>4. QED
    BY <1>3 DEF T, Recurs

-----------------------------------------------------------------------------
(* The recursion of Kept.                                                  *)
KeptRecurs(k, U, s, S) ==
  /\ k \in [0 .. Len(s) -> Seq(U)]
  /\ k[0] = <<>> /\ Kept(s, S) = k[Len(s)]
  /\ \A i \in 1 .. Len(s) :
       k[i] = IF s[i] \in S THEN Append(k[i - 1], s[i]) ELSE k[i - 1]

LEMMA KeptFunction ==
  ASSUME NEW U, NEW s \in Seq(U), NEW S
  PROVE  \E k : KeptRecurs(k, U, s, S)
  <1>. DEFINE n == Len(s)
              Def(f) == [i \in 0 .. n |->
                 IF i = 0 THEN <<>>
                 ELSE IF s[i] \in S THEN Append(f[i - 1], s[i]) ELSE f[i - 1]]
              step == [i \in 1 .. n |-> [v \in Seq(U) |->
                         IF s[i] \in S THEN Append(v, s[i]) ELSE v]]
  <1>1. n \in Nat /\ \A i \in 1 .. n : s[i] \in U
    OBVIOUS
  <1>2. <<>> \in Seq(U)
    OBVIOUS
  <1>3. step \in [1 .. n -> [Seq(U) -> Seq(U)]]
    BY <1>1
  <1>s. \A i \in 1 .. n : \A v \in Seq(U) :
          step[i][v] = IF s[i] \in S THEN Append(v, s[i]) ELSE v
    OBVIOUS
  <1>. HIDE DEF step
  <1>4. PICK g : Recurs(g, n, Seq(U), <<>>, step)
    BY <1>1, <1>2, <1>3, Recursion
  <1>5. g = Def(g)
    <2>1. ASSUME NEW i \in 0 .. n
          PROVE  g[i] = Def(g)[i]
      <3>1. CASE i = 0
        BY <1>4, <3>1 DEF Recurs
      <3>2. CASE i # 0
        <4>1. i \in 1 .. n /\ i - 1 \in 0 .. n
          BY <1>1, <3>2
        <4>2. g[i - 1] \in Seq(U)
          BY <1>4, <4>1 DEF Recurs
        <4>3. g[i] = IF s[i] \in S THEN Append(g[i - 1], s[i]) ELSE g[i - 1]
          BY <1>s, <1>4, <4>1, <4>2 DEF Recurs
        <4>4. QED
          BY <3>2, <4>3
      <3>3. QED
        BY <3>1, <3>2
    <2>2. QED
      BY <1>4, <2>1 DEF Recurs
  <1>. DEFINE k == CHOOSE f : f = Def(f)
  <1>6. k = Def(k)
    BY <1>5
  <1>7. Kept(s, S) = k[n]
    BY DEF Kept
  <1>. HIDE DEF k
  <1>8. k[0] = <<>> /\ \A i \in 1 .. n :
          k[i] = IF s[i] \in S THEN Append(k[i - 1], s[i]) ELSE k[i - 1]
    <2>1. k[0] = Def(k)[0] /\ \A i \in 1 .. n : k[i] = Def(k)[i]
      BY <1>6
    <2>2. 0 \in 0 .. n /\ \A i \in 1 .. n : i \in 0 .. n /\ i # 0
      BY <1>1
    <2>3. QED
      BY <2>1, <2>2
  <1>9. \A i \in 0 .. n : k[i] \in Seq(U)
    <2>. DEFINE T == {i \in Nat : i <= n => k[i] \in Seq(U)}
    <2>1. 0 \in T
      BY <1>2, <1>8
    <2>2. ASSUME NEW i \in Nat, i \in T
          PROVE  i + 1 \in T
      <3>1. SUFFICES ASSUME i + 1 <= n
                     PROVE  k[i + 1] \in Seq(U)
        OBVIOUS
      <3>2. i + 1 \in 1 .. n /\ (i + 1) - 1 = i /\ k[i] \in Seq(U) /\ s[i + 1] \in U
        BY <1>1, <2>2, <3>1
      <3>3. k[i + 1] = IF s[i + 1] \in S THEN Append(k[i], s[i + 1]) ELSE k[i]
        BY <1>8, <3>2
      <3>4. Append(k[i], s[i + 1]) \in Seq(U)
        BY <3>2
      <3>5. QED
        BY <3>2, <3>3, <3>4
    <2>. HIDE DEF T
    <2>3. Nat \subseteq T
      BY <2>1, <2>2, SetInduction
    <2>4. QED
      BY <1>1, <2>3 DEF T
  <1>10. k \in [0 .. n -> Seq(U)]
    BY <1>6, <1>9
  <1>11. QED
    BY <1>7, <1>8, <1>10 DEF KeptRecurs

(* What is kept of the first n elements.                                   *)
KeptOf(t, U, s, S, n) ==
  /\ t \in Seq(U) /\ Len(t) <= n
  /\ \A j \in 1 .. Len(t) : \E m \in 1 .. n : t[j] = s[m] /\ s[m] \in S
  /\ \A m \in 1 .. n : s[m] \in S => \E j \in 1 .. Len(t) : t[j] = s[m]
  /\ (\A l, m \in 1 .. n : s[l] = s[m] => l = m) =>
       \A i, j \in 1 .. Len(t) : t[i] = t[j] => i = j

LEMMA KeptOfMore ==
  ASSUME NEW U, NEW s, NEW S, NEW n \in Nat, NEW t, KeptOf(t, U, s, S, n), s[n + 1] \in U
  PROVE  KeptOf(IF s[n + 1] \in S THEN Append(t, s[n + 1]) ELSE t, U, s, S, n + 1)
  <1>1. CASE s[n + 1] \in S
    <2>. DEFINE e == s[n + 1]
                u == Append(t, e)
    <2>1. t \in Seq(U) /\ Len(t) \in Nat /\ e \in U
      BY DEF KeptOf
    <2>2. /\ u \in Seq(U) /\ Len(u) = Len(t) + 1 /\ u[Len(t) + 1] = e
          /\ \A j \in 1 .. Len(t) : u[j] = t[j]
      BY <2>1
    <2>. HIDE DEF u
    <2>3. \A j \in 1 .. Len(u) : j = Len(t) + 1 \/ j \in 1 .. Len(t)
      BY <2>1, <2>2
    <2>4. \A m \in 1 .. n + 1 : m = n + 1 \/ m \in 1 .. n
      OBVIOUS
    <2>5. \A j \in 1 .. Len(u) : \E m \in 1 .. n + 1 : u[j] = s[m] /\ s[m] \in S
      <3>1. ASSUME NEW j \in 1 .. Len(t)
            PROVE  \E m \in 1 .. n + 1 : t[j] = s[m] /\ s[m] \in S
        <4>1. PICK m \in 1 .. n : t[j] = s[m] /\ s[m] \in S
          BY DEF KeptOf
        <4>2. m \in 1 .. n + 1
          OBVIOUS
        <4>3. QED
          BY <4>1, <4>2
      <3>2. n + 1 \in 1 .. n + 1
        OBVIOUS
      <3>3. QED
        BY <1>1, <2>2, <2>3, <3>1, <3>2
    <2>6. \A m \in 1 .. n + 1 : s[m] \in S => \E j \in 1 .. Len(u) : u[j] = s[m]
      <3>1. ASSUME NEW m \in 1 .. n, s[m] \in S
            PROVE  \E j \in 1 .. Len(u) : u[j] = s[m]
        <4>1. PICK j \in 1 .. Len(t) : t[j] = s[m]
          BY <3>1 DEF KeptOf
        <4>2. j \in 1 .. Len(u) /\ u[j] = t[j]
          BY <2>1, <2>2
        <4>3. QED
          BY <4>1, <4>2
      <3>2. Len(t) + 1 \in 1 .. Len(u)
        BY <2>1, <2>2
      <3>3. QED
        BY <2>2, <2>4, <3>1, <3>2
    <2>7. ASSUME \A l, m \in 1 .. n + 1 : s[l] = s[m] => l = m,
                 NEW i \in 1 .. Len(u), NEW j \in 1 .. Len(u), u[i] = u[j]
          PROVE  i = j
      <3>1. \A l, m \in 1 .. n : s[l] = s[m] => l = m
        <4>1. \A l \in 1 .. n : l \in 1 .. n + 1
          OBVIOUS
        <4>2. QED
          BY <2>7, <4>1
      <3>2. \A k, l \in 1 .. Len(t) : t[k] = t[l] => k = l
        BY <3>1 DEF KeptOf
      <3>3. ASSUME NEW k \in 1 .. Len(t)
            PROVE  t[k] # e
        <4>1. PICK m \in 1 .. n : t[k] = s[m]
          BY DEF KeptOf
        <4>2. m \in 1 .. n + 1 /\ n + 1 \in 1 .. n + 1 /\ m # n + 1
          OBVIOUS
        <4>3. QED
          BY <2>7, <4>1, <4>2
      <3>4. QED
        BY <2>2, <2>3, <2>7, <3>2, <3>3
    <2>8. Len(u) <= n + 1
      BY <2>1, <2>2 DEF KeptOf
    <2>9. KeptOf(u, U, s, S, n + 1)
      BY <2>2, <2>5, <2>6, <2>7, <2>8 DEF KeptOf
    <2>10. QED
      BY <1>1, <2>9 DEF u
  <1>2. CASE s[n + 1] \notin S
    <2>1. \A m \in 1 .. n : m \in 1 .. n + 1
      OBVIOUS
    <2>2. \A m \in 1 .. n + 1 : m = n + 1 \/ m \in 1 .. n
      OBVIOUS
    <2>3. t \in Seq(U) /\ Len(t) <= n + 1
      BY DEF KeptOf
    <2>4. \A j \in 1 .. Len(t) : \E m \in 1 .. n + 1 : t[j] = s[m] /\ s[m] \in S
      BY <2>1 DEF KeptOf
    <2>5. \A m \in 1 .. n + 1 : s[m] \in S => \E j \in 1 .. Len(t) : t[j] = s[m]
      BY <1>2, <2>2 DEF KeptOf
    <2>6. (\A l, m \in 1 .. n + 1 : s[l] = s[m] => l = m) =>
            \A i, j \in 1 .. Len(t) : t[i] = t[j] => i = j
      BY <2>1 DEF KeptOf
    <2>7. QED
      BY <1>2, <2>3, <2>4, <2>5, <2>6 DEF KeptOf
  <1>3. QED
    BY <1>1, <1>2

LEMMA KeptProperties ==
  ASSUME NEW U, NEW s \in Seq(U), NEW S
  PROVE  KeptOf(Kept(s, S), U, s, S, Len(s))
  <1>1. PICK k : KeptRecurs(k, U, s, S)
    BY KeptFunction
  <1>. DEFINE T == {n \in Nat : n <= Len(s) => KeptOf(k[n], U, s, S, n)}
  <1>2. 0 \in T
    <2>1. KeptOf(<<>>, U, s, S, 0)
      BY DEF KeptOf
    <2>2. QED
      BY <1>1, <2>1 DEF KeptRecurs
  <1>3. ASSUME NEW n \in Nat, n \in T
        PROVE  n + 1 \in T
    <2>1. SUFFICES ASSUME n + 1 <= Len(s)
                   PROVE  KeptOf(k[n + 1], U, s, S, n + 1)
      OBVIOUS
    <2>2. n + 1 \in 1 .. Len(s) /\ (n + 1) - 1 = n /\ s[n + 1] \in U /\ KeptOf(k[n], U, s, S, n)
      BY <1>3, <2>1
    <2>3. k[n + 1] = IF s[n + 1] \in S THEN Append(k[n], s[n + 1]) ELSE k[n]
      BY <1>1, <2>2 DEF KeptRecurs
    <2>4. QED
      BY <2>2, <2>3, KeptOfMore
  <1>. HIDE DEF T
  <1>4. Nat \subseteq T /\ Len(s) \in Nat
    BY <1>2, <1>3, SetInduction
  <1>5. QED
    BY <1>1, <1>4 DEF T, KeptRecurs

LEMMA KeptElements ==
  ASSUME NEW U, NEW s \in Seq(U), NEW S
  PROVE  /\ Kept(s, S) \in Seq(U) /\ Len(Kept(s, S)) <= Len(s)
         /\ ToSet(Kept(s, S)) = ToSet(s) \cap S
         /\ IsInjective(s) => IsInjective(Kept(s, S))
  <1>. DEFINE t == Kept(s, S)
  <1>1. KeptOf(t, U, s, S, Len(s))
    BY KeptProperties
  <1>. HIDE DEF t
  <1>2. t \in Seq(U) /\ DOMAIN t = 1 .. Len(t) /\ DOMAIN s = 1 .. Len(s)
    BY <1>1 DEF KeptOf
  <1>3. ToSet(t) = ToSet(s) \cap S
    <2>1. \A x \in ToSet(t) : x \in ToSet(s) \cap S
      BY <1>1, <1>2 DEF KeptOf, ToSet
    <2>2. \A x \in ToSet(s) \cap S : x \in ToSet(t)
      <3>1. ASSUME NEW m \in 1 .. Len(s), s[m] \in S
            PROVE  s[m] \in ToSet(t)
        BY <1>1, <1>2, <3>1 DEF KeptOf, ToSet
      <3>2. QED
        BY <1>2, <3>1 DEF ToSet
    <2>3. QED
      BY <2>1, <2>2
  <1>4. IsInjective(s) => IsInjective(t)
    BY <1>1, <1>2 DEF KeptOf, IsInjective
  <1>5. QED
    BY <1>1, <1>3, <1>4 DEF KeptOf, t


(* Sequences, element by element.                                          *)
LEMMA ConcatAppend ==
  ASSUME NEW U, NEW s \in Seq(U), NEW t \in Seq(U), NEW e \in U
  PROVE  s \o Append(t, e) = Append(s \o t, e)
  <1>1. Len(s) \in Nat /\ Len(t) \in Nat
    OBVIOUS
  <1>. DEFINE l == s \o Append(t, e)
              r == Append(s \o t, e)
  <1>2. l \in Seq(U) /\ r \in Seq(U) /\ Len(l) = Len(s) + (Len(t) + 1) /\ Len(r) = (Len(s) + Len(t)) + 1
    OBVIOUS
  <1>3. \A i \in 1 .. Len(s) + (Len(t) + 1) : l[i] = r[i]
    <2>1. ASSUME NEW i \in 1 .. Len(s) + (Len(t) + 1)
          PROVE  l[i] = r[i]
      <3>1. CASE i <= Len(s)
        BY <1>1, <3>1
      <3>2. CASE i > Len(s) /\ i <= Len(s) + Len(t)
        BY <1>1, <3>2
      <3>3. CASE i = Len(s) + (Len(t) + 1)
        BY <1>1, <3>3
      <3>4. QED
        BY <1>1, <3>1, <3>2, <3>3
    <2>2. QED
      BY <2>1
  <1>. HIDE DEF l, r
  <1>4. l = r
    BY <1>1, <1>2, <1>3
  <1>5. QED
    BY <1>4 DEF l, r

LEMMA PrefixAppend ==
  ASSUME NEW U, NEW s \in Seq(U), NEW n \in Nat, n + 1 <= Len(s)
  PROVE  /\ SubSeq(s, 1, n) \in Seq(U) /\ s[n + 1] \in U
         /\ SubSeq(s, 1, n + 1) = Append(SubSeq(s, 1, n), s[n + 1])
  OBVIOUS

LEMMA WholePrefix ==
  ASSUME NEW U, NEW s \in Seq(U)
  PROVE  SubSeq(s, 1, Len(s)) = s /\ SubSeq(s, 1, 0) = <<>> /\ Len(s) \in Nat
  OBVIOUS

(* What is kept depends on the elements and on whether they are in the set. *)
LEMMA KeptAgree ==
  ASSUME NEW U, NEW s \in Seq(U), NEW t \in Seq(U), NEW S, NEW R, NEW k, NEW l,
         KeptRecurs(k, U, s, S), KeptRecurs(l, U, t, R), NEW n \in Nat, n <= Len(s), n <= Len(t),
         \A i \in 1 .. n : s[i] = t[i] /\ (s[i] \in S <=> t[i] \in R)
  PROVE  k[n] = l[n]
  <1>. DEFINE T == {m \in Nat : m <= n => k[m] = l[m]}
  <1>1. 0 \in T
    BY DEF KeptRecurs
  <1>2. ASSUME NEW m \in Nat, m \in T
        PROVE  m + 1 \in T
    <2>1. SUFFICES ASSUME m + 1 <= n
                   PROVE  k[m + 1] = l[m + 1]
      OBVIOUS
    <2>2. m + 1 \in 1 .. n /\ m + 1 \in 1 .. Len(s) /\ m + 1 \in 1 .. Len(t) /\ (m + 1) - 1 = m
      BY <2>1
    <2>3. k[m] = l[m]
      BY <1>2, <2>1
    <2>4. QED
      BY <2>2, <2>3 DEF KeptRecurs
  <1>. HIDE DEF T
  <1>3. n \in T
    BY <1>1, <1>2, SetInduction
  <1>4. QED
    BY <1>3 DEF T

LEMMA KeptSame ==
  ASSUME NEW U, NEW s \in Seq(U), NEW S, NEW R, ToSet(s) \cap S = ToSet(s) \cap R
  PROVE  Kept(s, S) = Kept(s, R)
  <1>1. PICK k : KeptRecurs(k, U, s, S)
    BY KeptFunction
  <1>2. PICK l : KeptRecurs(l, U, s, R)
    BY KeptFunction
  <1>3. \A i \in 1 .. Len(s) : s[i] \in ToSet(s)
    BY DEF ToSet
  <1>4. \A i \in 1 .. Len(s) : s[i] = s[i] /\ (s[i] \in S <=> s[i] \in R)
    BY <1>3
  <1>5. k[Len(s)] = l[Len(s)]
    <2>1. Len(s) \in Nat /\ Len(s) <= Len(s)
      OBVIOUS
    <2>2. QED
      BY <1>1, <1>2, <1>4, <2>1, KeptAgree
  <1>6. QED
    BY <1>1, <1>2, <1>5 DEF KeptRecurs

LEMMA KeptEmpty ==
  ASSUME NEW S
  PROVE  Kept(<<>>, S) = <<>>
  <1>1. <<>> \in Seq({}) /\ Len(<<>>) = 0
    OBVIOUS
  <1>2. PICK k : KeptRecurs(k, {}, <<>>, S)
    BY <1>1, KeptFunction
  <1>3. QED
    BY <1>1, <1>2 DEF KeptRecurs

LEMMA KeptAppend ==
  ASSUME NEW U, NEW s \in Seq(U), NEW e \in U, NEW S
  PROVE  Kept(Append(s, e), S) = IF e \in S THEN Append(Kept(s, S), e) ELSE Kept(s, S)
  <1>. DEFINE t == Append(s, e)
              n == Len(s)
  <1>1. /\ t \in Seq(U) /\ Len(t) = n + 1 /\ n \in Nat /\ t[n + 1] = e
        /\ \A i \in 1 .. n : t[i] = s[i]
    OBVIOUS
  <1>. HIDE DEF t
  <1>2. PICK k : KeptRecurs(k, U, s, S)
    BY KeptFunction
  <1>3. PICK l : KeptRecurs(l, U, t, S)
    BY <1>1, KeptFunction
  <1>4. k[n] = l[n]
    <2>1. n <= Len(s) /\ n <= Len(t) /\ \A i \in 1 .. n : s[i] = t[i] /\ (s[i] \in S <=> t[i] \in S)
      BY <1>1
    <2>. HIDE DEF n
    <2>2. n \in Nat /\ t \in Seq(U)
      BY <1>1
    <2>3. QED
      BY <1>2, <1>3, <2>1, <2>2, KeptAgree
  <1>5. l[n + 1] = IF t[n + 1] \in S THEN Append(l[n], t[n + 1]) ELSE l[n]
    <2>1. n + 1 \in 1 .. Len(t) /\ (n + 1) - 1 = n
      BY <1>1
    <2>2. QED
      BY <1>3, <2>1 DEF KeptRecurs
  <1>6. Kept(t, S) = l[n + 1] /\ Kept(s, S) = k[n]
    BY <1>1, <1>2, <1>3 DEF KeptRecurs
  <1>7. QED
    BY <1>1, <1>4, <1>5, <1>6 DEF t

LEMMA KeptAll ==
  ASSUME NEW U, NEW s \in Seq(U), NEW S
  PROVE  /\ ToSet(s) \subseteq S => Kept(s, S) = s
         /\ ToSet(s) \cap S = {} => Kept(s, S) = <<>>
  <1>. DEFINE p(n) == SubSeq(s, 1, n)
              T == {n \in Nat : n <= Len(s) =>
                      /\ ToSet(s) \subseteq S => Kept(p(n), S) = p(n)
                      /\ ToSet(s) \cap S = {} => Kept(p(n), S) = <<>>}
  <1>1. 0 \in T
    BY KeptEmpty, WholePrefix
  <1>2. ASSUME NEW n \in Nat, n \in T
        PROVE  n + 1 \in T
    <2>1. SUFFICES ASSUME n + 1 <= Len(s)
                   PROVE  /\ ToSet(s) \subseteq S => Kept(p(n + 1), S) = p(n + 1)
                          /\ ToSet(s) \cap S = {} => Kept(p(n + 1), S) = <<>>
      OBVIOUS
    <2>2. p(n) \in Seq(U) /\ s[n + 1] \in U /\ p(n + 1) = Append(p(n), s[n + 1])
      BY <2>1, PrefixAppend
    <2>. HIDE DEF p
    <2>3. Kept(p(n + 1), S) = IF s[n + 1] \in S THEN Append(Kept(p(n), S), s[n + 1]) ELSE Kept(p(n), S)
      <3>. DEFINE e == s[n + 1]
                  q == p(n)
      <3>1. q \in Seq(U) /\ e \in U /\ p(n + 1) = Append(q, e)
        BY <2>2
      <3>. HIDE DEF e, q
      <3>2. Kept(Append(q, e), S) = IF e \in S THEN Append(Kept(q, S), e) ELSE Kept(q, S)
        BY <3>1, KeptAppend
      <3>3. QED
        BY <3>1, <3>2 DEF e, q
    <2>4. s[n + 1] \in ToSet(s)
      BY <2>1 DEF ToSet
    <2>5. /\ ToSet(s) \subseteq S => Kept(p(n), S) = p(n)
          /\ ToSet(s) \cap S = {} => Kept(p(n), S) = <<>>
      BY <1>2, <2>1 DEF p
    <2>6. QED
      BY <2>2, <2>3, <2>4, <2>5
  <1>. HIDE DEF T
  <1>3. Len(s) \in T /\ Len(s) <= Len(s)
    BY <1>1, <1>2, SetInduction, WholePrefix
  <1>. DEFINE n == Len(s)
  <1>4. p(n) = s
    BY WholePrefix
  <1>. HIDE DEF n
  <1>5. n \in T /\ n <= Len(s)
    BY <1>3 DEF n
  <1>. HIDE DEF p
  <1>6. QED
    BY <1>4, <1>5 DEF T

LEMMA KeptConcat ==
  ASSUME NEW U, NEW s \in Seq(U), NEW t \in Seq(U), NEW S
  PROVE  Kept(s \o t, S) = Kept(s, S) \o Kept(t, S)
  <1>. DEFINE p(n) == SubSeq(t, 1, n)
              T == {n \in Nat : n <= Len(t) => Kept(s \o p(n), S) = Kept(s, S) \o Kept(p(n), S)}
  <1>0. \A u \in Seq(U) : Kept(u, S) \in Seq(U)
    BY KeptElements
  <1>1. 0 \in T
    <2>1. p(0) = <<>> /\ s \o <<>> = s /\ Kept(s, S) \o <<>> = Kept(s, S)
      BY <1>0
    <2>2. QED
      BY <2>1, KeptEmpty
  <1>2. ASSUME NEW n \in Nat, n \in T
        PROVE  n + 1 \in T
    <2>1. SUFFICES ASSUME n + 1 <= Len(t)
                   PROVE  Kept(s \o p(n + 1), S) = Kept(s, S) \o Kept(p(n + 1), S)
      OBVIOUS
    <2>. DEFINE e == t[n + 1]
    <2>2. p(n) \in Seq(U) /\ e \in U /\ p(n + 1) = Append(p(n), e)
      BY <2>1, PrefixAppend
    <2>3. Kept(s \o p(n), S) = Kept(s, S) \o Kept(p(n), S)
      BY <1>2, <2>1
    <2>. HIDE DEF p, e
    <2>. DEFINE q == p(n)
    <2>a. q \in Seq(U) /\ p(n + 1) = Append(q, e)
      BY <2>2
    <2>. HIDE DEF q
    <2>b. s \o Append(q, e) = Append(s \o q, e) /\ s \o q \in Seq(U)
      BY <2>2, <2>a, ConcatAppend
    <2>4. s \o p(n + 1) = Append(s \o p(n), e) /\ s \o p(n) \in Seq(U)
      BY <2>a, <2>b DEF q
    <2>5. Kept(s \o p(n + 1), S) =
            IF e \in S THEN Append(Kept(s \o p(n), S), e) ELSE Kept(s \o p(n), S)
      BY <2>2, <2>4, KeptAppend
    <2>6. Kept(p(n + 1), S) = IF e \in S THEN Append(Kept(p(n), S), e) ELSE Kept(p(n), S)
      BY <2>2, KeptAppend
    <2>7. Kept(s, S) \o Append(Kept(p(n), S), e) = Append(Kept(s, S) \o Kept(p(n), S), e)
      BY <1>0, <2>2, ConcatAppend
    <2>8. QED
      BY <2>3, <2>5, <2>6, <2>7
  <1>. HIDE DEF T
  <1>3. Len(t) \in T /\ Len(t) <= Len(t)
    BY <1>1, <1>2, SetInduction, WholePrefix
  <1>. DEFINE n == Len(t)
  <1>4. p(n) = t
    BY WholePrefix
  <1>. HIDE DEF n
  <1>5. n \in T /\ n <= Len(t)
    BY <1>3 DEF n
  <1>. HIDE DEF p
  <1>6. QED
    BY <1>4, <1>5 DEF T
-----------------------------------------------------------------------------
(* The weights of finitely many things, added up.                          *)
Weighed(w, S) == IsFiniteSet(S) /\ \A e \in S : w[e] \in Nat
Chosen(S) == CHOOSE e \in S : TRUE
SumRecurs(g, w, S) ==
  /\ g \in [SUBSET S -> Nat]
  /\ \A s \in SUBSET S :
       g[s] = IF s = {} THEN 0 ELSE w[Chosen(s)] + g[s \ {Chosen(s)}]

LEMMA ChosenIn ==
  ASSUME NEW S, S # {}
  PROVE  Chosen(S) \in S
  BY DEF Chosen

LEMMA SmallerCardinality ==
  ASSUME NEW S, IsFiniteSet(S), NEW e \in S
  PROVE  /\ IsFiniteSet(S \ {e}) /\ Cardinality(S) \in Nat /\ Cardinality(S \ {e}) \in Nat
         /\ Cardinality(S) = Cardinality(S \ {e}) + 1
  <1>1. IsFiniteSet(S \ {e}) /\ Cardinality(S \ {e}) = Cardinality(S) - 1
    BY FS_RemoveElement
  <1>2. Cardinality(S) \in Nat /\ Cardinality(S \ {e}) \in Nat
    BY <1>1, FS_CardinalityType
  <1>3. QED
    BY <1>1, <1>2

LEMMA SumExists ==
  ASSUME NEW w, NEW S, Weighed(w, S)
  PROVE  \E g : SumRecurs(g, w, S)
  <1>. DEFINE V == [SUBSET S -> Nat]
              More(v) == [s \in SUBSET S |->
                 IF s = {} THEN 0 ELSE w[Chosen(s)] + v[s \ {Chosen(s)}]]
              first == [s \in SUBSET S |-> 0]
              n == Cardinality(S)
              step == [i \in 1 .. n + 1 |-> [v \in V |-> More(v)]]
  <1>1. n \in Nat
    BY FS_CardinalityType DEF Weighed
  <1>2. \A s \in SUBSET S : s # {} =>
          Chosen(s) \in S /\ w[Chosen(s)] \in Nat /\ s \ {Chosen(s)} \in SUBSET S
    BY ChosenIn DEF Weighed
  <1>3. \A v \in V : More(v) \in V
    BY <1>2
  <1>4. first \in V
    OBVIOUS
  <1>5. step \in [1 .. n + 1 -> [V -> V]]
    BY <1>3
  <1>6. \A i \in 1 .. n + 1 : \A v \in V : step[i][v] = More(v)
    OBVIOUS
  <1>7. \A v \in V : \A s \in SUBSET S :
          More(v)[s] = IF s = {} THEN 0 ELSE w[Chosen(s)] + v[s \ {Chosen(s)}]
    OBVIOUS
  <1>. HIDE DEF step, first, More
  <1>8a. \E g : Recurs(g, n + 1, V, first, step)
    <2>. HIDE DEF V, n
    <2>1. n + 1 \in Nat
      BY <1>1
    <2>2. QED
      BY <2>1, <1>4, <1>5, Recursion
  <1>8. PICK g : Recurs(g, n + 1, V, first, step)
    BY <1>8a
  <1>9. /\ \A i \in 0 .. n + 1 : g[i] \in V
        /\ \A i \in 1 .. n + 1 : g[i] = More(g[i - 1])
    <2>1. \A i \in 0 .. n + 1 : g[i] \in V
      BY <1>8 DEF Recurs
    <2>2. ASSUME NEW i \in 1 .. n + 1
          PROVE  g[i] = More(g[i - 1])
      <3>1. i - 1 \in 0 .. n + 1
        BY <1>1
      <3>2. g[i] = step[i][g[i - 1]]
        BY <1>8 DEF Recurs
      <3>3. QED
        BY <1>6, <2>1, <3>1, <3>2
    <2>3. QED
      BY <2>1, <2>2
  <1>. DEFINE T == {k \in Nat : k <= n => \A s \in SUBSET S :
                      Cardinality(s) <= k => g[k + 1][s] = g[k][s]}
  <1>10. \A s \in SUBSET S : IsFiniteSet(s) /\ Cardinality(s) \in Nat /\ Cardinality(s) <= n
    BY FS_Subset, FS_CardinalityType DEF Weighed
  <1>11. 0 \in T
    <2>1. ASSUME NEW s \in SUBSET S, Cardinality(s) <= 0
          PROVE  g[1][s] = g[0][s]
      <3>1. s = {}
        BY <1>10, <2>1, FS_EmptySet
      <3>2. g[1][s] = 0
        <4>1. 1 \in 1 .. n + 1 /\ 0 \in 0 .. n + 1 /\ 1 - 1 = 0
          BY <1>1
        <4>2. g[1] = More(g[0]) /\ g[0] \in V
          BY <1>9, <4>1
        <4>3. QED
          BY <1>7, <3>1, <4>2
      <3>3. g[0][s] = 0
        BY <1>8 DEF Recurs, first
      <3>4. QED
        BY <3>2, <3>3
    <2>2. QED
      BY <2>1
  <1>12. ASSUME NEW k \in Nat, k \in T
         PROVE  k + 1 \in T
    <2>1. SUFFICES ASSUME k + 1 <= n, NEW s \in SUBSET S, Cardinality(s) <= k + 1
                   PROVE  g[(k + 1) + 1][s] = g[k + 1][s]
      OBVIOUS
    <2>2. /\ k \in 0 .. n + 1 /\ k + 1 \in 1 .. n + 1 /\ (k + 1) + 1 \in 1 .. n + 1
          /\ (k + 1) - 1 = k /\ ((k + 1) + 1) - 1 = k + 1 /\ k + 1 \in 0 .. n + 1
      BY <1>1, <2>1
    <2>3. g[k + 1] = More(g[k]) /\ g[(k + 1) + 1] = More(g[k + 1])
          /\ g[k] \in V /\ g[k + 1] \in V
      BY <1>9, <2>2
    <2>4. CASE s = {}
      BY <1>7, <2>3, <2>4
    <2>5. CASE s # {}
      <3>. DEFINE r == s \ {Chosen(s)}
      <3>1. r \in SUBSET S /\ Cardinality(r) <= k
        BY <1>10, <2>1, <2>5, ChosenIn, SmallerCardinality
      <3>2. g[k + 1][r] = g[k][r]
        <4>1. k <= n
          BY <1>1, <2>1
        <4>2. \A q \in SUBSET S : Cardinality(q) <= k => g[k + 1][q] = g[k][q]
          BY <1>12, <4>1
        <4>. HIDE DEF r
        <4>3. QED
          BY <3>1, <4>2
      <3>3. QED
        BY <1>7, <2>3, <2>5, <3>2
    <2>6. QED
      BY <2>4, <2>5
  <1>. HIDE DEF T
  <1>13. n \in T
    BY <1>1, <1>11, <1>12, SetInduction
  <1>14. \A s \in SUBSET S : g[n + 1][s] = g[n][s]
    BY <1>1, <1>10, <1>13 DEF T
  <1>15. SumRecurs(g[n], w, S)
    <2>1. n \in 0 .. n + 1 /\ n + 1 \in 1 .. n + 1 /\ (n + 1) - 1 = n
      BY <1>1
    <2>2. g[n] \in V /\ g[n + 1] = More(g[n])
      BY <1>9, <2>1
    <2>3. QED
      BY <1>7, <1>14, <2>2 DEF SumRecurs
  <1>16. QED
    BY <1>15

LEMMA SumIterates ==
  ASSUME NEW w, NEW S, Weighed(w, S)
  PROVE  \E g : SumRecurs(g, w, S) /\ Sum(w, S) = g[S]
  <1>. DEFINE Def(f) == [s \in SUBSET S |->
                IF s = {} THEN 0 ELSE w[Chosen(s)] + f[s \ {Chosen(s)}]]
              iter == CHOOSE f : f = Def(f)
  <1>1. PICK g : SumRecurs(g, w, S)
    BY SumExists
  <1>2. g = Def(g)
    BY <1>1 DEF SumRecurs
  <1>3. iter = Def(iter)
    BY <1>2
  <1>4. Sum(w, S) = iter[S]
    BY DEF Sum, MapThenSumSet, MapThenFoldSet, Chosen
  <1>. HIDE DEF iter
  <1>5. \A s \in SUBSET S :
          iter[s] = IF s = {} THEN 0 ELSE w[Chosen(s)] + iter[s \ {Chosen(s)}]
    BY <1>3
  <1>. DEFINE T == {k \in Nat : \A s \in SUBSET S : Cardinality(s) = k => iter[s] \in Nat}
  <1>6. \A s \in SUBSET S : IsFiniteSet(s) /\ Cardinality(s) \in Nat
    BY FS_Subset, FS_CardinalityType DEF Weighed
  <1>7. 0 \in T
    BY <1>5, <1>6, FS_EmptySet
  <1>8. ASSUME NEW k \in Nat, k \in T
        PROVE  k + 1 \in T
    <2>1. SUFFICES ASSUME NEW s \in SUBSET S, Cardinality(s) = k + 1
                   PROVE  iter[s] \in Nat
      OBVIOUS
    <2>2. CASE s = {}
      <3>1. iter[s] = 0
        BY <1>5, <2>2
      <3>2. QED
        BY <3>1
    <2>3. CASE s # {}
      <3>1. Chosen(s) \in s /\ w[Chosen(s)] \in Nat
        BY <2>3, ChosenIn DEF Weighed
      <3>2. s \ {Chosen(s)} \in SUBSET S /\ Cardinality(s \ {Chosen(s)}) = k
        BY <1>6, <2>1, <3>1, SmallerCardinality
      <3>3. iter[s \ {Chosen(s)}] \in Nat
        BY <1>8, <3>2
      <3>4. iter[s] = w[Chosen(s)] + iter[s \ {Chosen(s)}]
        BY <1>5, <2>3
      <3>5. QED
        BY <3>1, <3>3, <3>4
    <2>4. QED
      BY <2>2, <2>3
  <1>. HIDE DEF T
  <1>9. \A s \in SUBSET S : iter[s] \in Nat
    <2>1. Nat \subseteq T
      BY <1>7, <1>8, SetInduction
    <2>2. QED
      BY <1>6, <2>1 DEF T
  <1>10. iter \in [SUBSET S -> Nat]
    BY <1>3, <1>9
  <1>11. QED
    BY <1>4, <1>5, <1>10 DEF SumRecurs

(* Two such recursions agree where both are defined.                       *)
LEMMA SumUnique ==
  ASSUME NEW w, NEW S, NEW U, Weighed(w, S), Weighed(w, U), NEW g, NEW h, SumRecurs(g, w, S), SumRecurs(h, w, U),
         NEW s \in SUBSET S, s \subseteq U
  PROVE  g[s] = h[s]
  <1>. DEFINE T == {k \in Nat : \A r \in SUBSET S :
                      r \subseteq U /\ Cardinality(r) = k => g[r] = h[r]}
  <1>1. \A r \in SUBSET S : IsFiniteSet(r) /\ Cardinality(r) \in Nat
    BY FS_Subset, FS_CardinalityType DEF Weighed
  <1>2. 0 \in T
    <2>1. ASSUME NEW r \in SUBSET S, r \subseteq U, Cardinality(r) = 0
          PROVE  g[r] = h[r]
      <3>1. r = {}
        BY <1>1, <2>1, FS_EmptySet
      <3>2. QED
        BY <2>1, <3>1 DEF SumRecurs
    <2>2. QED
      BY <2>1
  <1>3. ASSUME NEW k \in Nat, k \in T
        PROVE  k + 1 \in T
    <2>1. SUFFICES ASSUME NEW r \in SUBSET S, r \subseteq U, Cardinality(r) = k + 1
                   PROVE  g[r] = h[r]
      OBVIOUS
    <2>2. CASE r = {}
      BY <2>1, <2>2 DEF SumRecurs
    <2>3. CASE r # {}
      <3>1. Chosen(r) \in r
        BY <2>3, ChosenIn
      <3>2. Cardinality(r \ {Chosen(r)}) = k /\ r \ {Chosen(r)} \in SUBSET S
            /\ r \ {Chosen(r)} \subseteq U
        BY <1>1, <2>1, <3>1, SmallerCardinality
      <3>3. g[r \ {Chosen(r)}] = h[r \ {Chosen(r)}]
        BY <1>3, <3>2
      <3>4. QED
        BY <2>1, <2>3, <3>3 DEF SumRecurs
    <2>4. QED
      BY <2>2, <2>3
  <1>. HIDE DEF T
  <1>4. Cardinality(s) \in T
    BY <1>1, <1>2, <1>3, SetInduction
  <1>5. QED
    BY <1>4 DEF T

LEMMA SumRecursion ==
  ASSUME NEW w, NEW S, Weighed(w, S)
  PROVE  /\ Sum(w, S) \in Nat
         /\ Sum(w, S) = IF S = {} THEN 0 ELSE w[Chosen(S)] + Sum(w, S \ {Chosen(S)})
  <1>1. PICK g : SumRecurs(g, w, S) /\ Sum(w, S) = g[S]
    BY SumIterates
  <1>2. CASE S = {}
    <2>1. g[S] = 0
      BY <1>1, <1>2 DEF SumRecurs
    <2>2. QED
      BY <1>1, <1>2, <2>1
  <1>3. CASE S # {}
    <2>. DEFINE R == S \ {Chosen(S)}
    <2>1. Weighed(w, R) /\ R \subseteq S
      BY FS_Subset DEF Weighed
    <2>2. PICK h : SumRecurs(h, w, R) /\ Sum(w, R) = h[R]
      BY <2>1, SumIterates
    <2>3. g[R] = h[R]
      BY <1>1, <2>1, <2>2, SumUnique
    <2>4. g[S] = w[Chosen(S)] + g[R] /\ g[S] \in Nat
      BY <1>1, <1>3 DEF SumRecurs
    <2>5. QED
      BY <1>1, <1>3, <2>2, <2>3, <2>4
  <1>4. QED
    BY <1>2, <1>3

(* The sum is that of any element and of the others.                       *)
LEMMA SumWithout ==
  ASSUME NEW w, NEW S, Weighed(w, S), NEW e \in S
  PROVE  Sum(w, S) = w[e] + Sum(w, S \ {e})
  <1>. DEFINE T == {k \in Nat : \A U \in SUBSET S : Cardinality(U) = k =>
                      \A y \in U : Sum(w, U) = w[y] + Sum(w, U \ {y})}
  <1>1. \A U \in SUBSET S : Weighed(w, U) /\ Cardinality(U) \in Nat
    BY FS_Subset, FS_CardinalityType DEF Weighed
  <1>2. 0 \in T
    BY <1>1, FS_EmptySet DEF Weighed
  <1>3. ASSUME NEW k \in Nat, k \in T
        PROVE  k + 1 \in T
    <2>1. SUFFICES ASSUME NEW U \in SUBSET S, Cardinality(U) = k + 1, NEW y \in U
                   PROVE  Sum(w, U) = w[y] + Sum(w, U \ {y})
      OBVIOUS
    <2>. DEFINE x == Chosen(U)
    <2>2. x \in U /\ Weighed(w, U) /\ Weighed(w, U \ {x}) /\ Weighed(w, U \ {y}) /\ Weighed(w, (U \ {x}) \ {y})
      BY <1>1, <2>1, ChosenIn
    <2>3. Sum(w, U) = w[x] + Sum(w, U \ {x})
      BY <2>1, <2>2, SumRecursion
    <2>4. CASE x = y
      BY <2>3, <2>4
    <2>5. CASE x # y
      <3>a. IsFiniteSet(U) /\ Cardinality(U) \in Nat
        BY <1>1, <2>1 DEF Weighed
      <3>b. \A z \in U : Cardinality(U) = Cardinality(U \ {z}) + 1 /\ Cardinality(U \ {z}) \in Nat
        BY <3>a, SmallerCardinality
      <3>1. Cardinality(U \ {x}) = k /\ Cardinality(U \ {y}) = k
        BY <2>1, <2>2, <3>b
      <3>2. Sum(w, U \ {x}) = w[y] + Sum(w, (U \ {x}) \ {y})
        BY <1>3, <2>1, <2>5, <3>1
      <3>3. Sum(w, U \ {y}) = w[x] + Sum(w, (U \ {y}) \ {x})
        BY <1>3, <2>1, <2>2, <2>5, <3>1
      <3>4. (U \ {y}) \ {x} = (U \ {x}) \ {y}
        OBVIOUS
      <3>5. w[x] \in Nat /\ w[y] \in Nat /\ Sum(w, (U \ {x}) \ {y}) \in Nat
        BY <2>1, <2>2, SumRecursion DEF Weighed
      <3>. DEFINE rest == Sum(w, (U \ {x}) \ {y})
      <3>6. Sum(w, U) = w[x] + (w[y] + rest) /\ Sum(w, U \ {y}) = w[x] + rest
        BY <2>3, <3>2, <3>3, <3>4
      <3>. HIDE DEF rest, x
      <3>7. \A a, b, c \in Nat : a + (b + c) = b + (a + c)
        OBVIOUS
      <3>8. QED
        BY <3>5, <3>6, <3>7 DEF rest
    <2>6. QED
      BY <2>4, <2>5
  <1>. HIDE DEF T
  <1>4. Cardinality(S) \in T
    BY <1>1, <1>2, <1>3, SetInduction
  <1>5. QED
    BY <1>4 DEF T

LEMMA SumEmpty ==
  ASSUME NEW w
  PROVE  Sum(w, {}) = 0
  <1>1. Weighed(w, {})
    BY FS_EmptySet DEF Weighed
  <1>2. QED
    BY <1>1, SumRecursion

LEMMA SumSubset ==
  ASSUME NEW w, NEW S, Weighed(w, S), NEW R \in SUBSET S
  PROVE  /\ Sum(w, R) \in Nat /\ Sum(w, S) \in Nat
         /\ Sum(w, R) <= Sum(w, S)
  <1>. DEFINE T == {k \in Nat : \A U \in SUBSET S : Cardinality(U) = k =>
                      \A V \in SUBSET U : Sum(w, V) <= Sum(w, U)}
  <1>1. \A U \in SUBSET S : Weighed(w, U) /\ IsFiniteSet(U) /\ Cardinality(U) \in Nat /\ Sum(w, U) \in Nat
    BY FS_Subset, FS_CardinalityType, SumRecursion DEF Weighed
  <1>2. 0 \in T
    <2>1. SUFFICES ASSUME NEW U \in SUBSET S, Cardinality(U) = 0, NEW V \in SUBSET U
                   PROVE  Sum(w, V) <= Sum(w, U)
      OBVIOUS
    <2>2. U = {}
      BY <1>1, <2>1, FS_EmptySet
    <2>3. V = U
      BY <2>2
    <2>4. QED
      BY <1>1, <2>3
  <1>3. ASSUME NEW k \in Nat, k \in T
        PROVE  k + 1 \in T
    <2>1. SUFFICES ASSUME NEW U \in SUBSET S, Cardinality(U) = k + 1, NEW V \in SUBSET U
                   PROVE  Sum(w, V) <= Sum(w, U)
      OBVIOUS
    <2>2. CASE V = U
      BY <1>1, <2>2
    <2>3. CASE V # U
      <3>1. PICK e \in U : e \notin V
        BY <2>3
      <3>. DEFINE r == U \ {e}
      <3>2. Cardinality(r) = k /\ r \in SUBSET S /\ V \in SUBSET r
        <4>1. IsFiniteSet(U) /\ Cardinality(U) = Cardinality(U \ {e}) + 1 /\ Cardinality(U \ {e}) \in Nat
          BY <1>1, <3>1, SmallerCardinality
        <4>2. QED
          BY <2>1, <3>1, <4>1
      <3>3. Sum(w, U) = w[e] + Sum(w, r) /\ w[e] \in Nat
        BY <1>1, <3>1, SumWithout DEF Weighed
      <3>. HIDE DEF r
      <3>4. Sum(w, V) <= Sum(w, r) /\ Sum(w, r) \in Nat /\ Sum(w, V) \in Nat
        BY <1>1, <1>3, <3>2
      <3>5. QED
        BY <3>3, <3>4
    <2>4. QED
      BY <2>2, <2>3
  <1>. HIDE DEF T
  <1>4. Cardinality(S) \in T
    BY <1>1, <1>2, <1>3, SetInduction
  <1>5. QED
    BY <1>1, <1>4 DEF T

LEMMA SumPositive ==
  ASSUME NEW w, NEW S, Weighed(w, S), S # {}, \A e \in S : w[e] > 0
  PROVE  Sum(w, S) > 0
  <1>1. PICK e \in S : TRUE
    OBVIOUS
  <1>2. Sum(w, S) = w[e] + Sum(w, S \ {e}) /\ w[e] \in Nat /\ w[e] > 0
    BY <1>1, SumWithout DEF Weighed
  <1>3. Sum(w, S \ {e}) \in Nat
    BY SumSubset
  <1>4. QED
    BY <1>2, <1>3

-----------------------------------------------------------------------------
(* An order of a finite set has a first element, and puts the set into one *)
(* sequence.                                                               *)
Orders(R, S) ==
  /\ \A f, g \in S : f # g => <<f, g>> \in R \/ <<g, f>> \in R
  /\ \A f, g, h \in S : <<f, g>> \in R /\ <<g, h>> \in R => <<f, h>> \in R

First(b, S, R) == b \in S /\ \A g \in S \ {b} : <<b, g>> \in R

LEMMA FirstExists ==
  ASSUME NEW S, NEW R, IsFiniteSet(S), S # {}, Orders(R, S)
  PROVE  First(BestOf(S, R), S, R)
  <1>. DEFINE T == {k \in Nat : \A U \in SUBSET S :
                      Cardinality(U) = k /\ U # {} => \E b \in U : First(b, U, R)}
  <1>1. \A U \in SUBSET S : IsFiniteSet(U) /\ Cardinality(U) \in Nat
    BY FS_Subset, FS_CardinalityType
  <1>2. 0 \in T
    BY <1>1, FS_EmptySet
  <1>3. ASSUME NEW k \in Nat, k \in T
        PROVE  k + 1 \in T
    <2>1. SUFFICES ASSUME NEW U \in SUBSET S, Cardinality(U) = k + 1, U # {}
                   PROVE  \E b \in U : First(b, U, R)
      OBVIOUS
    <2>2. PICK x \in U : TRUE
      BY <2>1
    <2>. DEFINE r == U \ {x}
    <2>3. r \in SUBSET S /\ Cardinality(r) = k
      <3>1. IsFiniteSet(U) /\ Cardinality(U) = Cardinality(U \ {x}) + 1 /\ Cardinality(U \ {x}) \in Nat
        BY <1>1, <2>2, SmallerCardinality
      <3>2. QED
        BY <2>1, <3>1
    <2>4. CASE r = {}
      <3>1. First(x, U, R)
        BY <2>4 DEF First
      <3>2. QED
        BY <3>1
    <2>5. CASE r # {}
      <3>1. PICK b \in r : First(b, r, R)
        BY <1>3, <2>3, <2>5
      <3>2. x \in S /\ b \in S /\ b # x /\ \A g \in r : g \in S
        OBVIOUS
      <3>3. CASE <<b, x>> \in R
        <4>1. First(b, U, R)
          BY <3>1, <3>3 DEF First
        <4>2. QED
          BY <4>1
      <3>4. CASE <<x, b>> \in R
        <4>1. \A g \in U \ {x} : <<x, g>> \in R
          <5>1. SUFFICES ASSUME NEW g \in r
                         PROVE  <<x, g>> \in R
            OBVIOUS
          <5>2. CASE g = b
            BY <3>4, <5>2
          <5>3. CASE g # b
            <6>1. <<b, g>> \in R
              BY <3>1, <5>3 DEF First
            <6>2. QED
              BY <3>2, <3>4, <6>1 DEF Orders
          <5>4. QED
            BY <5>2, <5>3
        <4>2. First(x, U, R)
          BY <4>1 DEF First
        <4>3. QED
          BY <4>2
      <3>5. QED
        BY <3>2, <3>3, <3>4 DEF Orders
    <2>6. QED
      BY <2>4, <2>5
  <1>. HIDE DEF T
  <1>4. Cardinality(S) \in T
    BY <1>1, <1>2, <1>3, SetInduction
  <1>5. \E b \in S : First(b, S, R)
    BY <1>4 DEF T
  <1>6. QED
    BY <1>5 DEF First, BestOf

LEMMA OrdersSubset ==
  ASSUME NEW S, NEW R, Orders(R, S), NEW U \in SUBSET S
  PROVE  Orders(R, U)
  <1>1. \A f \in U : f \in S
    OBVIOUS
  <1>2. \A f, g \in U : f # g => <<f, g>> \in R \/ <<g, f>> \in R
    BY <1>1 DEF Orders
  <1>3. \A f, g, h \in U : <<f, g>> \in R /\ <<g, h>> \in R => <<f, h>> \in R
    BY <1>1 DEF Orders
  <1>4. QED
    BY <1>2, <1>3 DEF Orders

(* The recursion of InOrder.                                               *)
InOrderRecurs(k, S, R) ==
  /\ k[0] = <<>> /\ InOrder(S, R) = k[Cardinality(S)]
  /\ \A i \in 1 .. Cardinality(S) : k[i] = Append(k[i - 1], BestOf(S \ ToSet(k[i - 1]), R))

LEMMA InOrderFunction ==
  ASSUME NEW S, NEW R, Cardinality(S) \in Nat
  PROVE  \E k : InOrderRecurs(k, S, R)
  <1>. DEFINE n == Cardinality(S)
              W == {BestOf(S \ U, R) : U \in SUBSET S}
              Grow(v) == Append(v, BestOf(S \ ToSet(v), R))
              Def(f) == [i \in 0 .. n |->
                 IF i = 0 THEN <<>> ELSE Append(f[i - 1], BestOf(S \ ToSet(f[i - 1]), R))]
              step == [i \in 1 .. n |-> [v \in Seq(W) |-> Grow(v)]]
  <1>1. <<>> \in Seq(W) /\ n \in Nat
    OBVIOUS
  <1>2. ASSUME NEW v \in Seq(W)
        PROVE  Grow(v) \in Seq(W)
    <2>1. S \ ToSet(v) = S \ (S \cap ToSet(v)) /\ S \cap ToSet(v) \in SUBSET S
      OBVIOUS
    <2>2. BestOf(S \ ToSet(v), R) \in W
      BY <2>1
    <2>. HIDE DEF W
    <2>3. QED
      BY <2>2
  <1>3. step \in [1 .. n -> [Seq(W) -> Seq(W)]]
    BY <1>2
  <1>s. \A i \in 1 .. n : \A v \in Seq(W) : step[i][v] = Grow(v)
    OBVIOUS
  <1>. HIDE DEF step, W
  <1>4a. \E g : Recurs(g, n, Seq(W), <<>>, step)
    <2>. HIDE DEF n
    <2>1. QED
      BY <1>1, <1>3, Recursion
  <1>4. PICK g : Recurs(g, n, Seq(W), <<>>, step)
    BY <1>4a
  <1>5. g = Def(g)
    <2>1. ASSUME NEW i \in 0 .. n
          PROVE  g[i] = Def(g)[i]
      <3>1. CASE i = 0
        BY <1>4, <3>1 DEF Recurs
      <3>2. CASE i # 0
        <4>1. i \in 1 .. n /\ i - 1 \in 0 .. n
          BY <1>1, <3>2
        <4>2. g[i - 1] \in Seq(W)
          BY <1>4, <4>1 DEF Recurs
        <4>3. g[i] = Grow(g[i - 1])
          BY <1>s, <1>4, <4>1, <4>2 DEF Recurs
        <4>4. QED
          BY <3>2, <4>3
      <3>3. QED
        BY <3>1, <3>2
    <2>2. QED
      BY <1>4, <2>1 DEF Recurs
  <1>. DEFINE k == CHOOSE f : f = Def(f)
  <1>6. k = Def(k)
    BY <1>5
  <1>7. InOrder(S, R) = k[n]
    BY DEF InOrder
  <1>. HIDE DEF k
  <1>8. k[0] = <<>> /\ \A i \in 1 .. n : k[i] = Grow(k[i - 1])
    <2>1. k[0] = Def(k)[0] /\ \A i \in 1 .. n : k[i] = Def(k)[i]
      BY <1>6
    <2>2. 0 \in 0 .. n /\ \A i \in 1 .. n : i \in 0 .. n /\ i # 0
      BY <1>1
    <2>3. QED
      BY <2>1, <2>2
  <1>9. QED
    BY <1>7, <1>8 DEF InOrderRecurs

(* The first n elements of a set in order.                                 *)
Leads(t, S, R, n) ==
  /\ t \in Seq(S) /\ Len(t) = n /\ IsInjective(t)
  /\ IsFiniteSet(ToSet(t)) /\ Cardinality(ToSet(t)) = n
  /\ \A i, j \in 1 .. n : i < j => <<t[i], t[j]>> \in R
  /\ \A i \in 1 .. n : \A g \in S \ ToSet(t) : <<t[i], g>> \in R

LEMMA LeadsOn ==
  ASSUME NEW S, NEW R, NEW n \in Nat, NEW t, Leads(t, S, R, n), NEW b \in S \ ToSet(t),
         First(b, S \ ToSet(t), R)
  PROVE  Leads(Append(t, b), S, R, n + 1)
  <1>. DEFINE u == Append(t, b)
  <1>1. t \in Seq(S) /\ Len(t) = n /\ DOMAIN t = 1 .. n /\ IsInjective(t)
    BY DEF Leads
  <1>2. u \in Seq(S) /\ Len(u) = n + 1 /\ DOMAIN u = 1 .. n + 1
        /\ u[n + 1] = b /\ \A i \in 1 .. n : u[i] = t[i]
    BY <1>1
  <1>. HIDE DEF u
  <1>3. \A i \in 1 .. n + 1 : i = n + 1 \/ i \in 1 .. n
    OBVIOUS
  <1>4. ToSet(u) = ToSet(t) \cup {b}
    <2>1. \A i \in 1 .. n : t[i] \in ToSet(t)
      BY <1>1 DEF ToSet
    <2>2. \A i \in 1 .. n + 1 : u[i] \in ToSet(t) \cup {b}
      BY <1>2, <1>3, <2>1
    <2>3. \A i \in 1 .. n : i \in 1 .. n + 1
      OBVIOUS
    <2>4. n + 1 \in 1 .. n + 1
      OBVIOUS
    <2>5. ToSet(u) \subseteq ToSet(t) \cup {b}
      BY <1>2, <2>2 DEF ToSet
    <2>6. ToSet(t) \cup {b} \subseteq ToSet(u)
      BY <1>1, <1>2, <2>3, <2>4 DEF ToSet
    <2>7. QED
      BY <2>5, <2>6
  <1>5. \A i \in 1 .. n : t[i] \in ToSet(t) /\ t[i] # b
    BY <1>1 DEF ToSet
  <1>6. IsInjective(u)
    <2>1. ASSUME NEW i \in 1 .. n + 1, NEW j \in 1 .. n + 1, u[i] = u[j]
          PROVE  i = j
      BY <1>1, <1>2, <1>3, <1>5, <2>1 DEF IsInjective
    <2>2. QED
      BY <1>2, <2>1 DEF IsInjective
  <1>7. IsFiniteSet(ToSet(u)) /\ Cardinality(ToSet(u)) = n + 1
    <2>1. IsFiniteSet(ToSet(t)) /\ Cardinality(ToSet(t)) = n /\ b \notin ToSet(t)
      BY DEF Leads
    <2>2. IsFiniteSet(ToSet(t) \cup {b}) /\ Cardinality(ToSet(t) \cup {b}) = n + 1
      BY <2>1, FS_AddElement
    <2>3. QED
      BY <1>4, <2>2
  <1>8. \A i, j \in 1 .. n + 1 : i < j => <<u[i], u[j]>> \in R
    <2>1. SUFFICES ASSUME NEW i \in 1 .. n + 1, NEW j \in 1 .. n + 1, i < j
                   PROVE  <<u[i], u[j]>> \in R
      OBVIOUS
    <2>2. i \in 1 .. n
      BY <2>1
    <2>3. CASE j = n + 1
      BY <1>2, <2>2, <2>3 DEF Leads
    <2>4. CASE j \in 1 .. n
      BY <1>2, <2>1, <2>2, <2>4 DEF Leads
    <2>5. QED
      BY <1>3, <2>3, <2>4
  <1>9. \A i \in 1 .. n + 1 : \A g \in S \ ToSet(u) : <<u[i], g>> \in R
    <2>1. SUFFICES ASSUME NEW i \in 1 .. n + 1, NEW g \in S \ ToSet(u)
                   PROVE  <<u[i], g>> \in R
      OBVIOUS
    <2>2. g \in S \ ToSet(t) /\ g # b
      BY <1>4
    <2>3. CASE i = n + 1
      BY <1>2, <2>2, <2>3 DEF First
    <2>4. CASE i \in 1 .. n
      BY <1>2, <2>2, <2>4 DEF Leads
    <2>5. QED
      BY <1>3, <2>3, <2>4
  <1>10. QED
    BY <1>2, <1>6, <1>7, <1>8, <1>9 DEF Leads, u

LEMMA InOrderOfAll ==
  ASSUME NEW S, NEW R, IsFiniteSet(S), Orders(R, S)
  PROVE  LET s == InOrder(S, R) IN
         /\ s \in Seq(S) /\ IsInjective(s) /\ ToSet(s) = S /\ Len(s) = Cardinality(S)
         /\ \A i, j \in DOMAIN s : i < j => <<s[i], s[j]>> \in R
  <1>0. Cardinality(S) \in Nat
    BY FS_CardinalityType
  <1>1. PICK k : InOrderRecurs(k, S, R)
    BY <1>0, InOrderFunction
  <1>. DEFINE T == {n \in Nat : n <= Cardinality(S) => Leads(k[n], S, R, n)}
  <1>2. 0 \in T
    <2>1. k[0] = <<>>
      BY <1>1 DEF InOrderRecurs
    <2>2. ToSet(<<>>) = {}
      BY DEF ToSet
    <2>3. Leads(<<>>, S, R, 0)
      BY <2>2, FS_EmptySet DEF Leads, IsInjective
    <2>4. QED
      BY <2>1, <2>3
  <1>3. ASSUME NEW n \in Nat, n \in T
        PROVE  n + 1 \in T
    <2>1. SUFFICES ASSUME n + 1 <= Cardinality(S)
                   PROVE  Leads(k[n + 1], S, R, n + 1)
      OBVIOUS
    <2>. DEFINE t == k[n]
                U == S \ ToSet(t)
                b == BestOf(U, R)
    <2>2. Leads(t, S, R, n)
      BY <1>0, <1>3, <2>1
    <2>3. k[n + 1] = Append(t, b)
      <3>1. n + 1 \in 1 .. Cardinality(S) /\ (n + 1) - 1 = n
        BY <1>0, <2>1
      <3>2. QED
        BY <1>1, <3>1 DEF InOrderRecurs
    <2>. HIDE DEF t
    <2>4. U # {}
      <3>1. ToSet(t) # S
        BY <1>0, <2>1, <2>2 DEF Leads
      <3>2. ToSet(t) \subseteq S
        BY <2>2 DEF Leads, ToSet
      <3>3. QED
        BY <3>1, <3>2
    <2>5. IsFiniteSet(U) /\ Orders(R, U)
      BY FS_Subset, OrdersSubset
    <2>6. First(b, U, R)
      <3>. HIDE DEF U
      <3>1. QED
        BY <2>4, <2>5, FirstExists
    <2>7. b \in U
      BY <2>6 DEF First
    <2>. HIDE DEF b
    <2>8. Leads(Append(t, b), S, R, n + 1)
      BY <2>2, <2>6, <2>7, LeadsOn
    <2>9. QED
      BY <2>3, <2>8
  <1>. HIDE DEF T
  <1>4. Cardinality(S) \in T
    BY <1>0, <1>2, <1>3, SetInduction
  <1>5. Leads(InOrder(S, R), S, R, Cardinality(S))
    BY <1>0, <1>1, <1>4 DEF T, InOrderRecurs
  <1>. DEFINE s == InOrder(S, R)
  <1>. HIDE DEF s
  <1>6. Leads(s, S, R, Cardinality(S))
    BY <1>5 DEF s
  <1>7. s \in Seq(S) /\ DOMAIN s = 1 .. Cardinality(S) /\ Len(s) = Cardinality(S) /\ ToSet(s) \subseteq S
    <2>1. s \in Seq(S) /\ Len(s) = Cardinality(S)
      BY <1>6 DEF Leads
    <2>2. DOMAIN s = 1 .. Len(s) /\ \A i \in 1 .. Len(s) : s[i] \in S
      BY <2>1
    <2>3. QED
      BY <2>1, <2>2 DEF ToSet
  <1>8. ToSet(s) = S
    BY <1>0, <1>6, <1>7, FS_Subset DEF Leads
  <1>9. QED
    BY <1>6, <1>7, <1>8 DEF Leads, s

-----------------------------------------------------------------------------
(* The recursion of WithinBudget.                                          *)
FitsRecurs(k, of, s, budget) ==
  /\ k[0] = <<>> /\ WithinBudget(of, s, budget) = k[Len(s)]
  /\ \A i \in 1 .. Len(s) :
       k[i] = IF TotalTokens(of, ToSet(k[i - 1])) + Tokens(of, s[i]) <= budget
              THEN Append(k[i - 1], s[i]) ELSE k[i - 1]

LEMMA FitsFunction ==
  ASSUME NEW U, NEW s \in Seq(U), NEW of, NEW budget
  PROVE  \E k : FitsRecurs(k, of, s, budget)
  <1>. DEFINE n == Len(s)
              Grow(v, e) == IF TotalTokens(of, ToSet(v)) + Tokens(of, e) <= budget
                            THEN Append(v, e) ELSE v
              Def(f) == [i \in 0 .. n |->
                 IF i = 0 THEN <<>>
                 ELSE IF TotalTokens(of, ToSet(f[i - 1])) + Tokens(of, s[i]) <= budget
                      THEN Append(f[i - 1], s[i]) ELSE f[i - 1]]
              step == [i \in 1 .. n |-> [v \in Seq(U) |-> Grow(v, s[i])]]
  <1>1. <<>> \in Seq(U) /\ n \in Nat /\ \A i \in 1 .. n : s[i] \in U
    OBVIOUS
  <1>2. \A v \in Seq(U) : \A e \in U : Grow(v, e) \in Seq(U)
    <2>1. \A v \in Seq(U) : \A e \in U : Append(v, e) \in Seq(U)
      OBVIOUS
    <2>2. QED
      BY <2>1
  <1>3. step \in [1 .. n -> [Seq(U) -> Seq(U)]]
    <2>. HIDE DEF Grow
    <2>1. QED
      BY <1>1, <1>2
  <1>s. \A i \in 1 .. n : \A v \in Seq(U) : step[i][v] = Grow(v, s[i])
    <2>. HIDE DEF Grow
    <2>1. QED
      OBVIOUS
  <1>. HIDE DEF step
  <1>4a. \E g : Recurs(g, n, Seq(U), <<>>, step)
    <2>. HIDE DEF n
    <2>1. QED
      BY <1>1, <1>3, Recursion
  <1>4. PICK g : Recurs(g, n, Seq(U), <<>>, step)
    BY <1>4a
  <1>5. g = Def(g)
    <2>1. ASSUME NEW i \in 0 .. n
          PROVE  g[i] = Def(g)[i]
      <3>1. CASE i = 0
        BY <1>4, <3>1 DEF Recurs
      <3>2. CASE i # 0
        <4>1. i \in 1 .. n /\ i - 1 \in 0 .. n
          BY <1>1, <3>2
        <4>2. g[i - 1] \in Seq(U)
          BY <1>4, <4>1 DEF Recurs
        <4>3. g[i] = Grow(g[i - 1], s[i])
          BY <1>s, <1>4, <4>1, <4>2 DEF Recurs
        <4>4. QED
          BY <3>2, <4>3
      <3>3. QED
        BY <3>1, <3>2
    <2>2. QED
      BY <1>4, <2>1 DEF Recurs
  <1>. DEFINE k == CHOOSE f : f = Def(f)
  <1>6. k = Def(k)
    BY <1>5
  <1>7. WithinBudget(of, s, budget) = k[n]
    BY DEF WithinBudget
  <1>. HIDE DEF k
  <1>8. k[0] = <<>> /\ \A i \in 1 .. n : k[i] = Grow(k[i - 1], s[i])
    <2>1. k[0] = Def(k)[0] /\ \A i \in 1 .. n : k[i] = Def(k)[i]
      BY <1>6
    <2>2. 0 \in 0 .. n /\ \A i \in 1 .. n : i \in 0 .. n /\ i # 0
      BY <1>1
    <2>3. QED
      BY <2>1, <2>2
  <1>9. QED
    BY <1>7, <1>8 DEF FitsRecurs

-----------------------------------------------------------------------------
(* The files, their contents and their tokens.                             *)
LEMMA FilesFinite ==
  IsFiniteSet(Files)
  <1>. DEFINE n == Len(Order)
              O == [i \in 1 .. n |-> Order[i]]
  <1>1. Order \in Seq(Files) /\ Files = ToSet(Order)
    BY FilesAssumption DEF Files
  <1>2. n \in Nat /\ DOMAIN Order = 1 .. n
    BY <1>1
  <1>3. \A f \in Files : \E i \in 1 .. n : O[i] = f
    BY <1>1, <1>2 DEF ToSet
  <1>4. O \in [1 .. n -> Files]
    BY <1>1, <1>2 DEF ToSet
  <1>. HIDE DEF O, n
  <1>5. O \in Surjection(1 .. n, Files)
    BY <1>3, <1>4 DEF Surjection
  <1>6. IsFiniteSet(1 .. n)
    BY <1>2, FS_Interval
  <1>7. QED
    BY <1>5, <1>6, FS_Surjection

LEMMA PositionIsOwn ==
  /\ \A f \in Files : Position(f) \in Nat
  /\ \A f, g \in Files : Position(f) = Position(g) => f = g
  <1>1. Order \in Seq(Files) /\ Files = ToSet(Order)
    BY FilesAssumption DEF Files
  <1>2. Len(Order) \in Nat /\ DOMAIN Order = 1 .. Len(Order)
    BY <1>1
  <1>3. \A f \in Files : Position(f) \in DOMAIN Order /\ Order[Position(f)] = f
    BY <1>1 DEF Position, ToSet
  <1>4. QED
    BY <1>2, <1>3

(* The indexes there may be.                                               *)
Indexes == [Files -> Contents \cup {None}]

LEMMA PresentFiles ==
  ASSUME NEW of \in Indexes
  PROVE  /\ Present(of) \subseteq Files /\ Rankable(of) \subseteq Present(of)
         /\ IsFiniteSet(Present(of)) /\ IsFiniteSet(Rankable(of))
         /\ \A f \in Present(of) : of[f] \in Contents
  <1>1. Present(of) \subseteq Files /\ Rankable(of) \subseteq Present(of)
    BY DEF Present, Rankable
  <1>2. IsFiniteSet(Present(of)) /\ IsFiniteSet(Rankable(of))
    BY <1>1, FilesFinite, FS_Subset
  <1>3. \A f \in Present(of) : of[f] \in Contents
    BY DEF Present, Indexes
  <1>4. QED
    BY <1>1, <1>2, <1>3

LEMMA TokensAdded ==
  ASSUME NEW of \in Indexes, NEW S \in SUBSET Present(of)
  PROVE  /\ \A f \in Present(of) : Tokens(of, f) \in Nat
         /\ TotalTokens(of, S) \in Nat
         /\ \A R \in SUBSET S : TotalTokens(of, R) <= TotalTokens(of, S)
         /\ \A f \in S : TotalTokens(of, S) = Tokens(of, f) + TotalTokens(of, S \ {f})
  <1>. DEFINE w == [f \in Present(of) |-> Tokens(of, f)]
  <1>1. \A f \in Present(of) : Tokens(of, f) \in Nat
    BY PresentFiles, ContentAssumption DEF Tokens, Contents
  <1>2. \A f \in Present(of) : w[f] = Tokens(of, f)
    OBVIOUS
  <1>3. \A R : TotalTokens(of, R) = Sum(w, R)
    BY DEF TotalTokens
  <1>. HIDE DEF w
  <1>4. Weighed(w, S)
    <2>1. IsFiniteSet(S)
      BY PresentFiles, FS_Subset
    <2>2. QED
      BY <1>1, <1>2, <2>1 DEF Weighed
  <1>5. \A R \in SUBSET S : Sum(w, R) \in Nat /\ Sum(w, S) \in Nat /\ Sum(w, R) <= Sum(w, S)
    BY <1>4, SumSubset
  <1>6. \A f \in S : Sum(w, S) = w[f] + Sum(w, S \ {f})
    BY <1>4, SumWithout
  <1>7. S \in SUBSET S
    OBVIOUS
  <1>8. QED
    BY <1>1, <1>2, <1>3, <1>5, <1>6, <1>7

LEMMA TokensOfMore ==
  ASSUME NEW of \in Indexes, NEW S \in SUBSET Present(of), NEW f \in Present(of) \ S
  PROVE  TotalTokens(of, S \cup {f}) = TotalTokens(of, S) + Tokens(of, f)
  <1>1. S \cup {f} \in SUBSET Present(of) /\ f \in S \cup {f} /\ (S \cup {f}) \ {f} = S
    OBVIOUS
  <1>2. TotalTokens(of, S \cup {f}) = Tokens(of, f) + TotalTokens(of, (S \cup {f}) \ {f})
    BY <1>1, TokensAdded
  <1>3. TotalTokens(of, S) \in Nat /\ Tokens(of, f) \in Nat
    BY TokensAdded
  <1>4. TotalTokens(of, (S \cup {f}) \ {f}) = TotalTokens(of, S)
    BY <1>1, Zenon
  <1>5. QED
    BY <1>2, <1>3, <1>4

LEMMA NoTokens ==
  ASSUME NEW of
  PROVE  TotalTokens(of, {}) = 0
  BY SumEmpty DEF TotalTokens

LEMMA ToSetAppend ==
  ASSUME NEW U, NEW t \in Seq(U), NEW e \in U
  PROVE  /\ ToSet(Append(t, e)) = ToSet(t) \cup {e} /\ Append(t, e) \in Seq(U)
         /\ ToSet(t) \subseteq U
  <1>. DEFINE u == Append(t, e)
  <1>1. /\ u \in Seq(U) /\ Len(u) = Len(t) + 1 /\ DOMAIN u = 1 .. Len(t) + 1
        /\ DOMAIN t = 1 .. Len(t) /\ Len(t) \in Nat
        /\ u[Len(t) + 1] = e /\ \A i \in 1 .. Len(t) : u[i] = t[i]
    OBVIOUS
  <1>. HIDE DEF u
  <1>2. \A i \in 1 .. Len(t) + 1 : i = Len(t) + 1 \/ i \in 1 .. Len(t)
    BY <1>1
  <1>3. \A i \in 1 .. Len(t) : i \in 1 .. Len(t) + 1 /\ t[i] \in U
    BY <1>1
  <1>4. Len(t) + 1 \in 1 .. Len(t) + 1
    BY <1>1
  <1>5. ToSet(u) \subseteq ToSet(t) \cup {e}
    BY <1>1, <1>2 DEF ToSet
  <1>6. ToSet(t) \cup {e} \subseteq ToSet(u)
    BY <1>1, <1>3, <1>4 DEF ToSet
  <1>7. ToSet(t) \subseteq U
    BY <1>1, <1>3 DEF ToSet
  <1>8. QED
    BY <1>1, <1>5, <1>6, <1>7 DEF u

LEMMA PrefixSet ==
  ASSUME NEW U, NEW s \in Seq(U), NEW n \in Nat, n <= Len(s)
  PROVE  /\ ToSet(SubSeq(s, 1, n)) = {s[i] : i \in 1 .. n}
         /\ ToSet(SubSeq(s, 1, n)) \subseteq ToSet(s) /\ ToSet(s) \subseteq U
  <1>. DEFINE p == SubSeq(s, 1, n)
  <1>1. /\ DOMAIN p = 1 .. n /\ \A i \in 1 .. n : p[i] = s[i]
        /\ DOMAIN s = 1 .. Len(s) /\ \A i \in 1 .. Len(s) : s[i] \in U
    OBVIOUS
  <1>. HIDE DEF p
  <1>2. \A i \in 1 .. n : i \in 1 .. Len(s)
    OBVIOUS
  <1>3. ToSet(p) = {s[i] : i \in 1 .. n}
    BY <1>1 DEF ToSet
  <1>4. ToSet(p) \subseteq ToSet(s) /\ ToSet(s) \subseteq U
    BY <1>1, <1>2 DEF ToSet
  <1>5. QED
    BY <1>3, <1>4 DEF p

(* What of the first n files fits, and why the others do not.              *)
FitsOf(t, of, s, budget, n) ==
  /\ ToSet(t) \subseteq ToSet(SubSeq(s, 1, n)) /\ t = Kept(SubSeq(s, 1, n), ToSet(t))
  /\ TotalTokens(of, ToSet(t)) <= budget
  /\ \A i \in 1 .. n : s[i] \notin ToSet(t) =>
       \E R \in SUBSET ToSet(t) :
         R \subseteq {s[j] : j \in 1 .. i - 1} /\ TotalTokens(of, R) + Tokens(of, s[i]) > budget

LEMMA FitsOfMore ==
  ASSUME NEW of \in Indexes, NEW s \in Seq(Present(of)), IsInjective(s), NEW budget \in Nat,
         NEW n \in Nat, n + 1 <= Len(s), NEW t, FitsOf(t, of, s, budget, n)
  PROVE  FitsOf(IF TotalTokens(of, ToSet(t)) + Tokens(of, s[n + 1]) <= budget
                THEN Append(t, s[n + 1]) ELSE t, of, s, budget, n + 1)
  <1>. DEFINE U == Present(of)
              p == SubSeq(s, 1, n)
              q == SubSeq(s, 1, n + 1)
              e == s[n + 1]
              S == ToSet(t)
  <1>0. Len(s) \in Nat /\ n <= Len(s) /\ n + 1 \in Nat /\ DOMAIN s = 1 .. Len(s)
    OBVIOUS
  <1>1. p \in Seq(U) /\ e \in U /\ q = Append(p, e)
    BY PrefixAppend
  <1>2. ToSet(p) = {s[i] : i \in 1 .. n} /\ ToSet(p) \subseteq U
    BY <1>0, PrefixSet
  <1>3. e \notin ToSet(p)
    BY <1>0, <1>2 DEF IsInjective
  <1>4. ToSet(q) = ToSet(p) \cup {e}
    <2>. HIDE DEF p, q, e, U
    <2>1. QED
      BY <1>1, ToSetAppend
  <1>5. S \subseteq ToSet(p) /\ t = Kept(p, S) /\ TotalTokens(of, S) <= budget
    BY DEF FitsOf
  <1>6. t \in Seq(U)
    <2>. HIDE DEF S, p, U
    <2>1. Kept(p, S) \in Seq(U)
      BY <1>1, KeptElements
    <2>2. QED
      BY <1>5, <2>1
  <1>7. \A i \in 1 .. n : s[i] \notin S =>
          \E R \in SUBSET S :
            R \subseteq {s[j] : j \in 1 .. i - 1} /\ TotalTokens(of, R) + Tokens(of, s[i]) > budget
    BY DEF FitsOf
  <1>8. \A i \in 1 .. n + 1 : i = n + 1 \/ i \in 1 .. n
    OBVIOUS
  <1>9. TotalTokens(of, S) \in Nat /\ Tokens(of, e) \in Nat
    BY <1>1, <1>2, <1>5, TokensAdded
  <1>10. CASE TotalTokens(of, S) + Tokens(of, e) <= budget
    <2>1. ToSet(Append(t, e)) = S \cup {e}
      BY <1>1, <1>6, ToSetAppend
    <2>2. Kept(q, S \cup {e}) = Append(t, e)
      <3>1. Kept(p, S \cup {e}) = t
        <4>1. ToSet(p) \cap (S \cup {e}) = ToSet(p) \cap S
          BY <1>3
        <4>. DEFINE W == S \cup {e}
        <4>. HIDE DEF U, p, S, e, W
        <4>2. Kept(p, W) = Kept(p, S)
          BY <1>1, <4>1, KeptSame DEF W
        <4>3. QED
          BY <1>5, <4>2 DEF W
      <3>. DEFINE W == S \cup {e}
      <3>2. e \in W
        OBVIOUS
      <3>. HIDE DEF U, p, q, S, e, W
      <3>3. Kept(Append(p, e), W) = IF e \in W THEN Append(Kept(p, W), e) ELSE Kept(p, W)
        BY <1>1, KeptAppend
      <3>4. QED
        BY <1>1, <3>1, <3>2, <3>3 DEF W
    <2>3. TotalTokens(of, S \cup {e}) <= budget
      <3>1. S \in SUBSET Present(of) /\ e \in Present(of) \ S
        BY <1>1, <1>2, <1>3, <1>5
      <3>2. TotalTokens(of, S \cup {e}) = TotalTokens(of, S) + Tokens(of, e)
        BY <3>1, TokensOfMore
      <3>3. QED
        BY <1>10, <3>2
    <2>4. ASSUME NEW i \in 1 .. n + 1, s[i] \notin S \cup {e}
          PROVE  \E R \in SUBSET (S \cup {e}) :
                   R \subseteq {s[j] : j \in 1 .. i - 1} /\ TotalTokens(of, R) + Tokens(of, s[i]) > budget
      <3>1. i \in 1 .. n /\ s[i] \notin S
        BY <1>8, <2>4
      <3>2. PICK R \in SUBSET S :
              R \subseteq {s[j] : j \in 1 .. i - 1} /\ TotalTokens(of, R) + Tokens(of, s[i]) > budget
        BY <1>7, <3>1
      <3>3. QED
        BY <3>2
    <2>. DEFINE u == Append(t, e)
    <2>5. S \cup {e} \subseteq ToSet(q)
      BY <1>4, <1>5
    <2>6. FitsOf(u, of, s, budget, n + 1)
      <3>. HIDE DEF u
      <3>1. ToSet(u) = S \cup {e} /\ u = Kept(q, S \cup {e})
        BY <2>1, <2>2 DEF u
      <3>. HIDE DEF S, e
      <3>2. QED
        BY <2>3, <2>4, <2>5, <3>1 DEF FitsOf
    <2>7. QED
      BY <1>10, <2>6
  <1>11. CASE ~(TotalTokens(of, S) + Tokens(of, e) <= budget)
    <2>1. Kept(q, S) = t
      <3>1. e \notin S
        BY <1>3, <1>5
      <3>. HIDE DEF U, p, q, S, e
      <3>2. Kept(Append(p, e), S) = IF e \in S THEN Append(Kept(p, S), e) ELSE Kept(p, S)
        BY <1>1, KeptAppend
      <3>3. QED
        BY <1>1, <1>5, <3>1, <3>2
    <2>2. ASSUME NEW i \in 1 .. n + 1, s[i] \notin S
          PROVE  \E R \in SUBSET S :
                   R \subseteq {s[j] : j \in 1 .. i - 1} /\ TotalTokens(of, R) + Tokens(of, s[i]) > budget
      <3>1. CASE i \in 1 .. n
        BY <1>7, <2>2, <3>1
      <3>2. CASE i = n + 1
        <4>1. S \subseteq {s[j] : j \in 1 .. i - 1}
          <5>1. 1 .. i - 1 = 1 .. n
            BY <3>2
          <5>2. QED
            BY <1>2, <1>5, <5>1
        <4>2. TotalTokens(of, S) + Tokens(of, s[i]) > budget
          BY <1>9, <1>11, <3>2
        <4>3. QED
          BY <4>1, <4>2
      <3>3. QED
        BY <1>8, <3>1, <3>2
    <2>3. S \subseteq ToSet(q)
      BY <1>4, <1>5
    <2>4. FitsOf(t, of, s, budget, n + 1)
      BY <1>5, <2>1, <2>2, <2>3 DEF FitsOf
    <2>5. QED
      BY <1>11, <2>4
  <1>12. QED
    BY <1>10, <1>11

LEMMA FitsProperties ==
  ASSUME NEW of \in Indexes, NEW s \in Seq(Present(of)), IsInjective(s), NEW budget \in Nat
  PROVE  LET t == WithinBudget(of, s, budget) IN
         /\ FitsOf(t, of, s, budget, Len(s))
         /\ t = Kept(s, ToSet(t)) /\ ToSet(t) \subseteq ToSet(s)
         /\ t \in Seq(Present(of)) /\ IsInjective(t) /\ Len(t) <= Len(s)
  <1>1. PICK k : FitsRecurs(k, of, s, budget)
    BY FitsFunction
  <1>. DEFINE T == {n \in Nat : n <= Len(s) => FitsOf(k[n], of, s, budget, n)}
  <1>2. 0 \in T
    <2>1. k[0] = <<>>
      BY <1>1 DEF FitsRecurs
    <2>2. SubSeq(s, 1, 0) = <<>> /\ ToSet(<<>>) = {}
      BY DEF ToSet
    <2>3. Kept(<<>>, {}) = <<>> /\ TotalTokens(of, {}) = 0
      BY KeptEmpty, NoTokens
    <2>. DEFINE e == <<>>
                p == SubSeq(s, 1, 0)
    <2>4. ToSet(e) = {} /\ p = e /\ Kept(p, {}) = e
      BY <2>2, <2>3
    <2>. HIDE DEF p, e
    <2>5. Kept(p, ToSet(e)) = e /\ ToSet(e) \subseteq ToSet(p) /\ TotalTokens(of, ToSet(e)) = 0
      BY <2>3, <2>4
    <2>6. FitsOf(e, of, s, budget, 0)
      BY <2>5 DEF FitsOf, p
    <2>7. QED
      BY <2>1, <2>6 DEF e
  <1>3. ASSUME NEW n \in Nat, n \in T
        PROVE  n + 1 \in T
    <2>1. SUFFICES ASSUME n + 1 <= Len(s)
                   PROVE  FitsOf(k[n + 1], of, s, budget, n + 1)
      OBVIOUS
    <2>2. FitsOf(k[n], of, s, budget, n) /\ n + 1 \in 1 .. Len(s) /\ (n + 1) - 1 = n
      BY <1>3, <2>1
    <2>3. k[n + 1] = IF TotalTokens(of, ToSet(k[n])) + Tokens(of, s[n + 1]) <= budget
                     THEN Append(k[n], s[n + 1]) ELSE k[n]
      BY <1>1, <2>2 DEF FitsRecurs
    <2>4. QED
      BY <2>1, <2>2, <2>3, FitsOfMore
  <1>. HIDE DEF T
  <1>4. Nat \subseteq T /\ Len(s) \in Nat
    BY <1>2, <1>3, SetInduction
  <1>. DEFINE t == WithinBudget(of, s, budget)
  <1>5. FitsOf(t, of, s, budget, Len(s))
    BY <1>1, <1>4 DEF T, FitsRecurs
  <1>. HIDE DEF t
  <1>6. SubSeq(s, 1, Len(s)) = s
    BY WholePrefix
  <1>7. t = Kept(s, ToSet(t)) /\ ToSet(t) \subseteq ToSet(s)
    BY <1>5, <1>6 DEF FitsOf
  <1>. DEFINE S == ToSet(t)
              U == Present(of)
  <1>. HIDE DEF S, U
  <1>8. Kept(s, S) \in Seq(U) /\ Len(Kept(s, S)) <= Len(s) /\ IsInjective(Kept(s, S))
    BY KeptElements DEF U
  <1>9. QED
    BY <1>5, <1>7, <1>8 DEF S, U, t

(* What fits altogether stays as it is.                                    *)
LEMMA FitsSame ==
  ASSUME NEW of \in Indexes, NEW s \in Seq(Present(of)), IsInjective(s), NEW budget \in Nat,
         TotalTokens(of, ToSet(s)) <= budget
  PROVE  WithinBudget(of, s, budget) = s
  <1>1. PICK k : FitsRecurs(k, of, s, budget)
    BY FitsFunction
  <1>. DEFINE T == {n \in Nat : n <= Len(s) => k[n] = SubSeq(s, 1, n)}
  <1>2. 0 \in T
    BY <1>1, WholePrefix DEF FitsRecurs
  <1>3. ASSUME NEW n \in Nat, n \in T
        PROVE  n + 1 \in T
    <2>. DEFINE p == SubSeq(s, 1, n)
                q == SubSeq(s, 1, n + 1)
                e == s[n + 1]
                U == Present(of)
    <2>1. SUFFICES ASSUME n + 1 <= Len(s)
                   PROVE  k[n + 1] = q
      OBVIOUS
    <2>2. k[n] = p /\ n + 1 \in 1 .. Len(s) /\ (n + 1) - 1 = n
      BY <1>3, <2>1
    <2>0. Len(s) \in Nat /\ n <= Len(s) /\ n + 1 \in Nat /\ DOMAIN s = 1 .. Len(s)
      BY <2>1
    <2>3. p \in Seq(U) /\ e \in U /\ q = Append(p, e)
      BY <2>1, PrefixAppend
    <2>4. ToSet(p) = {s[i] : i \in 1 .. n} /\ ToSet(p) \subseteq U
      BY <2>0, PrefixSet
    <2>5. e \notin ToSet(p)
      BY <2>0, <2>1, <2>4 DEF IsInjective
    <2>6. ToSet(q) = ToSet(p) \cup {e}
      <3>. HIDE DEF p, q, e, U
      <3>1. QED
        BY <2>3, ToSetAppend
    <2>7. ToSet(q) \subseteq ToSet(s) /\ ToSet(s) \subseteq U
      BY <2>0, <2>1, PrefixSet
    <2>8. TotalTokens(of, ToSet(q)) <= TotalTokens(of, ToSet(s))
      BY <2>7, TokensAdded
    <2>9. TotalTokens(of, ToSet(p) \cup {e}) = TotalTokens(of, ToSet(p)) + Tokens(of, e)
      <3>1. ToSet(p) \in SUBSET Present(of) /\ e \in Present(of) \ ToSet(p)
        BY <2>3, <2>4, <2>5
      <3>. HIDE DEF p, e, U
      <3>2. QED
        BY <3>1, TokensOfMore
    <2>10. TotalTokens(of, ToSet(q)) \in Nat /\ TotalTokens(of, ToSet(s)) \in Nat
      BY <2>7, TokensAdded
    <2>11. TotalTokens(of, ToSet(p)) + Tokens(of, e) <= budget
      <3>1. TotalTokens(of, ToSet(q)) = TotalTokens(of, ToSet(p)) + Tokens(of, e)
        BY <2>6, <2>9
      <3>2. TotalTokens(of, ToSet(q)) <= budget
        BY <2>8, <2>10
      <3>3. QED
        BY <3>1, <3>2
    <2>12. k[n + 1] = IF TotalTokens(of, ToSet(k[n])) + Tokens(of, s[n + 1]) <= budget
                      THEN Append(k[n], s[n + 1]) ELSE k[n]
      BY <1>1, <2>2 DEF FitsRecurs
    <2>13. QED
      BY <2>2, <2>3, <2>11, <2>12
  <1>. HIDE DEF T
  <1>4. Nat \subseteq T /\ Len(s) \in Nat
    BY <1>2, <1>3, SetInduction
  <1>5. k[Len(s)] = SubSeq(s, 1, Len(s))
    BY <1>4 DEF T
  <1>6. QED
    BY <1>1, <1>5, WholePrefix DEF FitsRecurs

-----------------------------------------------------------------------------
(* The signals are numbers.                                                *)
LEMMA Divided ==
  ASSUME NEW n \in Int, NEW d \in Nat \ {0}
  PROVE  n \div d \in Int
  OBVIOUS

LEMMA SmallerSet ==
  ASSUME NEW S, IsFiniteSet(S), NEW R \in SUBSET S
  PROVE  IsFiniteSet(R) /\ Cardinality(R) \in Nat /\ Cardinality(S) \in Nat /\ Cardinality(R) <= Cardinality(S)
  BY FS_Subset, FS_CardinalityType

LEMMA LexicalIsNumber ==
  ASSUME NEW task, IsFiniteSet(task.words), NEW hints, NEW analyzed, NEW f
  PROVE  Lexical(task, hints, analyzed, f) \in Int
  <1>. DEFINE m == Cardinality(PathMatches(task, f))
              n == Cardinality(task.words)
  <1>1. m \in Nat /\ n \in Nat
    <2>1. PathMatches(task, f) \in SUBSET task.words
      BY DEF PathMatches
    <2>2. QED
      BY <2>1, SmallerSet
  <1>2. task.words # {} => n # 0
    BY FS_EmptySet
  <1>3. task.words # {} => (1000 * m) \div n \in Int
    <2>. HIDE DEF m, n
    <2>1. 1000 * m \in Int
      BY <1>1
    <2>2. QED
      BY <1>1, <1>2, <2>1, Divided
  <1>. HIDE DEF m, n
  <1>4. QED
    BY <1>3 DEF Lexical, m, n

LEMMA MatchedIsNumber ==
  ASSUME NEW task, IsFiniteSet(task.words), NEW of \in Indexes, NEW analyzed, NEW document,
         Present(of) # {}
  PROVE  Matched(task, of, analyzed, document) \in Int
  <1>. DEFINE n == Cardinality(Present(of))
              w == [word \in task.words |-> Idf(n, Frequency(of, analyzed, word))]
  <1>1. n \in 1 .. Cardinality(Files)
    <2>1. Present(of) \in SUBSET Files /\ IsFiniteSet(Files) /\ IsFiniteSet(Present(of))
      BY PresentFiles, FilesFinite
    <2>2. n \in Nat /\ Cardinality(Files) \in Nat /\ n <= Cardinality(Files)
      BY <2>1, SmallerSet
    <2>3. n # 0
      BY <2>1, FS_EmptySet
    <2>4. QED
      BY <2>2, <2>3
  <1>2. ASSUME NEW word
        PROVE  Frequency(of, analyzed, word) \in 0 .. n
    <2>. DEFINE S == {f \in Present(of) : word \in analyzed[f].terms}
    <2>1. S \in SUBSET Present(of) /\ IsFiniteSet(Present(of))
      BY PresentFiles
    <2>2. Cardinality(S) \in Nat /\ Cardinality(S) <= n /\ n \in Nat
      BY <2>1, SmallerSet
    <2>3. Frequency(of, analyzed, word) = Cardinality(S)
      BY DEF Frequency
    <2>. HIDE DEF S, n
    <2>4. QED
      BY <2>2, <2>3
  <1>. HIDE DEF n
  <1>3. \A word \in task.words : w[word] \in Nat \ {0}
    BY <1>1, <1>2, IdfAssumption
  <1>. HIDE DEF w
  <1>4. Weighed(w, task.words)
    BY <1>3 DEF Weighed
  <1>5. task.words # {} => Sum(w, task.words) \in Nat \ {0}
    <2>1. \A word \in task.words : w[word] > 0
      BY <1>3
    <2>2. Sum(w, task.words) \in Nat
      BY <1>4, SumSubset
    <2>3. QED
      BY <1>4, <2>1, <2>2, SumPositive
  <1>6. Sum(w, task.words \cap document) \in Nat
    BY <1>4, SumSubset
  <1>7. task.words # {} => (1000 * Sum(w, task.words \cap document)) \div Sum(w, task.words) \in Int
    <2>1. 1000 * Sum(w, task.words \cap document) \in Int
      BY <1>6
    <2>2. QED
      BY <1>5, <2>1, Divided
  <1>8. Matched(task, of, analyzed, document) =
          IF task.words = {} THEN 0
          ELSE (1000 * Sum(w, task.words \cap document)) \div Sum(w, task.words)
    BY DEF Matched, w, n
  <1>9. QED
    BY <1>7, <1>8

LEMMA ScoreIsNumber ==
  ASSUME NEW task, IsFiniteSet(task.words), NEW hints, NEW of \in Indexes, NEW analyzed,
         NEW recent, NEW anchors, NEW f \in Rankable(of)
  PROVE  Score(task, hints, of, analyzed, recent, anchors, f) \in Int
  <1>1. Lexical(task, hints, analyzed, f) \in Int
    BY LexicalIsNumber
  <1>2. Present(of) # {} /\ f \in Present(of)
    BY PresentFiles
  <1>3. Bm25(task, of, analyzed, f) \in Int
    <2>1. \A document : Matched(task, of, analyzed, document) \in Int
      BY <1>2, MatchedIsNumber
    <2>. DEFINE a == Matched(task, of, analyzed, PathWords[f])
                b == Matched(task, of, analyzed, analyzed[f].symbols)
                c == Matched(task, of, analyzed, analyzed[f].terms)
    <2>2. a \in Int /\ b \in Int /\ c \in Int
      BY <2>1
    <2>3. Bm25(task, of, analyzed, f) = (25 * a + 40 * b + 35 * c) \div 100
      BY DEF Bm25
    <2>. HIDE DEF a, b, c
    <2>4. QED
      BY <2>2, <2>3
  <1>4. Dependency(of, analyzed, anchors, f) \in Int
    BY DEF Dependency
  <1>5. TestRelation(of, analyzed, anchors, f) \in Int
    BY DEF TestRelation
  <1>6. Ownership(task, anchors, f) \in Int
    BY DEF Ownership
  <1>7. KindScore(task, f) \in Int
    BY DEF KindScore
  <1>8. CostScore(of, f) \in Int
    <2>1. Tokens(of, f) \in Nat
      BY <1>2, TokensAdded
    <2>. DEFINE t == Tokens(of, f)
    <2>. HIDE DEF t
    <2>2. t \in Nat
      BY <2>1 DEF t
    <2>3. 1000 + t \in Nat \ {0} /\ 1000 * 1000 \in Int
      BY <2>2
    <2>4. (1000 * 1000) \div (1000 + t) \in Int
      BY <2>3, Divided
    <2>5. QED
      BY <2>4 DEF CostScore, t
  <1>. DEFINE a == Lexical(task, hints, analyzed, f)
              b == Bm25(task, of, analyzed, f)
              c == Dependency(of, analyzed, anchors, f)
              d == TestRelation(of, analyzed, anchors, f)
              e == Ownership(task, anchors, f)
              g == KindScore(task, f)
              h == IF f \in recent THEN 1000 ELSE 0
              i == CostScore(of, f)
  <1>9. h \in Int
    OBVIOUS
  <1>. HIDE DEF a, b, c, d, e, g, h, i
  <1>10. Score(task, hints, of, analyzed, recent, anchors, f) =
           (23 * a + 27 * b + 16 * c + 10 * d + 6 * e + 8 * g + 4 * h + 6 * i) \div 100
    BY DEF Score, a, b, c, d, e, g, h, i
  <1>11. a \in Int /\ b \in Int /\ c \in Int /\ d \in Int /\ e \in Int /\ g \in Int /\ h \in Int /\ i \in Int
    BY <1>1, <1>3, <1>4, <1>5, <1>6, <1>7, <1>8, <1>9 DEF a, b, c, d, e, g, i
  <1>12. QED
    BY <1>10, <1>11

-----------------------------------------------------------------------------
(* The orders of the candidates.                                           *)
Scores(of, scores) == \A f \in Rankable(of) : scores[f] \in Int

LEMMA BetterOrders ==
  ASSUME NEW of \in Indexes, NEW scores, Scores(of, scores)
  PROVE  /\ Orders(ByScore(of, scores), Rankable(of))
         /\ \A f, g \in Rankable(of) : f # g => Better(scores, f, g) \/ Better(scores, g, f)
         /\ \A f, g, h \in Rankable(of) : Better(scores, f, g) /\ Better(scores, g, h) => Better(scores, f, h)
  <1>. DEFINE S == Rankable(of)
              P == [f \in S |-> Position(f)]
  <1>1. S \subseteq Files
    BY PresentFiles
  <1>2. \A f \in S : P[f] \in Nat /\ P[f] = Position(f) /\ scores[f] \in Int
    BY <1>1, PositionIsOwn DEF Scores
  <1>3. \A f, g \in S : P[f] = P[g] => f = g
    BY <1>1, PositionIsOwn
  <1>4. \A f, g \in S : Better(scores, f, g) <=>
          \/ scores[f] > scores[g]
          \/ scores[f] = scores[g] /\ P[f] < P[g]
    BY <1>2 DEF Better
  <1>5. \A f, g \in S : <<f, g>> \in ByScore(of, scores) <=> Better(scores, f, g)
    BY DEF ByScore
  <1>. HIDE DEF S, P
  <1>6. \A f, g \in S : f # g => Better(scores, f, g) \/ Better(scores, g, f)
    BY <1>2, <1>3, <1>4
  <1>7. ASSUME NEW f \in S, NEW g \in S, NEW h \in S, Better(scores, f, g), Better(scores, g, h)
        PROVE  Better(scores, f, h)
    BY <1>2, <1>4, <1>7
  <1>8. Orders(ByScore(of, scores), S)
    BY <1>5, <1>6, <1>7 DEF Orders
  <1>9. QED
    BY <1>6, <1>7, <1>8 DEF S

LEMMA Times ==
  ASSUME NEW x \in Int, NEW y \in Int, NEW n \in Nat, n > 0
  PROVE  (x > y <=> x * n > y * n) /\ (x = y <=> x * n = y * n)
  <1>1. x > y => x * n > y * n
    <2>1. SUFFICES ASSUME x > y
                   PROVE  x * n > y * n
      OBVIOUS
    <2>2. (x - y) * n > 0
      <3>. DEFINE d == x - y
      <3>1. d \in Int /\ d > 0
        BY <2>1
      <3>. HIDE DEF d
      <3>2. d * n > 0
        BY <3>1
      <3>3. QED
        BY <3>2 DEF d
    <2>3. (x - y) * n = x * n - y * n
      OBVIOUS
    <2>. DEFINE a == x * n
                b == y * n
    <2>4. a \in Int /\ b \in Int
      OBVIOUS
    <2>. HIDE DEF a, b
    <2>5. a - b > 0
      BY <2>2, <2>3 DEF a, b
    <2>6. a > b
      BY <2>4, <2>5
    <2>7. QED
      BY <2>6 DEF a, b
  <1>2. y > x => y * n > x * n
    <2>1. SUFFICES ASSUME y > x
                   PROVE  y * n > x * n
      OBVIOUS
    <2>2. (y - x) * n > 0
      <3>. DEFINE d == y - x
      <3>1. d \in Int /\ d > 0
        BY <2>1
      <3>. HIDE DEF d
      <3>2. d * n > 0
        BY <3>1
      <3>3. QED
        BY <3>2 DEF d
    <2>3. (y - x) * n = y * n - x * n
      OBVIOUS
    <2>. DEFINE a == x * n
                b == y * n
    <2>4. a \in Int /\ b \in Int
      OBVIOUS
    <2>. HIDE DEF a, b
    <2>5. b - a > 0
      BY <2>2, <2>3 DEF a, b
    <2>6. b > a
      BY <2>4, <2>5
    <2>7. QED
      BY <2>6 DEF a, b
  <1>. DEFINE a == x * n
              b == y * n
  <1>3. a \in Int /\ b \in Int /\ (x = y => a = b)
    OBVIOUS
  <1>4. (x > y => a > b) /\ (y > x => b > a)
    BY <1>1, <1>2
  <1>. HIDE DEF a, b
  <1>5. (x > y <=> a > b) /\ (x = y <=> a = b)
    BY <1>3, <1>4
  <1>6. QED
    BY <1>5 DEF a, b

LEMMA Crosswise ==
  ASSUME NEW a \in Int, NEW b \in Int, NEW c \in Int, NEW p \in Nat, NEW q \in Nat, NEW r \in Nat,
         p > 0, q > 0, r > 0, a * q > b * p \/ a * q = b * p, b * r > c * q \/ b * r = c * q
  PROVE  /\ a * q > b * p \/ b * r > c * q => a * r > c * p
         /\ a * q = b * p /\ b * r = c * q => a * r = c * p
  <1>. DEFINE x == (a * q) * r
              y == (b * p) * r
              z == (c * q) * p
  <1>1. a * q \in Int /\ b * p \in Int /\ b * r \in Int /\ c * q \in Int /\ a * r \in Int /\ c * p \in Int
    OBVIOUS
  <1>2. (a * q > b * p <=> x > y) /\ (a * q = b * p <=> x = y)
    BY <1>1, Times
  <1>3. (b * r) * p = y
    OBVIOUS
  <1>4. (b * r > c * q <=> (b * r) * p > z) /\ (b * r = c * q <=> (b * r) * p = z)
    <2>. DEFINE m == b * r
                n == c * q
    <2>. HIDE DEF m, n
    <2>1. m \in Int /\ n \in Int
      BY <1>1 DEF m, n
    <2>2. (m > n <=> m * p > n * p) /\ (m = n <=> m * p = n * p)
      BY <2>1, Times
    <2>3. QED
      BY <2>2 DEF m, n
  <1>5. x = (a * r) * q /\ z = (c * p) * q
    OBVIOUS
  <1>6. (a * r > c * p <=> (a * r) * q > (c * p) * q) /\ (a * r = c * p <=> (a * r) * q = (c * p) * q)
    <2>. DEFINE m == a * r
                n == c * p
    <2>. HIDE DEF m, n
    <2>1. m \in Int /\ n \in Int
      BY <1>1 DEF m, n
    <2>2. (m > n <=> m * q > n * q) /\ (m = n <=> m * q = n * q)
      BY <2>1, Times
    <2>3. QED
      BY <2>2 DEF m, n
  <1>7. x \in Int /\ y \in Int /\ z \in Int
    OBVIOUS
  <1>. HIDE DEF x, y, z
  <1>8. (a * q > b * p <=> x > y) /\ (a * q = b * p <=> x = y)
        /\ (b * r > c * q <=> y > z) /\ (b * r = c * q <=> y = z)
        /\ (a * r > c * p <=> x > z) /\ (a * r = c * p <=> x = z)
    BY <1>2, <1>3, <1>4, <1>5, <1>6
  <1>9. (x > y \/ x = y) /\ (y > z \/ y = z)
    BY <1>8
  <1>10. (x > y \/ y > z => x > z) /\ (x = y /\ y = z => x = z)
    BY <1>7, <1>9
  <1>11. QED
    BY <1>8, <1>10

LEMMA CostIsPositive ==
  ASSUME NEW of \in Indexes, NEW chosen \in SUBSET Rankable(of), NEW f \in Rankable(of)
  PROVE  Cost(of, chosen, f) \in Nat /\ Cost(of, chosen, f) > 0
  <1>. DEFINE t == Tokens(of, f)
              n == Cardinality({g \in chosen : Directory[g] = Directory[f]})
  <1>1. t \in Nat
    BY PresentFiles, TokensAdded
  <1>2. n \in Nat
    <2>1. {g \in chosen : Directory[g] = Directory[f]} \in SUBSET Rankable(of)
      OBVIOUS
    <2>2. QED
      BY <2>1, PresentFiles, SmallerSet
  <1>3. Cost(of, chosen, f) = (1000 + t) * (100 + 35 * n)
    BY DEF Cost
  <1>. HIDE DEF t, n
  <1>. DEFINE x == 1000 + t
              y == 100 + 35 * n
  <1>4. x \in Nat /\ y \in Nat /\ x > 0 /\ y > 0
    BY <1>1, <1>2
  <1>5. Cost(of, chosen, f) = x * y
    BY <1>3
  <1>. HIDE DEF x, y
  <1>6. x * y \in Nat /\ x * y > 0
    BY <1>4
  <1>7. QED
    BY <1>5, <1>6

Crossed(of, scores, chosen, f, g) == scores[f] * Cost(of, chosen, g)

LEMMA PreferredOrders ==
  ASSUME NEW of \in Indexes, NEW scores, Scores(of, scores), NEW chosen \in SUBSET Rankable(of)
  PROVE  /\ Orders(ByValue(of, scores, chosen), Rankable(of))
         /\ \A f, g \in Rankable(of) : f # g =>
              Preferred(of, scores, chosen, f, g) \/ Preferred(of, scores, chosen, g, f)
         /\ \A f, g, h \in Rankable(of) :
              Preferred(of, scores, chosen, f, g) /\ Preferred(of, scores, chosen, g, h) =>
                Preferred(of, scores, chosen, f, h)
  <1>. DEFINE S == Rankable(of)
              C(f) == Cost(of, chosen, f)
              P(f, g) == Preferred(of, scores, chosen, f, g)
              L(f, g) == Crossed(of, scores, chosen, f, g)
  <1>1. \A f \in S : scores[f] \in Int
    BY DEF Scores
  <1>2. \A f \in S : C(f) \in Nat /\ C(f) > 0
    BY CostIsPositive
  <1>3. \A f, g \in S : L(f, g) \in Int
    BY <1>1, <1>2 DEF Crossed
  <1>4. \A f, g \in S :
          P(f, g) <=> (L(f, g) > L(g, f) \/ (L(f, g) = L(g, f) /\ Better(scores, f, g)))
    BY <1>1, <1>2 DEF Preferred, Crossed
  <1>5. ASSUME NEW f \in S, NEW g \in S, NEW h \in S,
               L(f, g) > L(g, f) \/ L(f, g) = L(g, f), L(g, h) > L(h, g) \/ L(g, h) = L(h, g)
        PROVE  /\ L(f, g) > L(g, f) \/ L(g, h) > L(h, g) => L(f, h) > L(h, f)
               /\ L(f, g) = L(g, f) /\ L(g, h) = L(h, g) => L(f, h) = L(h, f)
    <2>. DEFINE a == scores[f]
                b == scores[g]
                c == scores[h]
                p == C(f)
                q == C(g)
                r == C(h)
    <2>1. a \in Int /\ b \in Int /\ c \in Int /\ p \in Nat /\ q \in Nat /\ r \in Nat /\ p > 0 /\ q > 0 /\ r > 0
      BY <1>1, <1>2
    <2>2. /\ L(f, g) = a * q /\ L(g, f) = b * p /\ L(g, h) = b * r /\ L(h, g) = c * q
          /\ L(f, h) = a * r /\ L(h, f) = c * p
      BY DEF Crossed
    <2>. HIDE DEF a, b, c, p, q, r
    <2>3. (a * q > b * p \/ a * q = b * p) /\ (b * r > c * q \/ b * r = c * q)
      BY <1>5, <2>2
    <2>4. /\ a * q > b * p \/ b * r > c * q => a * r > c * p
          /\ a * q = b * p /\ b * r = c * q => a * r = c * p
      BY <2>1, <2>3, Crosswise
    <2>5. QED
      BY <2>2, <2>4
  <1>6. /\ \A f, g \in S : f # g => Better(scores, f, g) \/ Better(scores, g, f)
        /\ \A f, g, h \in S : Better(scores, f, g) /\ Better(scores, g, h) => Better(scores, f, h)
    BY BetterOrders
  <1>7. \A f, g \in S : <<f, g>> \in ByValue(of, scores, chosen) <=> P(f, g)
    BY DEF ByValue
  <1>8. ASSUME NEW f \in S, NEW g \in S, f # g
        PROVE  P(f, g) \/ P(g, f)
    <2>. DEFINE x == L(f, g)
                y == L(g, f)
    <2>1. x \in Int /\ y \in Int
      BY <1>3
    <2>2. x > y \/ x = y \/ y > x
      <3>. HIDE DEF x, y
      <3>1. QED
        BY <2>1
    <2>3. Better(scores, f, g) \/ Better(scores, g, f)
      BY <1>6, <1>8
    <2>4. QED
      BY <1>4, <2>2, <2>3
  <1>9. ASSUME NEW f \in S, NEW g \in S, NEW h \in S, P(f, g), P(g, h)
        PROVE  P(f, h)
    <2>1. L(f, g) > L(g, f) \/ (L(f, g) = L(g, f) /\ Better(scores, f, g))
      BY <1>4, <1>9
    <2>2. L(g, h) > L(h, g) \/ (L(g, h) = L(h, g) /\ Better(scores, g, h))
      BY <1>4, <1>9
    <2>3. CASE L(f, g) > L(g, f) \/ L(g, h) > L(h, g)
      <3>1. L(f, h) > L(h, f)
        BY <1>5, <2>1, <2>2, <2>3
      <3>2. QED
        BY <1>4, <3>1
    <2>4. CASE ~(L(f, g) > L(g, f) \/ L(g, h) > L(h, g))
      <3>1. L(f, h) = L(h, f)
        BY <1>5, <2>1, <2>2, <2>4
      <3>2. Better(scores, f, h)
        BY <1>6, <2>1, <2>2, <2>4
      <3>3. QED
        BY <1>4, <3>1, <3>2
    <2>5. QED
      BY <2>3, <2>4
  <1>10. Orders(ByValue(of, scores, chosen), S)
    <2>. HIDE DEF S, P
    <2>1. QED
      BY <1>7, <1>8, <1>9 DEF Orders
  <1>11. QED
    BY <1>8, <1>9, <1>10

LEMMA NamedFirstOrders ==
  ASSUME NEW of \in Indexes, NEW scores, Scores(of, scores), NEW named
  PROVE  Orders(NamedFirst(of, scores, named), Rankable(of))
  <1>. DEFINE S == Rankable(of)
              P(f, g) == Preferred(of, scores, {}, f, g)
  <1>1. /\ \A f, g \in S : f # g => P(f, g) \/ P(g, f)
        /\ \A f, g, h \in S : P(f, g) /\ P(g, h) => P(f, h)
    BY PreferredOrders
  <1>2. \A f, g \in S : <<f, g>> \in NamedFirst(of, scores, named) <=>
          \/ f \in named /\ g \notin named
          \/ /\ f \in named <=> g \in named
             /\ P(f, g)
    BY DEF NamedFirst
  <1>. HIDE DEF S, P
  <1>3. \A f, g \in S : f # g =>
          <<f, g>> \in NamedFirst(of, scores, named) \/ <<g, f>> \in NamedFirst(of, scores, named)
    BY <1>1, <1>2
  <1>4. ASSUME NEW f \in S, NEW g \in S, NEW h \in S, <<f, g>> \in NamedFirst(of, scores, named),
               <<g, h>> \in NamedFirst(of, scores, named)
        PROVE  <<f, h>> \in NamedFirst(of, scores, named)
    BY <1>1, <1>2, <1>4
  <1>5. QED
    BY <1>3, <1>4 DEF Orders, S

-----------------------------------------------------------------------------
(* What is selected, one candidate after the other.                        *)
Picked(of, scores, explicit, threshold, done) ==
  LET first == (Rankable(of) \cap explicit) \ done
      open == {f \in Rankable(of) \ done : scores[f] >= threshold} IN
  CASE first # {} -> done \cup {BestOf(first, ByScore(of, scores))}
    [] first = {} /\ open # {} -> done \cup {BestOf(open, ByValue(of, scores, done))}
    [] OTHER -> done

LEMMA PickedOne ==
  ASSUME NEW of \in Indexes, NEW scores, Scores(of, scores), NEW explicit, NEW threshold,
         NEW done \in SUBSET Rankable(of)
  PROVE  LET first == (Rankable(of) \cap explicit) \ done
             picked == Picked(of, scores, explicit, threshold, done) IN
         /\ picked = done \/ \E e \in Rankable(of) \ done : picked = done \cup {e}
         /\ first # {} => \E e \in first : picked = done \cup {e}
  <1>. DEFINE S == Rankable(of)
              first == (S \cap explicit) \ done
              open == {f \in S \ done : scores[f] >= threshold}
              picked == Picked(of, scores, explicit, threshold, done)
              b == BestOf(first, ByScore(of, scores))
              c == BestOf(open, ByValue(of, scores, done))
  <1>1. picked = CASE first # {} -> done \cup {b}
                   [] first = {} /\ open # {} -> done \cup {c}
                   [] OTHER -> done
    BY DEF Picked
  <1>2. first \in SUBSET S /\ open \in SUBSET S /\ IsFiniteSet(S) /\ open \cap done = {}
    BY PresentFiles
  <1>. HIDE DEF first, open, picked
  <1>3. Orders(ByScore(of, scores), S) /\ Orders(ByValue(of, scores, done), S)
    BY BetterOrders, PreferredOrders
  <1>4. first # {} => b \in first
    <2>1. SUFFICES ASSUME first # {}
                   PROVE  b \in first
      OBVIOUS
    <2>2. IsFiniteSet(first) /\ Orders(ByScore(of, scores), first)
      BY <1>2, <1>3, FS_Subset, OrdersSubset
    <2>3. First(b, first, ByScore(of, scores))
      BY <2>1, <2>2, FirstExists
    <2>4. QED
      BY <2>3 DEF First
  <1>5. open # {} => c \in open
    <2>1. SUFFICES ASSUME open # {}
                   PROVE  c \in open
      OBVIOUS
    <2>2. IsFiniteSet(open) /\ Orders(ByValue(of, scores, done), open)
      BY <1>2, <1>3, FS_Subset, OrdersSubset
    <2>3. First(c, open, ByValue(of, scores, done))
      BY <2>1, <2>2, FirstExists
    <2>4. QED
      BY <2>3 DEF First
  <1>. HIDE DEF b, c
  <1>6. CASE first # {}
    <2>1. picked = done \cup {b} /\ b \in first /\ b \in S \ done
      BY <1>1, <1>2, <1>4, <1>6 DEF first
    <2>2. QED
      BY <2>1 DEF first, picked
  <1>7. CASE first = {} /\ open # {}
    <2>1. picked = done \cup {c} /\ c \in S \ done
      BY <1>1, <1>2, <1>5, <1>7
    <2>2. QED
      BY <1>7, <2>1 DEF first, picked
  <1>8. CASE first = {} /\ open = {}
    <2>1. picked = done
      BY <1>1, <1>8
    <2>2. QED
      BY <1>8, <2>1 DEF first, picked
  <1>9. QED
    BY <1>6, <1>7, <1>8

PickRecurs(k, of, scores, explicit, limit, threshold) ==
  /\ k[0] = {} /\ Selected(of, scores, explicit, limit, threshold) = k[limit]
  /\ \A i \in 1 .. limit : k[i] = Picked(of, scores, explicit, threshold, k[i - 1])

LEMMA PickFunction ==
  ASSUME NEW of \in Indexes, NEW scores, Scores(of, scores), NEW explicit, NEW limit \in Nat, NEW threshold
  PROVE  \E k : PickRecurs(k, of, scores, explicit, limit, threshold)
  <1>. DEFINE V == SUBSET Rankable(of)
              Grow(v) == Picked(of, scores, explicit, threshold, v)
              Def(f) == [i \in 0 .. limit |-> IF i = 0 THEN {} ELSE Grow(f[i - 1])]
              step == [i \in 1 .. limit |-> [v \in V |-> Grow(v)]]
  <1>1. {} \in V
    OBVIOUS
  <1>2. ASSUME NEW v \in V
        PROVE  Grow(v) \in V
    <2>1. Grow(v) = v \/ \E e \in Rankable(of) \ v : Grow(v) = v \cup {e}
      BY PickedOne
    <2>. HIDE DEF Grow
    <2>2. QED
      BY <2>1
  <1>3. step \in [1 .. limit -> [V -> V]]
    <2>. HIDE DEF V, Grow
    <2>1. QED
      BY <1>2
  <1>s. \A i \in 1 .. limit : \A v \in V : step[i][v] = Grow(v)
    OBVIOUS
  <1>. HIDE DEF step, V
  <1>4. PICK g : Recurs(g, limit, V, {}, step)
    BY <1>1, <1>3, Recursion
  <1>5. g = Def(g)
    <2>. HIDE DEF Grow
    <2>1. ASSUME NEW i \in 0 .. limit
          PROVE  g[i] = Def(g)[i]
      <3>1. CASE i = 0
        BY <1>4, <3>1 DEF Recurs
      <3>2. CASE i # 0
        <4>1. i \in 1 .. limit /\ i - 1 \in 0 .. limit
          BY <3>2
        <4>2. g[i - 1] \in V
          BY <1>4, <4>1 DEF Recurs
        <4>3. g[i] = Grow(g[i - 1])
          BY <1>s, <1>4, <4>1, <4>2 DEF Recurs
        <4>4. QED
          BY <3>2, <4>3
      <3>3. QED
        BY <3>1, <3>2
    <2>2. QED
      BY <1>4, <2>1 DEF Recurs
  <1>. DEFINE k == CHOOSE f : f = Def(f)
  <1>6. k = Def(k)
    BY <1>5
  <1>7. Selected(of, scores, explicit, limit, threshold) = k[limit]
    BY DEF Selected, Picked
  <1>. HIDE DEF k
  <1>8. k[0] = {} /\ \A i \in 1 .. limit : k[i] = Grow(k[i - 1])
    <2>. HIDE DEF Grow
    <2>1. k[0] = Def(k)[0] /\ \A i \in 1 .. limit : k[i] = Def(k)[i]
      BY <1>6
    <2>2. 0 \in 0 .. limit /\ \A i \in 1 .. limit : i \in 0 .. limit /\ i # 0
      OBVIOUS
    <2>3. QED
      BY <2>1, <2>2
  <1>9. QED
    BY <1>7, <1>8 DEF PickRecurs

(* After n choices: no more than n files, and either everything that is    *)
(* named or n files that are.                                              *)
PickedOf(done, of, explicit, n) ==
  LET named == Rankable(of) \cap explicit IN
  /\ done \in SUBSET Rankable(of) /\ Cardinality(done) <= n
  /\ named \subseteq done \/ (done \subseteq named /\ Cardinality(done) = n)

LEMMA SelectedProperties ==
  ASSUME NEW of \in Indexes, NEW scores, Scores(of, scores), NEW explicit, NEW limit \in Nat, NEW threshold
  PROVE  LET chosen == Selected(of, scores, explicit, limit, threshold)
             named == Rankable(of) \cap explicit IN
         /\ chosen \subseteq Rankable(of) /\ Cardinality(chosen) <= limit
         /\ Cardinality(named) <= limit => named \subseteq chosen
  <1>. DEFINE S == Rankable(of)
              named == S \cap explicit
  <1>1. PICK k : PickRecurs(k, of, scores, explicit, limit, threshold)
    BY PickFunction
  <1>f. IsFiniteSet(S)
    BY PresentFiles
  <1>. DEFINE T == {n \in Nat : n <= limit => PickedOf(k[n], of, explicit, n)}
  <1>2. 0 \in T
    <2>1. k[0] = {} /\ Cardinality({}) = 0
      BY <1>1, FS_EmptySet DEF PickRecurs
    <2>2. PickedOf({}, of, explicit, 0)
      BY <2>1 DEF PickedOf
    <2>3. QED
      BY <2>1, <2>2
  <1>3. ASSUME NEW n \in Nat, n \in T
        PROVE  n + 1 \in T
    <2>. DEFINE done == k[n]
                first == named \ done
                next == Picked(of, scores, explicit, threshold, done)
    <2>1. SUFFICES ASSUME n + 1 <= limit
                   PROVE  PickedOf(k[n + 1], of, explicit, n + 1)
      OBVIOUS
    <2>2. k[n + 1] = next
      <3>1. n + 1 \in 1 .. limit /\ (n + 1) - 1 = n
        BY <2>1
      <3>2. QED
        BY <1>1, <3>1 DEF PickRecurs
    <2>3. PickedOf(done, of, explicit, n)
      BY <1>3, <2>1
    <2>. HIDE DEF done
    <2>4. /\ done \in SUBSET S /\ Cardinality(done) <= n
          /\ named \subseteq done \/ (done \subseteq named /\ Cardinality(done) = n)
      BY <2>3 DEF PickedOf
    <2>5. /\ next = done \/ \E e \in S \ done : next = done \cup {e}
          /\ first # {} => \E e \in first : next = done \cup {e}
      BY <2>4, PickedOne
    <2>6. IsFiniteSet(done) /\ Cardinality(done) \in Nat
      BY <1>f, <2>4, SmallerSet
    <2>7. \A e : e \notin done => Cardinality(done \cup {e}) = Cardinality(done) + 1
      BY <2>6, FS_AddElement
    <2>. HIDE DEF next
    <2>8. CASE first # {}
      <3>1. PICK e \in first : next = done \cup {e}
        BY <2>5, <2>8
      <3>2. done \subseteq named /\ Cardinality(done) = n
        BY <2>4, <2>8
      <3>3. Cardinality(next) = n + 1 /\ next \subseteq named /\ next \in SUBSET S
        BY <2>4, <2>7, <3>1, <3>2
      <3>4. PickedOf(next, of, explicit, n + 1)
        BY <3>3 DEF PickedOf
      <3>5. QED
        BY <2>2, <3>4
    <2>9. CASE first = {}
      <3>1. named \subseteq done
        BY <2>9
      <3>2. next \in SUBSET S /\ named \subseteq next /\ Cardinality(next) <= n + 1
        <4>1. CASE next = done
          BY <2>4, <2>6, <3>1, <4>1
        <4>2. CASE \E e \in S \ done : next = done \cup {e}
          <5>1. PICK e \in S \ done : next = done \cup {e}
            BY <4>2
          <5>2. Cardinality(next) = Cardinality(done) + 1
            BY <2>7, <5>1
          <5>3. QED
            BY <2>4, <2>6, <3>1, <5>1, <5>2
        <4>3. QED
          BY <2>5, <4>1, <4>2
      <3>3. PickedOf(next, of, explicit, n + 1)
        BY <3>2 DEF PickedOf
      <3>4. QED
        BY <2>2, <3>3
    <2>10. QED
      BY <2>8, <2>9
  <1>. HIDE DEF T
  <1>4. Nat \subseteq T
    BY <1>2, <1>3, SetInduction
  <1>. DEFINE chosen == Selected(of, scores, explicit, limit, threshold)
  <1>5. PickedOf(chosen, of, explicit, limit)
    BY <1>1, <1>4 DEF T, PickRecurs
  <1>. HIDE DEF chosen
  <1>6. /\ chosen \in SUBSET S /\ Cardinality(chosen) <= limit
        /\ named \subseteq chosen \/ (chosen \subseteq named /\ Cardinality(chosen) = limit)
    BY <1>5 DEF PickedOf
  <1>7. Cardinality(named) <= limit => named \subseteq chosen
    <2>1. SUFFICES ASSUME Cardinality(named) <= limit, chosen \subseteq named, Cardinality(chosen) = limit
                   PROVE  named \subseteq chosen
      BY <1>6
    <2>2. IsFiniteSet(named) /\ Cardinality(named) \in Nat /\ IsFiniteSet(chosen)
      BY <1>f, <1>6, SmallerSet
    <2>3. chosen # named => Cardinality(chosen) < Cardinality(named)
      BY <2>1, <2>2, FS_Subset
    <2>4. QED
      BY <2>1, <2>2, <2>3
  <1>8. QED
    BY <1>6, <1>7 DEF chosen
-----------------------------------------------------------------------------
(* The inductive invariant.                                                *)

(* What a session has at its stages.                                       *)
Caller == request.caller
HasPack == stage = "summarize" \/ (stage = "save" /\ Caller # "analyze_task")
HasAnalysis == stage \in {"assess", "rank", "summarize", "save"}
HasAssessment == stage \in {"rank", "summarize", "save"}

Staged ==
  /\ stage \in {"idle", "discover", "analyze"} => analysis = None
  /\ stage = "idle" => assessment = None
  /\ stage \in {"discover", "analyze", "assess"} =>
       assessment = IF Caller = "hook" THEN AssessmentOfTask(Task) ELSE None
  /\ HasAssessment => assessment = Assessment(Task, index, analysis)
  /\ stage \in {"rank", "summarize"} => Caller # "analyze_task"
  /\ ~HasPack => pack = None /\ unread = <<>>
  /\ stage # "save" => unsaved = <<>>
  /\ stage = "save" => unread = <<>>

(* The names that do not count, since they may have been replaced.         *)
Hidden == Secrets \cup {Redacted}

(* What is known of a file is what an analysis of one of its contents has  *)
(* found, of the one of its hash unless the file has been edited under a   *)
(* session, or what the hook leaves of that.                               *)
FoundIn(f, e, c, edited, hidden) ==
  /\ c \in Contents \cup {None} /\ (e.hash # None => c \in Possible(f))
  /\ (f \notin edited => c = e.hash) /\ (e.hash = None => c = None)
  /\ \/ e = Analyzed(f, c, e.hash)
     \/ <<f, e.hash>> \in hidden /\ e = Reduced(Analyzed(f, c, e.hash))
KnownOf(f, e, edited, hidden) ==
  e.hash \in Contents \cup {None} /\ \E c : FoundIn(f, e, c, edited, hidden)
Known(of, edited, hidden) ==
  of = [f \in Files |-> of[f]] /\ \A f \in Files : KnownOf(f, of[f], edited, hidden)

Analyses ==
  /\ DOMAIN cache.analysis \subseteq {"latest"}
  /\ "latest" \in DOMAIN cache.analysis => Known(cache.analysis["latest"], disturbed, sanitized)
  /\ HasAnalysis => Known(analysis, disturbed, sanitized) /\ \A f \in Files : analysis[f].hash = index[f]

(* A file contains what it may contain.                                    *)
Contained == \A f \in Files : disk[f] \in Possible(f)

(* The files are as they have been found, or have been disturbed.          *)
Undisturbed ==
  stage \in {"analyze", "assess", "rank", "summarize"} =>
    \A f \in Files : f \notin disturbed => disk[f] = index[f]

(* A summary is of what its hash names.                                    *)
SummaryFor(f, s, edited) ==
  /\ s = [hash |-> s.hash, of |-> s.of] /\ s.of \in Contents
  /\ f \notin edited => s.of = s.hash
Summaries ==
  /\ \A k \in DOMAIN cache.summary :
       \E t \in DOMAIN Tasks, f \in Files : k = <<t, f>> /\ SummaryFor(f, cache.summary[k], disturbed)
  /\ HasPack =>
       /\ pack.summaries = [f \in Files |-> pack.summaries[f]]
       /\ \A f \in Files : pack.summaries[f] # None =>
            SummaryFor(f, pack.summaries[f], disturbed) /\ pack.summaries[f].hash = index[f]

(* What a ranking is worth, for an index, a task, options and a budget.    *)
Whole(of, options, r) ==
  /\ r.selected \in Seq(Rankable(of)) /\ r.excluded \in Seq(Rankable(of))
  /\ IsInjective(r.selected) /\ IsInjective(r.excluded)
  /\ ToSet(r.selected) \cap ToSet(r.excluded) = {}
  /\ ToSet(r.selected) \cup ToSet(r.excluded) = Rankable(of)
  /\ Len(r.selected) <= options.limit

NamedIn(of, t) == (Tasks[t].paths \cup (Tasks[t].mentioned \cap Present(of))) \cap Rankable(of)
NamedLead(of, t, s) ==
  \A i, j \in DOMAIN s : i < j /\ s[j] \in NamedIn(of, t) => s[i] \in NamedIn(of, t)
Served(of, t, files, budget) == ToSet(WithinBudget(of, files, budget)) \cap NamedIn(of, t)
NamedFit(of, t, options, budget, r) ==
  Cardinality(NamedIn(of, t)) <= options.limit =>
    \A f \in NamedIn(of, t) \ Served(of, t, r.selected, budget) :
      TotalTokens(of, Served(of, t, r.selected, budget)) + Tokens(of, f) > budget

(* What a pack takes from a ranking.                                       *)
Cut(of, r, budget) ==
  LET chosen == WithinBudget(of, r.selected, budget) IN
  [selected |-> chosen, excluded |-> Without(r.selected, ToSet(chosen)) \o r.excluded]
RankingFrom(of, t, options, x) == RankContext(Tasks[t], Hints(Tasks[t], of, x), of, x, options)
CutOfKnown(of, t, options, budget, r, edited, hidden) ==
  \E x : /\ Known(x, edited, hidden) /\ \A f \in Files : x[f].hash = of[f]
         /\ Cut(of, r, budget) = Cut(of, RankingFrom(of, t, options, x), budget)

Ranked(of, t, options, budget, r, edited, hidden) ==
  /\ Whole(of, options, r)
  /\ NamedLead(of, t, r.selected)
  /\ NamedFit(of, t, options, budget, r)
  /\ CutOfKnown(of, t, options, budget, r, edited, hidden)

OptionsOf(k) ==
  [limit |-> k.limit, threshold |-> k.threshold, recent |-> IF k.recent = None THEN {} ELSE k.recent]

Keyed(k) ==
  /\ k.files[1] \in Indexes /\ k.task \in DOMAIN Tasks /\ k.limit \in Nat \ {0}

Rankings ==
  /\ \A k \in DOMAIN cache.ranking :
       /\ Keyed(k)
       /\ Ranked(k.files[1], k.task, OptionsOf(k), ContentBudget, cache.ranking[k], disturbed, sanitized)
  /\ HasPack =>
       /\ Ranked(index, request.task, Options, Budget, ranking, disturbed, sanitized)
       /\ pack = [selected |-> pack.selected, excluded |-> pack.excluded, summaries |-> pack.summaries]
       /\ pack.selected = Cut(index, ranking, Budget).selected
       /\ pack.excluded = Cut(index, ranking, Budget).excluded
       /\ unread \in Seq(Files) /\ ToSet(unread) \subseteq ToSet(pack.selected)
       /\ unread # <<>> => Summarizes

(* The summaries of the files that are no longer unread.                   *)
Summarized ==
  HasPack =>
    \A f \in (ToSet(pack.selected) \ ToSet(unread)) \ disturbed :
      pack.summaries[f] = IF Summarizes THEN [hash |-> index[f], of |-> index[f]] ELSE None

(* What a session saves.                                                   *)
IsRecord(r) ==
  \/ /\ r.kind = "analysis" /\ r.key = "latest"
     /\ r.value = IF Caller = "hook" THEN Sanitized(analysis) ELSE analysis
  \/ r.kind = "ranking" /\ r.key = RankingKey /\ r.value = Evidence /\ Caller # "hook"
  \/ /\ r.kind = "summary"
     /\ \E f \in Files : /\ pack.summaries[f] # None
                         /\ r.key = SummaryKey(f) /\ r.value = pack.summaries[f]
Unsaved ==
  /\ stage = "save" /\ Caller = "analyze_task" => unsaved = <<>>
  /\ unsaved \in Seq(ToSet(unsaved)) /\ \A r \in ToSet(unsaved) : IsRecord(r)

CacheFields ==
  cache = [analysis |-> cache.analysis, ranking |-> cache.ranking, summary |-> cache.summary]

Typed ==
  /\ disk \in Indexes /\ modified \in [Files -> 0 .. MaxEdits]
  /\ sessions \in 0 .. MaxSessions /\ stage \in Stages
  /\ request \in Requests \cup {None} /\ (request = None <=> stage = "idle")
  /\ index \in Indexes /\ stamps \in [Files -> (0 .. MaxEdits) \cup {None}]
  /\ disturbed \subseteq Files /\ sanitized \subseteq Files \X (Contents \cup {None})

IInv ==
  /\ Typed /\ Staged /\ CacheFields /\ Analyses /\ Contained /\ Undisturbed /\ Summaries
  /\ Rankings /\ Summarized /\ Unsaved

-----------------------------------------------------------------------------
(* What rankContext makes is whole, and has the named files first.         *)
LEMMA NamedFits ==
  ASSUME NEW of \in Indexes, NEW t, NEW s \in Seq(Rankable(of)), IsInjective(s), NEW budget \in Nat,
         NamedLead(of, t, s), NamedIn(of, t) \subseteq ToSet(s), NEW f \in NamedIn(of, t) \ Served(of, t, s, budget)
  PROVE  TotalTokens(of, Served(of, t, s, budget)) + Tokens(of, f) > budget
  <1>. DEFINE u == WithinBudget(of, s, budget)
              N == NamedIn(of, t)
              V == Served(of, t, s, budget)
  <1>1. s \in Seq(Present(of)) /\ Rankable(of) \subseteq Present(of)
    BY PresentFiles
  <1>2. FitsOf(u, of, s, budget, Len(s)) /\ ToSet(u) \subseteq ToSet(s)
    BY <1>1, FitsProperties
  <1>3. DOMAIN s = 1 .. Len(s) /\ Len(s) \in Nat
    OBVIOUS
  <1>4. PICK i \in 1 .. Len(s) : s[i] = f
    BY <1>3 DEF ToSet
  <1>. HIDE DEF u
  <1>5. V = ToSet(u) \cap N
    BY DEF Served, u
  <1>. HIDE DEF V, N
  <1>6. f \in N /\ f \notin ToSet(u)
    BY <1>5 DEF N, V
  <1>7. PICK R \in SUBSET ToSet(u) :
          R \subseteq {s[j] : j \in 1 .. i - 1} /\ TotalTokens(of, R) + Tokens(of, s[i]) > budget
    BY <1>2, <1>4, <1>6 DEF FitsOf
  <1>8. R \subseteq N
    <2>1. ASSUME NEW j \in 1 .. i - 1
          PROVE  s[j] \in N
      <3>1. j \in DOMAIN s /\ i \in DOMAIN s /\ j < i
        BY <1>3
      <3>2. QED
        BY <1>4, <1>6, <3>1 DEF NamedLead, N
    <2>2. QED
      BY <1>7, <2>1
  <1>9. R \in SUBSET V /\ V \in SUBSET Present(of) /\ f \in Present(of)
    BY <1>1, <1>5, <1>6, <1>7, <1>8 DEF N, NamedIn
  <1>10. TotalTokens(of, R) <= TotalTokens(of, V) /\ TotalTokens(of, V) \in Nat /\ Tokens(of, f) \in Nat
    BY <1>9, TokensAdded
  <1>11. TotalTokens(of, R) \in Nat
    BY <1>9, TokensAdded
  <1>12. QED
    BY <1>4, <1>7, <1>10, <1>11 DEF V

LEMMA RankContextIsRanked ==
  ASSUME NEW of \in Indexes, NEW t \in DOMAIN Tasks, NEW analyzed, NEW options, options.limit \in Nat,
         NEW budget \in Nat, NEW r,
         LET ranked == RankContext(Tasks[t], Hints(Tasks[t], of, analyzed), of, analyzed, options) IN
           r = [selected |-> ranked.selected, excluded |-> ranked.excluded]
  PROVE  /\ Whole(of, options, r) /\ NamedLead(of, t, r.selected)
         /\ NamedFit(of, t, options, budget, r)
  <1>. DEFINE S == Rankable(of)
              hints == Hints(Tasks[t], of, analyzed)
              anchors == Anchors(Tasks[t], hints, of, analyzed)
              scores == [f \in S |-> Score(Tasks[t], hints, of, analyzed, options.recent, anchors, f)]
              explicit == hints.paths
              chosen == Selected(of, scores, explicit, options.limit, options.threshold)
              first == NamedFirst(of, scores, explicit)
              second == ByScore(of, scores)
  <1>1. r.selected = InOrder(chosen, first) /\ r.excluded = InOrder(S \ chosen, second)
    <2>. DEFINE F(f) == Score(Tasks[t], hints, of, analyzed, options.recent, anchors, f)
                all == {[file |-> f, score |-> F(f)] : f \in S}
                taken == [f \in S |-> (CHOOSE c \in all : c.file = f).score]
    <2>1. ASSUME NEW f \in S
          PROVE  (CHOOSE c \in all : c.file = f).score = F(f)
      <3>. HIDE DEF F
      <3>1. [file |-> f, score |-> F(f)] \in all
        OBVIOUS
      <3>2. \A c \in all : c.file = f => c.score = F(f)
        OBVIOUS
      <3>3. \E c \in all : c.file = f
        BY <3>1
      <3>. HIDE DEF all
      <3>4. QED
        BY <3>2, <3>3
    <2>2. taken = scores
      <3>. HIDE DEF F, all
      <3>1. taken = [f \in S |-> F(f)]
        BY <2>1
      <3>2. QED
        BY <3>1 DEF F
    <2>3. LET picked == Selected(of, taken, explicit, options.limit, options.threshold) IN
          /\ r.selected = InOrder(picked, NamedFirst(of, taken, explicit))
          /\ r.excluded = InOrder(S \ picked, ByScore(of, taken))
      BY DEF RankContext
    <2>. HIDE DEF taken, scores
    <2>4. QED
      BY <2>2, <2>3
  <1>2. explicit = Tasks[t].paths \cup (Tasks[t].mentioned \cap Present(of))
    BY DEF Hints
  <1>3. Scores(of, scores)
    <2>1. IsFiniteSet(Tasks[t].words)
      BY TasksAssumption
    <2>. HIDE DEF hints, anchors
    <2>2. \A f \in S : Score(Tasks[t], hints, of, analyzed, options.recent, anchors, f) \in Int
      BY <2>1, ScoreIsNumber
    <2>3. QED
      BY <2>2 DEF Scores
  <1>. HIDE DEF hints, anchors, explicit, scores
  <1>4. /\ chosen \subseteq S /\ Cardinality(chosen) <= options.limit
        /\ Cardinality(S \cap explicit) <= options.limit => S \cap explicit \subseteq chosen
    BY <1>3, SelectedProperties
  <1>. HIDE DEF chosen
  <1>5. IsFiniteSet(S)
    BY PresentFiles
  <1>6. IsFiniteSet(chosen) /\ IsFiniteSet(S \ chosen)
    BY <1>4, <1>5, FS_Subset
  <1>7. Orders(first, S) /\ Orders(second, S)
    BY <1>3, NamedFirstOrders, BetterOrders
  <1>8. Orders(first, chosen) /\ Orders(second, S \ chosen)
    BY <1>4, <1>7, OrdersSubset
  <1>. HIDE DEF first, second
  <1>. DEFINE s == r.selected
              e == r.excluded
  <1>9. /\ s \in Seq(chosen) /\ IsInjective(s) /\ ToSet(s) = chosen /\ Len(s) = Cardinality(chosen)
        /\ \A i, j \in DOMAIN s : i < j => <<s[i], s[j]>> \in first
    BY <1>1, <1>6, <1>8, InOrderOfAll
  <1>10. e \in Seq(S \ chosen) /\ IsInjective(e) /\ ToSet(e) = S \ chosen
    BY <1>1, <1>6, <1>8, InOrderOfAll
  <1>. HIDE DEF s, e
  <1>11. s \in Seq(S) /\ e \in Seq(S)
    <2>1. chosen \subseteq S /\ S \ chosen \subseteq S
      BY <1>4
    <2>. HIDE DEF S
    <2>2. QED
      BY <1>9, <1>10, <2>1
  <1>12. Whole(of, options, r)
    <2>1. ToSet(s) \cap ToSet(e) = {} /\ ToSet(s) \cup ToSet(e) = S /\ Len(s) <= options.limit
      BY <1>4, <1>9, <1>10
    <2>2. QED
      BY <1>9, <1>10, <1>11, <2>1 DEF Whole, s, e
  <1>13. NamedIn(of, t) = explicit \cap S
    BY <1>2 DEF NamedIn
  <1>14. NamedLead(of, t, s)
    <2>1. SUFFICES ASSUME NEW i \in DOMAIN s, NEW j \in DOMAIN s, i < j, s[j] \in NamedIn(of, t)
                   PROVE  s[i] \in NamedIn(of, t)
      BY DEF NamedLead
    <2>2. <<s[i], s[j]>> \in first /\ s[i] \in S
      BY <1>9, <1>11, <2>1
    <2>3. s[i] \in explicit
      BY <1>13, <2>1, <2>2 DEF first, NamedFirst
    <2>4. QED
      BY <1>13, <2>2, <2>3
  <1>15. NamedFit(of, t, options, budget, r)
    <2>1. SUFFICES ASSUME Cardinality(NamedIn(of, t)) <= options.limit,
                          NEW f \in NamedIn(of, t) \ Served(of, t, s, budget)
                   PROVE  TotalTokens(of, Served(of, t, s, budget)) + Tokens(of, f) > budget
      BY DEF NamedFit, s
    <2>2. NamedIn(of, t) \subseteq ToSet(s)
      <3>1. NamedIn(of, t) = S \cap explicit
        BY <1>13
      <3>2. QED
        BY <1>4, <1>9, <2>1, <3>1
    <2>3. QED
      BY <1>9, <1>11, <1>14, <2>1, <2>2, NamedFits
  <1>16. QED
    BY <1>12, <1>14, <1>15 DEF s

-----------------------------------------------------------------------------
(* What is cut from a whole ranking is whole.                              *)
LEMMA KeptLeads ==
  ASSUME NEW U, NEW s \in Seq(U), NEW S, NEW N, \A i, j \in DOMAIN s : i < j /\ s[j] \in N => s[i] \in N
  PROVE  LET t == Kept(s, S) IN \A i, j \in DOMAIN t : i < j /\ t[j] \in N => t[i] \in N
  <1>. DEFINE Lead(t) == \A i, j \in DOMAIN t : i < j /\ t[j] \in N => t[i] \in N
              p(n) == SubSeq(s, 1, n)
              T == {n \in Nat : n <= Len(s) => Lead(Kept(p(n), S))}
  <1>1. 0 \in T
    <2>1. p(0) = <<>> /\ Kept(<<>>, S) = <<>> /\ Lead(<<>>)
      BY WholePrefix, KeptEmpty
    <2>2. QED
      BY <2>1
  <1>2. ASSUME NEW n \in Nat, n \in T
        PROVE  n + 1 \in T
    <2>. DEFINE t == Kept(p(n), S)
                e == s[n + 1]
                u == Append(t, e)
    <2>1. SUFFICES ASSUME n + 1 <= Len(s)
                   PROVE  Lead(Kept(p(n + 1), S))
      OBVIOUS
    <2>2. Lead(t)
      BY <1>2, <2>1
    <2>3. p(n) \in Seq(U) /\ e \in U /\ p(n + 1) = Append(p(n), e)
      BY <2>1, PrefixAppend
    <2>4. Kept(p(n + 1), S) = IF e \in S THEN u ELSE t
      <3>. DEFINE q == p(n)
      <3>0. q \in Seq(U) /\ p(n + 1) = Append(q, e)
        BY <2>3
      <3>. HIDE DEF q, e
      <3>1. Kept(Append(q, e), S) = IF e \in S THEN Append(Kept(q, S), e) ELSE Kept(q, S)
        BY <2>3, <3>0, KeptAppend
      <3>2. QED
        BY <3>0, <3>1 DEF q
    <2>5. t \in Seq(U) /\ ToSet(t) \subseteq ToSet(p(n))
      <3>. DEFINE q == p(n)
      <3>0. q \in Seq(U)
        BY <2>3
      <3>. HIDE DEF q
      <3>1. Kept(q, S) \in Seq(U) /\ ToSet(Kept(q, S)) = ToSet(q) \cap S
        BY <3>0, KeptElements
      <3>2. QED
        BY <3>1 DEF q
    <2>6. ToSet(p(n)) = {s[i] : i \in 1 .. n}
      BY <2>1, PrefixSet
    <2>. HIDE DEF t
    <2>7. e \in N => \A i \in DOMAIN t : t[i] \in N
      <3>1. ASSUME e \in N, NEW i \in DOMAIN t
            PROVE  t[i] \in N
        <4>1. t[i] \in ToSet(t)
          BY DEF ToSet
        <4>2. PICK m \in 1 .. n : t[i] = s[m]
          BY <2>5, <2>6, <4>1
        <4>3. m \in DOMAIN s /\ n + 1 \in DOMAIN s /\ m < n + 1
          BY <2>1
        <4>4. QED
          BY <3>1, <4>2, <4>3
      <3>2. QED
        BY <3>1
    <2>8. Lead(u)
      <3>1. /\ DOMAIN u = 1 .. Len(t) + 1 /\ DOMAIN t = 1 .. Len(t) /\ Len(t) \in Nat
            /\ u[Len(t) + 1] = e /\ \A i \in 1 .. Len(t) : u[i] = t[i]
        BY <2>3, <2>5
      <3>. HIDE DEF u, e
      <3>2. \A i \in 1 .. Len(t) + 1 : i = Len(t) + 1 \/ i \in 1 .. Len(t)
        BY <3>1
      <3>3. SUFFICES ASSUME NEW i \in DOMAIN u, NEW j \in DOMAIN u, i < j, u[j] \in N
                     PROVE  u[i] \in N
        OBVIOUS
      <3>4. i \in 1 .. Len(t)
        BY <3>1, <3>3
      <3>5. CASE j = Len(t) + 1
        BY <2>7, <3>1, <3>3, <3>4, <3>5
      <3>6. CASE j \in 1 .. Len(t)
        BY <2>2, <3>1, <3>3, <3>4, <3>6
      <3>7. QED
        BY <3>1, <3>2, <3>5, <3>6
    <2>9. QED
      BY <2>2, <2>4, <2>8
  <1>. HIDE DEF T
  <1>3. Nat \subseteq T /\ Len(s) \in Nat
    BY <1>1, <1>2, SetInduction
  <1>4. Lead(Kept(p(Len(s)), S))
    BY <1>3 DEF T
  <1>5. QED
    BY <1>4, WholePrefix

LEMMA ConcatSets ==
  ASSUME NEW U, NEW a \in Seq(U), NEW b \in Seq(U)
  PROVE  /\ ToSet(a \o b) = ToSet(a) \cup ToSet(b) /\ a \o b \in Seq(U)
         /\ IsInjective(a) /\ IsInjective(b) /\ ToSet(a) \cap ToSet(b) = {} => IsInjective(a \o b)
  <1>. DEFINE c == a \o b
              m == Len(a)
              n == Len(b)
  <1>1. /\ c \in Seq(U) /\ DOMAIN c = 1 .. m + n /\ DOMAIN a = 1 .. m /\ DOMAIN b = 1 .. n
        /\ m \in Nat /\ n \in Nat
        /\ \A i \in 1 .. m : c[i] = a[i]
        /\ \A i \in 1 .. m + n : i > m => c[i] = b[i - m]
    OBVIOUS
  <1>. HIDE DEF c, m, n
  <1>2. \A i \in 1 .. m + n : i \in 1 .. m \/ (i > m /\ i - m \in 1 .. n)
    BY <1>1
  <1>3. \A i \in 1 .. m : i \in 1 .. m + n
    BY <1>1
  <1>4. \A i \in 1 .. n : i + m \in 1 .. m + n /\ i + m > m /\ (i + m) - m = i
    BY <1>1
  <1>5. ToSet(c) \subseteq ToSet(a) \cup ToSet(b)
    BY <1>1, <1>2 DEF ToSet
  <1>6. ToSet(a) \subseteq ToSet(c)
    BY <1>1, <1>3 DEF ToSet
  <1>7. ToSet(b) \subseteq ToSet(c)
    <2>1. ASSUME NEW i \in 1 .. n
          PROVE  b[i] \in ToSet(c)
      <3>1. c[i + m] = b[i] /\ i + m \in DOMAIN c
        BY <1>1, <1>4
      <3>2. QED
        BY <3>1 DEF ToSet
    <2>2. QED
      BY <1>1, <2>1 DEF ToSet
  <1>8. ASSUME IsInjective(a), IsInjective(b), ToSet(a) \cap ToSet(b) = {}
        PROVE  IsInjective(c)
    <2>1. SUFFICES ASSUME NEW i \in 1 .. m + n, NEW j \in 1 .. m + n, c[i] = c[j]
                   PROVE  i = j
      BY <1>1 DEF IsInjective
    <2>2. \A k \in 1 .. m : \A l \in 1 .. n : a[k] # b[l]
      BY <1>1, <1>8 DEF ToSet
    <2>3. CASE i \in 1 .. m /\ j \in 1 .. m
      BY <1>1, <1>8, <2>1, <2>3 DEF IsInjective
    <2>4. CASE i \in 1 .. m /\ j \notin 1 .. m
      BY <1>1, <1>2, <2>1, <2>2, <2>4
    <2>5. CASE i \notin 1 .. m /\ j \in 1 .. m
      BY <1>1, <1>2, <2>1, <2>2, <2>5
    <2>6. CASE i \notin 1 .. m /\ j \notin 1 .. m
      <3>1. i - m \in 1 .. n /\ j - m \in 1 .. n /\ b[i - m] = b[j - m]
        BY <1>1, <1>2, <2>1, <2>6
      <3>2. i - m = j - m
        BY <1>1, <1>8, <3>1 DEF IsInjective
      <3>3. QED
        BY <1>1, <3>2
    <2>7. QED
      BY <2>3, <2>4, <2>5, <2>6
  <1>9. QED
    BY <1>1, <1>5, <1>6, <1>7, <1>8 DEF c

LEMMA InjectiveLength ==
  ASSUME NEW U, NEW s \in Seq(U), IsInjective(s)
  PROVE  Cardinality(ToSet(s)) = Len(s)
  <1>. DEFINE n == Len(s)
              g == [i \in 1 .. n |-> s[i]]
  <1>1. DOMAIN s = 1 .. n /\ n \in Nat
    OBVIOUS
  <1>2. /\ g \in [1 .. n -> ToSet(s)] /\ \A i, j \in 1 .. n : g[i] = g[j] => i = j
        /\ \A x \in ToSet(s) : \E i \in 1 .. n : g[i] = x
    BY <1>1 DEF ToSet, IsInjective
  <1>. HIDE DEF g, n
  <1>3. g \in Injection(1 .. n, ToSet(s)) /\ g \in Surjection(1 .. n, ToSet(s))
    BY <1>2 DEF Injection, Surjection, IsInjective
  <1>4. IsFiniteSet(1 .. n) /\ Cardinality(1 .. n) = n
    BY <1>1, FS_Interval
  <1>5. QED
    BY <1>3, <1>4, FS_Surjection DEF n

LEMMA CutIsWhole ==
  ASSUME NEW of \in Indexes, NEW options, options.limit \in Nat, NEW budget \in Nat, NEW r, Whole(of, options, r)
  PROVE  LET c == Cut(of, r, budget)
             u == WithinBudget(of, r.selected, budget) IN
         /\ Whole(of, options, c) /\ c.selected = u /\ TotalTokens(of, ToSet(u)) <= budget
         /\ u = Kept(r.selected, ToSet(u)) /\ ToSet(u) \subseteq ToSet(r.selected)
         /\ WithinBudget(of, u, budget) = u
         /\ Cut(of, c, budget) = c
  <1>. DEFINE S == Rankable(of)
              s == r.selected
              e == r.excluded
              u == WithinBudget(of, s, budget)
              w == Kept(s, ToSet(s) \ ToSet(u))
              c == Cut(of, r, budget)
  <1>1. /\ s \in Seq(S) /\ e \in Seq(S) /\ IsInjective(s) /\ IsInjective(e)
        /\ ToSet(s) \cap ToSet(e) = {} /\ ToSet(s) \cup ToSet(e) = S /\ Len(s) <= options.limit
    BY DEF Whole
  <1>2. S \subseteq Present(of)
    BY PresentFiles
  <1>3. c = [selected |-> u, excluded |-> w \o e]
    BY DEF Cut, Without
  <1>. HIDE DEF s, e
  <1>4. s \in Seq(Present(of))
    <2>. HIDE DEF S
    <2>1. QED
      BY <1>1, <1>2
  <1>5. /\ FitsOf(u, of, s, budget, Len(s)) /\ u = Kept(s, ToSet(u)) /\ ToSet(u) \subseteq ToSet(s)
        /\ u \in Seq(Present(of)) /\ IsInjective(u) /\ Len(u) <= Len(s)
    BY <1>1, <1>4, FitsProperties
  <1>6. TotalTokens(of, ToSet(u)) <= budget
    BY <1>5 DEF FitsOf
  <1>7. WithinBudget(of, u, budget) = u
    <2>. HIDE DEF u
    <2>1. QED
      BY <1>5, <1>6, FitsSame
  <1>. HIDE DEF u
  <1>8. u \in Seq(S)
    <2>1. Kept(s, ToSet(u)) \in Seq(S)
      BY <1>1, KeptElements
    <2>2. QED
      BY <1>5, <2>1
  <1>9. w \in Seq(S) /\ ToSet(w) = ToSet(s) \ ToSet(u) /\ IsInjective(w)
    <2>1. w \in Seq(S) /\ ToSet(w) = ToSet(s) \cap (ToSet(s) \ ToSet(u)) /\ IsInjective(w)
      BY <1>1, KeptElements
    <2>2. QED
      BY <2>1
  <1>. HIDE DEF w, c, S
  <1>10. ToSet(w) \cap ToSet(e) = {}
    BY <1>1, <1>9
  <1>11. ToSet(w \o e) = ToSet(w) \cup ToSet(e) /\ w \o e \in Seq(S) /\ IsInjective(w \o e)
    BY <1>1, <1>9, <1>10, ConcatSets
  <1>12. Whole(of, options, c)
    <2>1. c.selected = u /\ c.excluded = w \o e
      BY <1>3
    <2>2. ToSet(u) \cap ToSet(w \o e) = {} /\ ToSet(u) \cup ToSet(w \o e) = S
      BY <1>1, <1>5, <1>9, <1>11
    <2>3. Len(u) <= options.limit
      <3>1. Len(u) \in Nat /\ Len(s) \in Nat
        BY <1>1, <1>8
      <3>2. QED
        BY <1>1, <1>5, <3>1
    <2>4. QED
      BY <1>5, <1>8, <1>11, <2>1, <2>2, <2>3 DEF Whole, S
  <1>13. Cut(of, c, budget) = c
    <2>. DEFINE v == w \o e
    <2>1. c.selected = u /\ c.excluded = v
      BY <1>3
    <2>2. Kept(u, ToSet(u) \ ToSet(u)) = <<>>
      <3>1. ToSet(u) \cap (ToSet(u) \ ToSet(u)) = {}
        OBVIOUS
      <3>2. QED
        BY <1>8, <3>1, KeptAll
    <2>. HIDE DEF v
    <2>3. <<>> \o v = v
      BY <1>11 DEF v
    <2>4. Cut(of, c, budget) = [selected |-> u, excluded |-> Kept(u, ToSet(u) \ ToSet(u)) \o v]
      BY <1>7, <2>1 DEF Cut, Without
    <2>5. QED
      BY <1>3, <2>2, <2>3, <2>4 DEF v
  <1>14. QED
    BY <1>3, <1>5, <1>6, <1>7, <1>12, <1>13 DEF c, s, u

LEMMA CutIsRanked ==
  ASSUME NEW of \in Indexes, NEW t, NEW options, options.limit \in Nat, NEW budget \in Nat, NEW r,
         NEW edited, NEW hidden, Ranked(of, t, options, budget, r, edited, hidden)
  PROVE  Ranked(of, t, options, budget, Cut(of, r, budget), edited, hidden)
  <1>. DEFINE c == Cut(of, r, budget)
              u == WithinBudget(of, r.selected, budget)
              s == r.selected
  <1>1. Whole(of, options, r) /\ NamedLead(of, t, s) /\ NamedFit(of, t, options, budget, r)
    BY DEF Ranked
  <1>2. /\ Whole(of, options, c) /\ c.selected = u /\ u = Kept(s, ToSet(u))
        /\ WithinBudget(of, u, budget) = u /\ Cut(of, c, budget) = c
    BY <1>1, CutIsWhole
  <1>3. s \in Seq(Rankable(of))
    BY <1>1 DEF Whole
  <1>. HIDE DEF u, s
  <1>4. NamedLead(of, t, u)
    <2>1. \A i, j \in DOMAIN s : i < j /\ s[j] \in NamedIn(of, t) => s[i] \in NamedIn(of, t)
      BY <1>1 DEF NamedLead
    <2>2. LET v == Kept(s, ToSet(u)) IN
          \A i, j \in DOMAIN v : i < j /\ v[j] \in NamedIn(of, t) => v[i] \in NamedIn(of, t)
      BY <1>3, <2>1, KeptLeads
    <2>3. QED
      BY <1>2, <2>2 DEF NamedLead
  <1>5. NamedFit(of, t, options, budget, c)
    <2>1. Served(of, t, c.selected, budget) = Served(of, t, s, budget)
      <3>1. Served(of, t, s, budget) = ToSet(u) \cap NamedIn(of, t)
        BY DEF Served, u, s
      <3>2. Served(of, t, u, budget) = ToSet(u) \cap NamedIn(of, t)
        BY <1>2 DEF Served
      <3>3. QED
        BY <1>2, <3>1, <3>2
    <2>. HIDE DEF c
    <2>2. QED
      BY <1>1, <2>1 DEF NamedFit, s
  <1>7. CutOfKnown(of, t, options, budget, c, edited, hidden)
    <2>1. CutOfKnown(of, t, options, budget, r, edited, hidden)
      BY DEF Ranked
    <2>2. QED
      BY <1>2, <2>1 DEF CutOfKnown
  <1>. HIDE DEF c
  <1>8. QED
    BY <1>2, <1>4, <1>5, <1>7 DEF Ranked, c

-----------------------------------------------------------------------------
(* A task is assessed by the imports and by the symbols that are in it.    *)
LEMMA AssessedAlike ==
  ASSUME NEW task, ~NamesSecrets(task), NEW of, NEW x, NEW y,
         \A f \in Files : x[f].imports = y[f].imports /\ x[f].symbols \ Hidden = y[f].symbols \ Hidden
  PROVE  Assessment(task, of, x) = Assessment(task, of, y)
  <1>1. Present(of) \subseteq Files
    BY DEF Present
  <1>2. \A f \in Files : Dependencies(of, x, f) = Dependencies(of, y, f)
    BY DEF Dependencies
  <1>3. \A f \in Files : TestTargets(of, x, f) = TestTargets(of, y, f)
    BY <1>2 DEF TestTargets
  <1>4. \A e \in task.words \cup task.symbols : e \notin Hidden
    BY DEF NamesSecrets, Hidden
  <1>5. \A f \in Files : \A e : e \notin Hidden => (e \in x[f].symbols <=> e \in y[f].symbols)
    <2>1. SUFFICES ASSUME NEW f \in Files, NEW e, e \notin Hidden
                   PROVE  e \in x[f].symbols <=> e \in y[f].symbols
      OBVIOUS
    <2>2. x[f].symbols \ Hidden = y[f].symbols \ Hidden
      OBVIOUS
    <2>3. e \in x[f].symbols \ Hidden <=> e \in y[f].symbols \ Hidden
      BY <2>2
    <2>4. QED
      BY <2>1, <2>3
  <1>. DEFINE kx == UNION {x[f].symbols : f \in Present(of)}
              ky == UNION {y[f].symbols : f \in Present(of)}
              hx == Hints(task, of, x)
              hy == Hints(task, of, y)
  <1>6. kx \cap task.words = ky \cap task.words
    <2>1. ASSUME NEW e \in task.words
          PROVE  e \in kx <=> e \in ky
      <3>1. \A f \in Present(of) : e \in x[f].symbols <=> e \in y[f].symbols
        BY <1>1, <1>4, <1>5
      <3>2. QED
        BY <3>1
    <2>. HIDE DEF kx, ky
    <2>2. QED
      BY <2>1
  <1>7. hx = hy
    <2>1. hx.symbols = task.symbols \cup (kx \cap task.words)
      BY DEF Hints
    <2>2. hy.symbols = task.symbols \cup (ky \cap task.words)
      BY DEF Hints
    <2>3. hx.symbols = hy.symbols
      BY <1>6, <2>1, <2>2
    <2>4. QED
      BY <2>3 DEF Hints
  <1>8. \A e \in hx.symbols : e \notin Hidden
    <2>1. hx.symbols \subseteq task.symbols \cup task.words
      BY DEF Hints
    <2>2. QED
      BY <1>4, <2>1
  <1>. HIDE DEF kx, ky, hx, hy
  <1>9. Scope(hx, of, x) = Scope(hx, of, y)
    <2>. DEFINE Direct(z) == hx.paths \cup {f \in Present(of) : z[f].symbols \cap hx.symbols # {}}
                Needs(z, f) == Dependencies(of, z, f)
                Linked(z, direct) ==
                  {f \in Present(of) : \/ Needs(z, f) \cap direct # {}
                                       \/ TestTargets(of, z, f) \cap direct # {}
                                       \/ f \in direct /\ Needs(z, f) # {}}
                All(z) == Direct(z) \cup Linked(z, Direct(z))
                            \cup UNION {Needs(z, f) : f \in Linked(z, Direct(z))}
    <2>1. \A z : Scope(hx, of, z) = Cardinality(All(z))
      BY DEF Scope
    <2>2. Direct(x) = Direct(y)
      <3>1. \A f \in Present(of) : x[f].symbols \cap hx.symbols # {} <=> y[f].symbols \cap hx.symbols # {}
        <4>1. \A f \in Present(of) : \A e \in hx.symbols : e \in x[f].symbols <=> e \in y[f].symbols
          BY <1>1, <1>5, <1>8
        <4>2. QED
          BY <4>1
      <3>2. QED
        BY <3>1
    <2>. DEFINE d == Direct(x)
    <2>3. Linked(x, d) = Linked(y, d)
      <3>. HIDE DEF d
      <3>1. \A f \in Present(of) : Needs(x, f) = Needs(y, f) /\ TestTargets(of, x, f) = TestTargets(of, y, f)
        BY <1>1, <1>2, <1>3
      <3>2. QED
        BY <3>1
    <2>. DEFINE l == Linked(x, d)
    <2>4. {Needs(x, f) : f \in l} = {Needs(y, f) : f \in l}
      <3>1. \A f \in l : Needs(x, f) = Needs(y, f)
        BY <1>1, <1>2
      <3>. HIDE DEF l
      <3>2. QED
        BY <3>1
    <2>5. All(x) = d \cup l \cup UNION {Needs(x, f) : f \in l}
      OBVIOUS
    <2>6. Linked(y, Direct(y)) = l
      BY <2>2, <2>3
    <2>7. All(y) = d \cup l \cup UNION {Needs(y, f) : f \in l}
      <3>. HIDE DEF Direct, Linked, Needs
      <3>1. QED
        BY <2>2, <2>6
    <2>8. All(x) = All(y)
      <3>. HIDE DEF All, d, l, Needs
      <3>1. QED
        BY <2>4, <2>5, <2>7
    <2>9. QED
      BY <2>1, <2>8
  <1>10. QED
    BY <1>7, <1>9 DEF Assessment, hx, hy

(* A task that the hook skips, and in which the workspace sees nothing of  *)
(* its own, is about no file.                                              *)
LEMMA SkipsAlike ==
  ASSUME NEW t \in DOMAIN Tasks, AssessmentOfTask(Tasks[t]).mode = "skip", NEW of, NEW analyzed,
         LET hints == Hints(Tasks[t], of, analyzed) IN
           /\ hints.paths = Tasks[t].paths /\ hints.symbols = Tasks[t].symbols
           /\ hints.packages = Tasks[t].packages
  PROVE  Assessment(Tasks[t], of, analyzed).mode = "skip"
  <1>. DEFINE task == Tasks[t]
              hints == Hints(task, of, analyzed)
              own == HintsOfTask(task)
              scope == ScopeOfTask(task)
              complexity == Complexity(task, own, scope)
              risk == Risk(task, scope)
              p == Cardinality(task.paths)
              s == Cardinality(task.symbols)
  <1>1. /\ IsFiniteSet(task.paths) /\ IsFiniteSet(task.symbols) /\ task.tests \in Nat
        /\ task.length \in 1 .. 4
    BY TasksAssumption
  <1>2. p \in Nat /\ s \in Nat
    BY <1>1, FS_CardinalityType
  <1>3. scope = p + s + task.tests
    BY DEF ScopeOfTask
  <1>4. ModeOf(complexity, risk) = "skip"
    BY DEF AssessmentOfTask, Assessed
  <1>. HIDE DEF complexity, risk
  <1>5. complexity \notin {"large", "medium", "small"}
    BY <1>4 DEF ModeOf
  <1>. HIDE DEF scope, own
  <1>6. ~(scope >= 12) /\ ~(scope >= 3) /\ ~(scope >= 1)
    <2>1. ~(task.operation \in {"migrate", "refactor"} \/ scope >= 12)
      BY <1>5 DEF complexity, Complexity
    <2>2. ~(scope >= 3 \/ own.packages # {} \/ Cardinality(own.paths) >= 2)
      BY <1>5, <2>1 DEF complexity, Complexity
    <2>3. ~(scope >= 1 \/ task.operation # "unknown")
      BY <1>5, <2>1, <2>2 DEF complexity, Complexity
    <2>4. QED
      BY <2>1, <2>2, <2>3
  <1>. HIDE DEF p, s
  <1>7. p = 0 /\ s = 0 /\ scope = 0
    BY <1>1, <1>2, <1>3, <1>6
  <1>8. task.paths = {} /\ task.symbols = {}
    BY <1>1, <1>7, FS_EmptySet DEF p, s
  <1>9. hints = own
    BY DEF Hints, HintsOfTask, own
  <1>10. own.paths = {} /\ own.symbols = {}
    BY <1>8 DEF HintsOfTask, own
  <1>11. Scope(own, of, analyzed) = 0
    <2>1. {f \in Present(of) : analyzed[f].symbols \cap own.symbols # {}} = {}
      BY <1>10
    <2>2. Scope(own, of, analyzed) = Cardinality({})
      BY <1>10, <2>1 DEF Scope
    <2>3. QED
      BY <2>2, FS_EmptySet
  <1>12. Assessment(task, of, analyzed) = AssessmentOfTask(task)
    <2>1. Assessment(task, of, analyzed) = Assessed(task, own, Scope(own, of, analyzed))
      BY <1>9 DEF Assessment
    <2>2. AssessmentOfTask(task) = Assessed(task, own, scope)
      BY DEF AssessmentOfTask, own, scope
    <2>3. QED
      BY <1>7, <1>11, <2>1, <2>2
  <1>13. QED
    BY <1>12

-----------------------------------------------------------------------------
(* The steps, with one for all the ways in which a session ends.           *)
Ends ==
  /\ stage # "idle" /\ Leave
  /\ UNCHANGED <<user, cache, sessions, history>>
Edits == \E f \in Files : \E content \in Versions[f] : UserEdits(f, content)

LEMMA Steps ==
  ASSUME [Next]_vars
  PROVE  \/ Start \/ Ends \/ Discover \/ Analyze \/ Assess \/ Rank \/ Summarize \/ Finish
         \/ Save \/ Edits \/ UNCHANGED vars
  <1>1. Skip => Ends
    BY DEF Skip, Ends
  <1>2. Answer => Ends
    BY DEF Answer, Ends
  <1>3. Stop => Ends
    BY DEF Stop, Ends
  <1>4. QED
    BY <1>1, <1>2, <1>3 DEF Next, Edits

LEMMA RequestTypes ==
  ASSUME NEW r \in Requests
  PROVE  /\ r.caller \in Callers /\ r.task \in DOMAIN Tasks /\ r.includeSummaries \in BOOLEAN
         /\ r.options = [limit |-> r.options.limit, threshold |-> r.options.threshold,
                         recent |-> r.options.recent]
         /\ r.options.limit \in Nat \ {0} /\ r.options.recent \in SUBSET Files /\ r.options.recent # None
  <1>1. r.options \in [limit: Nat \ {0}, threshold: Nat, recent: SUBSET Files]
    BY RunAssumption
  <1>2. /\ r.options = [limit |-> r.options.limit, threshold |-> r.options.threshold,
                        recent |-> r.options.recent]
        /\ r.options.limit \in Nat \ {0} /\ r.options.recent \in SUBSET Files
    BY <1>1
  <1>3. r.options.recent # None
    BY <1>2, RunAssumption
  <1>4. r.caller \in Callers /\ r.task \in DOMAIN Tasks /\ r.includeSummaries \in BOOLEAN
    BY RunAssumption
  <1>5. QED
    BY <1>2, <1>3, <1>4

LEMMA ModeKnown ==
  ASSUME NEW t \in DOMAIN Tasks, NEW hints, NEW scope
  PROVE  Assessed(Tasks[t], hints, scope).mode \in DOMAIN TokenBudget
  <1>. DEFINE complexity == Complexity(Tasks[t], hints, scope)
              risk == Risk(Tasks[t], scope)
  <1>1. complexity \in {"trivial", "small", "medium", "large"}
    <2>1. Tasks[t].length \in 1 .. 4
      BY TasksAssumption
    <2>2. <<"trivial", "small", "medium", "large">>[Tasks[t].length] \in {"trivial", "small", "medium", "large"}
      BY <2>1
    <2>3. QED
      BY <2>2 DEF Complexity
  <1>. HIDE DEF complexity, risk
  <1>2. ModeOf(complexity, risk) \in {"skip", "light", "context_pack", "context_pack_with_summaries"}
    BY <1>1 DEF ModeOf
  <1>3. QED
    BY <1>2 DEF Assessed, TokenBudget, complexity, risk

LEMMA LatestTime ==
  ASSUME NEW m \in Nat, NEW S \in SUBSET (0 .. m), S # {}
  PROVE  Max(S) \in S
  <1>. DEFINE T == {k \in Nat : m - k \in S}
              R == OpToRel(<, Nat)
  <1>1. T \subseteq Nat /\ T # {}
    <2>1. PICK s \in S : TRUE
      OBVIOUS
    <2>2. m - s \in Nat /\ m - (m - s) = s
      BY <2>1
    <2>3. QED
      BY <2>1, <2>2
  <1>2. IsWellFoundedOn(R, Nat)
    BY NatLessThanWellFounded
  <1>3. \A x, y \in Nat : <<y, x>> \in R <=> y < x
    BY DEF OpToRel
  <1>. HIDE DEF R
  <1>4. PICK x \in T : \A y \in T : ~ (<<y, x>> \in R)
    BY <1>1, <1>2, WFMin
  <1>5. \A k \in S : m - x >= k
    <2>1. SUFFICES ASSUME NEW k \in S, ~(m - x >= k)
                   PROVE  FALSE
      OBVIOUS
    <2>2. k \in 0 .. m /\ m - x \in 0 .. m /\ x \in Nat
      BY <1>4
    <2>3. m - k \in Nat /\ m - (m - k) = k /\ m - k < x
      BY <2>1, <2>2
    <2>4. m - k \in T
      BY <2>1, <2>3
    <2>5. QED
      BY <1>3, <1>4, <2>2, <2>3, <2>4
  <1>6. m - x \in S
    BY <1>4
  <1>7. \E s \in S : \A k \in S : s >= k
    BY <1>5, <1>6
  <1>8. QED
    BY <1>7 DEF Max

LEMMA EditTime ==
  ASSUME Typed, NEW f \in Files, NEW content \in Versions[f], UserEdits(f, content)
  PROVE  /\ disk' \in Indexes /\ modified' \in [Files -> 0 .. MaxEdits]
         /\ disk' = [disk EXCEPT ![f] = content]
  <1>1. MaxEdits \in Nat /\ content \in Contents \cup {None}
    BY RunAssumption
  <1>. DEFINE S == {modified[g] : g \in Files}
  <1>2. \A g \in Files : modified[g] \in 0 .. MaxEdits /\ modified[g] < MaxEdits
    BY DEF Typed, UserEdits
  <1>3. MaxEdits - 1 \in Nat /\ S \subseteq 0 .. MaxEdits - 1 /\ S # {}
    BY <1>1, <1>2
  <1>4. Max(S) \in S
    <2>. HIDE DEF S
    <2>1. QED
      BY <1>3, LatestTime
  <1>5. Max(S) + 1 \in 0 .. MaxEdits
    <2>. DEFINE n == Max(S)
    <2>1. n \in 0 .. MaxEdits - 1
      BY <1>3, <1>4
    <2>. HIDE DEF n
    <2>2. n + 1 \in 0 .. MaxEdits
      BY <1>1, <2>1
    <2>3. QED
      BY <2>2 DEF n
  <1>6. modified' = [modified EXCEPT ![f] = Max(S) + 1] /\ disk' = [disk EXCEPT ![f] = content]
    BY DEF UserEdits
  <1>. HIDE DEF S
  <1>7. QED
    BY <1>1, <1>5, <1>6 DEF Typed, Indexes

LEMMA TypedStep ==
  ASSUME Typed, [Next]_vars
  PROVE  Typed'
  <1>. USE DEF Typed, user, history, found, local
  <1>s. stage \in Stages
    OBVIOUS
  <1>1. CASE Start
    <2>1. PICK r \in Requests : request' = r
      BY <1>1 DEF Start
    <2>2. r # None
      BY RunAssumption
    <2>3. sessions' \in 0 .. MaxSessions
      BY <1>1, RunAssumption DEF Start
    <2>4. stage' = "discover" /\ UNCHANGED <<disk, modified, index, stamps, disturbed, sanitized>>
      BY <1>1 DEF Start
    <2>5. QED
      BY <2>1, <2>2, <2>3, <2>4 DEF Stages
  <1>2. CASE Ends
    <2>1. Nothing \in Indexes /\ Nothing \in [Files -> (0 .. MaxEdits) \cup {None}]
      BY DEF Nothing, Indexes
    <2>2. /\ UNCHANGED <<disk, modified, sessions, disturbed, sanitized>>
          /\ stage' = "idle" /\ request' = None /\ index' = Nothing /\ stamps' = Nothing
      BY <1>2 DEF Ends, Leave
    <2>3. QED
      BY <2>1, <2>2 DEF Stages
  <1>3. CASE Discover
    <2>1. stage = "discover" /\ stage' = "analyze" /\ index' = disk
          /\ stamps' = [f \in Files |-> IF disk[f] = None THEN None ELSE modified[f]]
          /\ UNCHANGED <<disk, modified, sessions, request, disturbed, sanitized>>
      BY <1>3 DEF Discover
    <2>2. stamps' \in [Files -> (0 .. MaxEdits) \cup {None}]
      BY <2>1
    <2>3. QED
      BY <2>1, <2>2 DEF Stages
  <1>4. CASE Analyze
    BY <1>4 DEF Analyze, Stages
  <1>5. CASE Assess
    BY <1>5 DEF Assess, Stages
  <1>6. CASE Rank
    BY <1>6 DEF Rank, Stages
  <1>7. CASE Summarize
    BY <1>7 DEF Summarize
  <1>8. CASE Finish
    BY <1>8 DEF Finish, Stages
  <1>9. CASE Save
    <2>1. sanitized' \subseteq Files \X (Contents \cup {None})
      <3>1. \/ sanitized' = sanitized
            \/ sanitized' = sanitized \cup {<<f, index[f]>> : f \in Files}
        BY <1>9 DEF Save
      <3>2. {<<f, index[f]>> : f \in Files} \subseteq Files \X (Contents \cup {None})
        BY DEF Indexes
      <3>3. QED
        BY <3>1, <3>2
    <2>2. UNCHANGED <<disk, modified, sessions, stage, request, index, stamps, disturbed>>
      BY <1>9 DEF Save
    <2>3. QED
      BY <2>1, <2>2
  <1>10. CASE Edits
    <2>0. PICK f \in Files : \E content \in Versions[f] : UserEdits(f, content)
      BY <1>10 DEF Edits
    <2>1. PICK content \in Versions[f] : UserEdits(f, content)
      BY <2>0
    <2>2. disk' \in Indexes /\ modified' \in [Files -> 0 .. MaxEdits]
      BY <2>1, EditTime
    <2>3. disturbed' \subseteq Files /\ UNCHANGED <<sessions, stage, request, index, stamps, sanitized>>
      BY <2>1 DEF UserEdits
    <2>4. QED
      BY <2>2, <2>3
  <1>11. CASE UNCHANGED vars
    BY <1>11 DEF vars
  <1>12. QED
    BY <1>1, <1>2, <1>3, <1>4, <1>5, <1>6, <1>7, <1>8, <1>9, <1>10, <1>11, Steps

LEMMA StagedStep ==
  ASSUME Typed, Staged, [Next]_vars
  PROVE  Staged'
  <1>. USE DEF Staged, HasPack, HasAssessment, Caller, Task, user, history, found, local
  <1>s. stage \in Stages
    BY DEF Typed
  <1>1. CASE Start
    <2>1. PICK r \in Requests :
            request' = r /\ assessment' = IF r.caller = "hook" THEN AssessmentOfTask(Tasks[r.task]) ELSE None
      BY <1>1 DEF Start
    <2>2. stage = "idle" /\ stage' = "discover" /\ UNCHANGED <<analysis, pack, unread, unsaved>>
      BY <1>1 DEF Start
    <2>3. QED
      BY <2>1, <2>2
  <1>2. CASE Ends
    BY <1>2 DEF Ends, Leave
  <1>3. CASE Discover
    BY <1>3 DEF Discover
  <1>4. CASE Analyze
    BY <1>4 DEF Analyze
  <1>5. CASE Assess
    BY <1>5 DEF Assess
  <1>6. CASE Rank
    BY <1>6 DEF Rank
  <1>7. CASE Summarize
    BY <1>7 DEF Summarize
  <1>8. CASE Finish
    BY <1>8 DEF Finish
  <1>9. CASE Save
    BY <1>9 DEF Save
  <1>10. CASE Edits
    BY <1>10 DEF Edits, UserEdits
  <1>11. CASE UNCHANGED vars
    BY <1>11 DEF vars
  <1>12. QED
    BY <1>1, <1>2, <1>3, <1>4, <1>5, <1>6, <1>7, <1>8, <1>9, <1>10, <1>11, Steps

LEMMA UndisturbedStep ==
  ASSUME Typed, Undisturbed, [Next]_vars
  PROVE  Undisturbed'
  <1>. USE DEF Undisturbed, user, history, found, local
  <1>s. stage \in Stages /\ disk \in Indexes
    BY DEF Typed
  <1>1. CASE Start
    BY <1>1 DEF Start
  <1>2. CASE Ends
    BY <1>2 DEF Ends, Leave
  <1>3. CASE Discover
    BY <1>3 DEF Discover
  <1>4. CASE Analyze
    BY <1>4 DEF Analyze
  <1>5. CASE Assess
    BY <1>5 DEF Assess
  <1>6. CASE Rank
    BY <1>6 DEF Rank
  <1>7. CASE Summarize
    BY <1>7 DEF Summarize
  <1>8. CASE Finish
    BY <1>8 DEF Finish
  <1>9. CASE Save
    BY <1>9 DEF Save
  <1>10. CASE Edits
    <2>0. PICK f \in Files : \E content \in Versions[f] : UserEdits(f, content)
      BY <1>10 DEF Edits
    <2>1. PICK content \in Versions[f] : UserEdits(f, content)
      BY <2>0
    <2>2. \A g \in Files : g # f => disk'[g] = disk[g]
      BY <2>1, <1>s DEF UserEdits, Indexes
    <2>3. stage' = stage /\ index' = index
      BY <2>1 DEF UserEdits
    <2>4. stage \in {"analyze", "assess", "rank", "summarize"} => disturbed' = disturbed \cup {f}
      BY <2>1 DEF UserEdits
    <2>5. QED
      BY <2>2, <2>3, <2>4
  <1>11. CASE UNCHANGED vars
    BY <1>11 DEF vars
  <1>12. QED
    BY <1>1, <1>2, <1>3, <1>4, <1>5, <1>6, <1>7, <1>8, <1>9, <1>10, <1>11, Steps

(* What is disturbed or sanitized stays so.                                *)
LEMMA HistoryGrows ==
  ASSUME Typed, [Next]_vars
  PROVE  /\ disturbed \subseteq disturbed' /\ sanitized \subseteq sanitized'
         /\ stage \notin {"idle", "discover", "save"} \/ disturbed' = disturbed
         /\ cache' = cache \/ Save
  <1>. USE DEF user, history, found, local
  <1>0. CASE ~Save /\ ~Edits
    <2>1. UNCHANGED <<cache, disturbed, sanitized>>
      BY <1>0, Steps DEF Start, Ends, Discover, Analyze, Assess, Rank, Summarize, Finish, vars
    <2>2. QED
      BY <2>1
  <1>1. CASE Save
    BY <1>1 DEF Save
  <1>2. CASE Edits
    <2>0. PICK f \in Files : \E content \in Versions[f] : UserEdits(f, content)
      BY <1>2 DEF Edits
    <2>1. PICK content \in Versions[f] : UserEdits(f, content)
      BY <2>0
    <2>2. QED
      BY <2>1 DEF UserEdits
  <1>3. QED
    BY <1>0, <1>1, <1>2

LEMMA CacheStep ==
  ASSUME Typed, CacheFields, [Next]_vars
  PROVE  CacheFields'
  <1>1. CASE cache' = cache
    BY <1>1 DEF CacheFields
  <1>2. CASE Save
    BY <1>2 DEF Save, CacheFields
  <1>3. QED
    BY <1>1, <1>2, HistoryGrows

(* What a save leaves in the cache.                                        *)
SavesAnalysis ==
  /\ cache'.analysis = Put(cache.analysis, "latest", IF Caller = "hook" THEN Sanitized(analysis) ELSE analysis)
  /\ cache'.ranking = cache.ranking /\ cache'.summary = cache.summary
  /\ sanitized' = IF Caller = "hook" THEN sanitized \cup {<<f, index[f]>> : f \in Files} ELSE sanitized
SavesRanking ==
  /\ cache'.ranking = Put(cache.ranking, RankingKey, Evidence) /\ Caller # "hook"
  /\ cache'.analysis = cache.analysis /\ cache'.summary = cache.summary
SavesSummary ==
  /\ cache'.analysis = cache.analysis /\ cache'.ranking = cache.ranking
  /\ \E f \in Files :
       /\ pack.summaries[f] # None
       /\ cache'.summary = Put(cache.summary, SummaryKey(f), pack.summaries[f])

LEMMA FirstOfSome ==
  ASSUME NEW S, NEW s \in Seq(S), s # <<>>
  PROVE  /\ Head(s) \in ToSet(s) /\ Tail(s) \in Seq(S) /\ ToSet(Tail(s)) \subseteq ToSet(s)
         /\ ToSet(s) = {Head(s)} \cup ToSet(Tail(s)) /\ ToSet(s) \subseteq S
  <1>1. DOMAIN s = 1 .. Len(s) /\ Len(s) \in Nat /\ Len(s) # 0 /\ Head(s) = s[1] /\ \A i \in 1 .. Len(s) : s[i] \in S
    OBVIOUS
  <1>2. Tail(s) \in Seq(S) /\ DOMAIN Tail(s) = 1 .. Len(s) - 1 /\ \A i \in 1 .. Len(s) - 1 : Tail(s)[i] = s[i + 1]
    OBVIOUS
  <1>3. 1 \in 1 .. Len(s) /\ \A i \in 1 .. Len(s) - 1 : i + 1 \in 1 .. Len(s)
    BY <1>1
  <1>4. Head(s) \in ToSet(s) /\ ToSet(Tail(s)) \subseteq ToSet(s) /\ ToSet(s) \subseteq S
    BY <1>1, <1>2, <1>3 DEF ToSet
  <1>5. ToSet(s) \subseteq {Head(s)} \cup ToSet(Tail(s))
    <2>1. ASSUME NEW i \in 1 .. Len(s), i # 1
          PROVE  s[i] \in ToSet(Tail(s))
      <3>1. i - 1 \in 1 .. Len(s) - 1 /\ (i - 1) + 1 = i
        BY <1>1, <2>1
      <3>2. QED
        BY <1>2, <3>1 DEF ToSet
    <2>2. QED
      BY <1>1, <2>1 DEF ToSet
  <1>6. QED
    BY <1>2, <1>4, <1>5

LEMMA OwnElements ==
  ASSUME NEW S, NEW s \in Seq(S)
  PROVE  s \in Seq(ToSet(s))
  <1>1. DOMAIN s = 1 .. Len(s) /\ Len(s) \in Nat /\ s = [i \in 1 .. Len(s) |-> s[i]]
    OBVIOUS
  <1>2. \A i \in 1 .. Len(s) : s[i] \in ToSet(s)
    BY <1>1 DEF ToSet
  <1>3. QED
    BY <1>1, <1>2

LEMMA SaveOf ==
  ASSUME Typed, CacheFields, Unsaved, Save
  PROVE  /\ SavesAnalysis \/ SavesRanking \/ SavesSummary
         /\ stage = "save" /\ HasPack /\ Caller # "analyze_task"
         /\ UNCHANGED <<user, sessions, stage, local, disturbed>>
         /\ unsaved' = Tail(unsaved)
  <1>. DEFINE r == Head(unsaved)
  <1>1. r \in ToSet(unsaved)
    BY FirstOfSome DEF Unsaved, Save
  <1>2. IsRecord(r)
    BY <1>1 DEF Unsaved
  <1>3. stage = "save" /\ Caller # "analyze_task" /\ HasPack
    BY DEF Unsaved, Save, HasPack
  <1>4. /\ cache' = [cache EXCEPT ![r.kind] = Put(@, r.key, r.value)]
        /\ sanitized' = IF request.caller = "hook" /\ r.kind = "analysis"
                        THEN sanitized \cup {<<f, index[f]>> : f \in Files} ELSE sanitized
        /\ UNCHANGED <<user, sessions, stage, local, disturbed>> /\ unsaved' = Tail(unsaved)
    BY DEF Save
  <1>. HIDE DEF r
  <1>5. CASE r.kind = "analysis" /\ r.key = "latest"
             /\ r.value = IF Caller = "hook" THEN Sanitized(analysis) ELSE analysis
    <2>1. /\ cache'.analysis = Put(cache.analysis, r.key, r.value)
          /\ cache'.ranking = cache.ranking /\ cache'.summary = cache.summary
      BY <1>4, <1>5 DEF CacheFields
    <2>2. sanitized' = IF Caller = "hook" THEN sanitized \cup {<<f, index[f]>> : f \in Files} ELSE sanitized
      BY <1>4, <1>5 DEF Caller
    <2>3. SavesAnalysis
      BY <1>5, <2>1, <2>2 DEF SavesAnalysis
    <2>4. QED
      BY <1>3, <1>4, <2>3
  <1>6. CASE r.kind = "ranking" /\ r.key = RankingKey /\ r.value = Evidence /\ Caller # "hook"
    <2>1. /\ cache'.ranking = Put(cache.ranking, r.key, r.value)
          /\ cache'.analysis = cache.analysis /\ cache'.summary = cache.summary
      BY <1>4, <1>6 DEF CacheFields
    <2>2. SavesRanking
      BY <1>6, <2>1 DEF SavesRanking
    <2>3. QED
      BY <1>3, <1>4, <2>2
  <1>7. CASE r.kind = "summary" /\ \E f \in Files : /\ pack.summaries[f] # None
                                                    /\ r.key = SummaryKey(f) /\ r.value = pack.summaries[f]
    <2>1. /\ cache'.summary = Put(cache.summary, r.key, r.value)
          /\ cache'.analysis = cache.analysis /\ cache'.ranking = cache.ranking
      BY <1>4, <1>7 DEF CacheFields
    <2>2. PICK f \in Files : /\ pack.summaries[f] # None
                             /\ r.key = SummaryKey(f) /\ r.value = pack.summaries[f]
      BY <1>7
    <2>3. SavesSummary
      BY <2>1, <2>2 DEF SavesSummary
    <2>4. QED
      BY <1>3, <1>4, <2>3
  <1>8. QED
    BY <1>2, <1>5, <1>6, <1>7 DEF IsRecord

(* What is known.                                                          *)
LEMMA AnalyzedFields ==
  ASSUME NEW f \in Files, NEW content \in Contents \cup {None}, NEW hash \in Contents \cup {None}
  PROVE  LET e == Analyzed(f, content, hash) IN
         /\ e = [hash |-> e.hash, symbols |-> e.symbols, terms |-> e.terms, imports |-> e.imports]
         /\ e.hash = hash /\ e.imports \subseteq Files
         /\ content = None => e.terms = {}
  BY ContentAssumption DEF Analyzed, Skipped, Contents

LEMMA ReducedFields ==
  ASSUME NEW e, e = [hash |-> e.hash, symbols |-> e.symbols, terms |-> e.terms, imports |-> e.imports]
  PROVE  LET g == Reduced(e) IN
         /\ g = [hash |-> g.hash, symbols |-> g.symbols, terms |-> g.terms, imports |-> g.imports]
         /\ g.hash = e.hash /\ g.imports = e.imports /\ g.terms = {}
         /\ g.symbols = IF e.symbols \cap Secrets = {} THEN e.symbols
                        ELSE (e.symbols \ Secrets) \cup {Redacted}
  <1>. DEFINE names == IF e.symbols \cap Secrets = {} THEN e.symbols
                       ELSE (e.symbols \ Secrets) \cup {Redacted}
              g == Reduced(e)
  <1>1. g = [e EXCEPT !.terms = {}, !.symbols = names]
    BY DEF Reduced
  <1>. HIDE DEF g, names
  <1>2. g = [hash |-> e.hash, symbols |-> names, terms |-> {}, imports |-> e.imports]
    BY <1>1
  <1>3. QED
    BY <1>2 DEF g, names

LEMMA ReducedOnce ==
  ASSUME NEW e, e = [hash |-> e.hash, symbols |-> e.symbols, terms |-> e.terms, imports |-> e.imports]
  PROVE  Reduced(Reduced(e)) = Reduced(e)
  <1>. DEFINE g == Reduced(e)
              h == Reduced(g)
  <1>1. /\ g = [hash |-> g.hash, symbols |-> g.symbols, terms |-> g.terms, imports |-> g.imports]
        /\ g.hash = e.hash /\ g.imports = e.imports /\ g.terms = {}
        /\ g.symbols = IF e.symbols \cap Secrets = {} THEN e.symbols
                       ELSE (e.symbols \ Secrets) \cup {Redacted}
    BY ReducedFields
  <1>. HIDE DEF g
  <1>2. /\ h = [hash |-> h.hash, symbols |-> h.symbols, terms |-> h.terms, imports |-> h.imports]
        /\ h.hash = g.hash /\ h.imports = g.imports /\ h.terms = {}
        /\ h.symbols = IF g.symbols \cap Secrets = {} THEN g.symbols
                       ELSE (g.symbols \ Secrets) \cup {Redacted}
    BY <1>1, ReducedFields
  <1>. HIDE DEF h
  <1>3. h.symbols = g.symbols
    <2>1. CASE e.symbols \cap Secrets = {}
      BY <1>1, <1>2, <2>1
    <2>2. CASE e.symbols \cap Secrets # {}
      <3>1. g.symbols = (e.symbols \ Secrets) \cup {Redacted}
        BY <1>1, <2>2
      <3>2. (g.symbols \ Secrets) \cup {Redacted} = g.symbols
        BY <3>1
      <3>3. QED
        BY <1>2, <3>2
    <2>3. QED
      BY <2>1, <2>2
  <1>4. h = g
    BY <1>1, <1>2, <1>3
  <1>5. QED
    BY <1>4 DEF g, h

(* What is known of a file has all that a task is assessed by.             *)
LEMMA KnownFacts ==
  ASSUME NEW f \in Files, NEW e, NEW d, NEW h, KnownOf(f, e, d, h)
  PROVE  LET cold == Analyzed(f, e.hash, e.hash) IN
         /\ e.imports \subseteq Files /\ (e.terms # {} => e.hash # None)
         /\ f \notin d => e.imports = cold.imports /\ e.symbols \ Hidden = cold.symbols \ Hidden
  <1>. DEFINE hash == e.hash
  <1>1. PICK c : FoundIn(f, e, c, d, h)
    BY DEF KnownOf
  <1>2. c \in Contents \cup {None} /\ hash \in Contents \cup {None}
        /\ (f \notin d => c = hash) /\ (hash = None => c = None)
    BY <1>1 DEF FoundIn, KnownOf
  <1>. DEFINE a == Analyzed(f, c, hash)
              g == Reduced(a)
  <1>3. e = a \/ e = g
    BY <1>1 DEF FoundIn
  <1>. HIDE DEF hash
  <1>4. /\ a = [hash |-> a.hash, symbols |-> a.symbols, terms |-> a.terms, imports |-> a.imports]
        /\ a.imports \subseteq Files /\ (c = None => a.terms = {})
    BY <1>2, AnalyzedFields
  <1>. HIDE DEF a
  <1>5. /\ g.imports = a.imports /\ g.terms = {}
        /\ g.symbols = IF a.symbols \cap Secrets = {} THEN a.symbols
                       ELSE (a.symbols \ Secrets) \cup {Redacted}
    BY <1>4, ReducedFields
  <1>. HIDE DEF g
  <1>6. g.symbols \ Hidden = a.symbols \ Hidden
    BY <1>5 DEF Hidden
  <1>7. f \notin d => a = Analyzed(f, hash, hash)
    BY <1>2 DEF a
  <1>8. e.imports = a.imports /\ e.symbols \ Hidden = a.symbols \ Hidden
    BY <1>3, <1>5, <1>6
  <1>9. e.terms # {} => hash # None
    BY <1>2, <1>3, <1>4, <1>5
  <1>10. QED
    BY <1>4, <1>7, <1>8, <1>9 DEF hash

LEMMA KnownMore ==
  ASSUME NEW of, NEW d, NEW e, NEW h, NEW i, Known(of, d, h), d \subseteq e, h \subseteq i
  PROVE  Known(of, e, i)
  <1>1. ASSUME NEW f \in Files
        PROVE  KnownOf(f, of[f], e, i)
    <2>1. KnownOf(f, of[f], d, h)
      BY DEF Known
    <2>2. PICK c : FoundIn(f, of[f], c, d, h)
      BY <2>1 DEF KnownOf
    <2>3. FoundIn(f, of[f], c, e, i)
      BY <2>2 DEF FoundIn
    <2>4. QED
      BY <2>1, <2>3 DEF KnownOf
  <1>2. QED
    BY <1>1 DEF Known

LEMMA AnalyzedIsKnown ==
  ASSUME NEW f \in Files, NEW content \in Contents \cup {None}, NEW hash \in Contents \cup {None},
         NEW d, NEW h, f \notin d => content = hash, hash = None => content = None,
         hash # None => content \in Possible(f)
  PROVE  KnownOf(f, Analyzed(f, content, hash), d, h) /\ Analyzed(f, content, hash).hash = hash
  <1>. DEFINE e == Analyzed(f, content, hash)
  <1>1. e.hash = hash
    BY AnalyzedFields
  <1>2. FoundIn(f, e, content, d, h)
    BY <1>1 DEF FoundIn
  <1>. HIDE DEF e
  <1>3. KnownOf(f, e, d, h)
    BY <1>1, <1>2 DEF KnownOf
  <1>4. QED
    BY <1>1, <1>3 DEF e

LEMMA SanitizedIsKnown ==
  ASSUME NEW of, NEW d, NEW h, Known(of, d, h)
  PROVE  Known(Sanitized(of), d, h \cup {<<f, of[f].hash>> : f \in Files})
  <1>. DEFINE S == Sanitized(of)
              i == h \cup {<<f, of[f].hash>> : f \in Files}
  <1>1. S = [f \in Files |-> S[f]]
    BY DEF Sanitized
  <1>2. ASSUME NEW f \in Files
        PROVE  KnownOf(f, S[f], d, i)
    <2>. DEFINE e == of[f]
                hash == e.hash
                g == Reduced(e)
    <2>1. KnownOf(f, e, d, h)
      BY DEF Known
    <2>2. S[f] = g /\ <<f, hash>> \in i
      BY DEF Sanitized
    <2>3. PICK c : FoundIn(f, e, c, d, h)
      BY <2>1 DEF KnownOf
    <2>4. c \in Contents \cup {None} /\ hash \in Contents \cup {None}
      BY <2>1, <2>3 DEF FoundIn, KnownOf
    <2>. DEFINE a == Analyzed(f, c, hash)
    <2>5. e = a \/ e = Reduced(a)
      BY <2>3 DEF FoundIn
    <2>6. /\ (hash # None => c \in Possible(f)) /\ (f \notin d => c = hash)
          /\ (hash = None => c = None)
      BY <2>3 DEF FoundIn
    <2>. HIDE DEF e, hash, i
    <2>7. /\ a = [hash |-> a.hash, symbols |-> a.symbols, terms |-> a.terms, imports |-> a.imports]
          /\ a.hash = hash
      BY <2>4, AnalyzedFields
    <2>. HIDE DEF a
    <2>8. Reduced(Reduced(a)) = Reduced(a) /\ Reduced(a).hash = hash
      BY <2>7, ReducedOnce, ReducedFields
    <2>9. g = Reduced(a)
      BY <2>5, <2>8
    <2>. HIDE DEF g
    <2>10. g.hash = hash /\ g = Reduced(Analyzed(f, c, g.hash))
      BY <2>8, <2>9 DEF a
    <2>11. FoundIn(f, g, c, d, i)
      BY <2>2, <2>4, <2>6, <2>10 DEF FoundIn
    <2>12. QED
      BY <2>2, <2>4, <2>10, <2>11 DEF KnownOf
  <1>. HIDE DEF i
  <1>3. Known(S, d, i)
    BY <1>1, <1>2 DEF Known
  <1>4. QED
    BY <1>3 DEF i

LEMMA ContainedStep ==
  ASSUME Typed, Contained, [Next]_vars
  PROVE  Contained'
  <1>1. CASE Edits
    <2>0. PICK f \in Files : \E content \in Versions[f] : UserEdits(f, content)
      BY <1>1 DEF Edits
    <2>1. PICK content \in Versions[f] : UserEdits(f, content)
      BY <2>0
    <2>2. disk \in [Files -> Contents \cup {None}] /\ disk' = [disk EXCEPT ![f] = content]
      BY <2>1 DEF UserEdits, Typed, Indexes
    <2>3. QED
      BY <2>2 DEF Contained, Possible
  <1>2. CASE ~Edits
    <2>1. disk' = disk
      BY <1>2, Steps DEF Start, Ends, Leave, Discover, Analyze, Assess, Rank, Summarize, Finish, Save, user, vars
    <2>2. QED
      BY <2>1 DEF Contained
  <1>3. QED
    BY <1>1, <1>2

LEMMA AnalysesStep ==
  ASSUME Typed, CacheFields, Staged, Contained, Undisturbed, Unsaved, Analyses, [Next]_vars
  PROVE  Analyses'
  <1>. USE DEF user, history, found, local
  <1>h. disturbed \subseteq disturbed' /\ sanitized \subseteq sanitized'
    BY HistoryGrows
  <1>k. \A of : Known(of, disturbed, sanitized) => Known(of, disturbed', sanitized')
    BY <1>h, KnownMore
  <1>1. /\ DOMAIN cache'.analysis \subseteq {"latest"}
        /\ "latest" \in DOMAIN cache'.analysis => Known(cache'.analysis["latest"], disturbed', sanitized')
    <2>1. CASE cache'.analysis = cache.analysis
      BY <1>k, <2>1 DEF Analyses
    <2>2. CASE Save /\ SavesAnalysis
      <3>. DEFINE v == IF Caller = "hook" THEN Sanitized(analysis) ELSE analysis
      <3>1. /\ Known(analysis, disturbed, sanitized)
            /\ \A f \in Files : analysis[f].hash = index[f]
        BY <2>2 DEF Analyses, HasAnalysis, Save
      <3>2. Known(v, disturbed', sanitized')
        <4>1. CASE Caller = "hook"
          <5>. DEFINE h == sanitized \cup {<<f, analysis[f].hash>> : f \in Files}
          <5>1. {<<f, analysis[f].hash>> : f \in Files} = {<<f, index[f]>> : f \in Files}
            BY <3>1
          <5>2. sanitized' = h
            BY <2>2, <4>1, <5>1 DEF SavesAnalysis
          <5>3. Known(Sanitized(analysis), disturbed, h)
            BY <3>1, SanitizedIsKnown
          <5>. HIDE DEF h
          <5>4. Known(Sanitized(analysis), disturbed', sanitized')
            BY <1>h, <5>2, <5>3, KnownMore
          <5>5. QED
            BY <4>1, <5>4
        <4>2. CASE Caller # "hook"
          BY <1>k, <3>1, <4>2
        <4>3. QED
          BY <4>1, <4>2
      <3>3. cache'.analysis = Put(cache.analysis, "latest", v)
        BY <2>2 DEF SavesAnalysis
      <3>. HIDE DEF v
      <3>4. DOMAIN cache'.analysis = {"latest"} /\ cache'.analysis["latest"] = v
        BY <3>3 DEF Put, Analyses
      <3>5. QED
        BY <3>2, <3>4
    <2>3. cache'.analysis = cache.analysis \/ (Save /\ SavesAnalysis)
      BY HistoryGrows, SaveOf DEF SavesRanking, SavesSummary
    <2>4. QED
      BY <2>1, <2>2, <2>3
  <1>2. ASSUME HasAnalysis'
        PROVE  Known(analysis', disturbed', sanitized') /\ \A f \in Files : analysis'[f].hash = index'[f]
    <2>1. CASE HasAnalysis /\ UNCHANGED <<analysis, index>>
      BY <1>k, <2>1 DEF Analyses
    <2>2. CASE Analyze
      <3>1. /\ analysis' = [f \in Files |-> AnalysisOf(cache.analysis, f)]
            /\ UNCHANGED <<disturbed, sanitized, index, disk>> /\ stage = "analyze"
        BY <2>2 DEF Analyze
      <3>2. ASSUME NEW f \in Files
            PROVE  /\ KnownOf(f, AnalysisOf(cache.analysis, f), disturbed, sanitized)
                   /\ AnalysisOf(cache.analysis, f).hash = index[f]
        <4>1. disk[f] \in Contents \cup {None} /\ index[f] \in Contents \cup {None}
              /\ (f \notin disturbed => disk[f] = index[f]) /\ disk[f] \in Possible(f)
          BY <3>1 DEF Typed, Indexes, Undisturbed, Contained
        <4>2. CASE index[f] = None
          <5>1. AnalysisOf(cache.analysis, f) = Analyzed(f, None, None)
            BY <4>2 DEF AnalysisOf, Analyzed
          <5>2. QED
            BY <4>2, <5>1, AnalyzedIsKnown
        <4>3. CASE index[f] # None /\ "latest" \in DOMAIN cache.analysis
                   /\ cache.analysis["latest"][f].hash = index[f]
          <5>1. AnalysisOf(cache.analysis, f) = cache.analysis["latest"][f]
            BY <4>3 DEF AnalysisOf
          <5>2. KnownOf(f, cache.analysis["latest"][f], disturbed, sanitized)
            BY <4>3 DEF Analyses, Known
          <5>3. QED
            BY <4>3, <5>1, <5>2
        <4>4. CASE index[f] # None /\ ~("latest" \in DOMAIN cache.analysis
                   /\ cache.analysis["latest"][f].hash = index[f])
          <5>1. AnalysisOf(cache.analysis, f) = Analyzed(f, disk[f], index[f])
            BY <4>4 DEF AnalysisOf
          <5>. DEFINE c == disk[f]
                      i == index[f]
          <5>2. c \in Contents \cup {None} /\ i \in Contents \cup {None} /\ i # None
                /\ (f \notin disturbed => c = i) /\ c \in Possible(f)
            BY <4>1, <4>4
          <5>. HIDE DEF c, i
          <5>3. KnownOf(f, Analyzed(f, c, i), disturbed, sanitized) /\ Analyzed(f, c, i).hash = i
            BY <5>2, AnalyzedIsKnown
          <5>4. QED
            BY <5>1, <5>3 DEF c, i
        <4>5. QED
          BY <4>2, <4>3, <4>4
      <3>3. \A f \in Files : analysis'[f] = AnalysisOf(cache.analysis, f)
        BY <3>1
      <3>4. analysis' = [f \in Files |-> analysis'[f]]
        BY <3>1
      <3>5. Known(analysis', disturbed, sanitized)
        BY <3>2, <3>3, <3>4 DEF Known
      <3>6. QED
        BY <3>1, <3>2, <3>3, <3>5
    <2>3. (HasAnalysis /\ UNCHANGED <<analysis, index>>) \/ Analyze
      <3>1. Start => stage' = "discover"
        BY DEF Start
      <3>2. Ends => stage' = "idle"
        BY DEF Ends, Leave
      <3>3. Discover => stage' = "analyze"
        BY DEF Discover
      <3>4. Assess \/ Rank \/ Summarize \/ Finish \/ Save => HasAnalysis /\ UNCHANGED <<analysis, index>>
        BY DEF Assess, Rank, Summarize, Finish, Save, HasAnalysis
      <3>5. Edits => UNCHANGED <<analysis, index, stage>>
        BY DEF Edits, UserEdits
      <3>6. UNCHANGED vars => UNCHANGED <<analysis, index, stage>>
        BY DEF vars
      <3>7. QED
        BY <1>2, <3>1, <3>2, <3>3, <3>4, <3>5, <3>6, Steps DEF HasAnalysis
    <2>4. QED
      BY <2>1, <2>2, <2>3
  <1>3. QED
    BY <1>1, <1>2 DEF Analyses

(* A pack is made, gets a summary or stays.                                *)
LEMMA PackOrigin ==
  ASSUME Typed, Staged, [Next]_vars, HasPack'
  PROVE  \/ Rank \/ Summarize
         \/ HasPack /\ UNCHANGED <<request, index, stamps, assessment, ranking, pack, unread, analysis>>
  <1>. USE DEF user, history, found, local, HasPack, Caller
  <1>1. Start => stage' = "discover"
    BY DEF Start
  <1>2. Ends => stage' = "idle"
    BY DEF Ends, Leave
  <1>3. Discover => stage' = "analyze"
    BY DEF Discover
  <1>4. Analyze => stage' = "assess"
    BY DEF Analyze
  <1>5. Assess => ~HasPack'
    BY DEF Assess
  <1>6. Finish => HasPack /\ UNCHANGED <<request, index, stamps, assessment, ranking, pack, unread, analysis>>
    BY DEF Finish
  <1>7. Save => HasPack /\ UNCHANGED <<request, index, stamps, assessment, ranking, pack, unread, analysis>>
    BY DEF Save
  <1>8. Edits => HasPack /\ UNCHANGED <<request, index, stamps, assessment, ranking, pack, unread, analysis>>
    BY DEF Edits, UserEdits
  <1>9. UNCHANGED vars => HasPack /\ UNCHANGED <<request, index, stamps, assessment, ranking, pack, unread, analysis>>
    BY DEF vars
  <1>10. QED
    BY <1>1, <1>2, <1>3, <1>4, <1>5, <1>6, <1>7, <1>8, <1>9, Steps

(* The summary of a file is of what its hash names.                        *)
LEMMA SummaryOfFile ==
  ASSUME Typed, Undisturbed, Summaries, Summarize, NEW f \in Files
  PROVE  LET saved == IF request.caller = "hook" THEN <<>> ELSE cache.summary
             s == SummaryOf(saved, f) IN
         /\ s # None => SummaryFor(f, s, disturbed) /\ s.hash = index[f]
         /\ index[f] # None /\ f \notin disturbed => s = [hash |-> index[f], of |-> index[f]]
  <1>. DEFINE saved == IF request.caller = "hook" THEN <<>> ELSE cache.summary
              key == SummaryKey(f)
              s == SummaryOf(saved, f)
  <1>1. /\ disk[f] \in Contents \cup {None} /\ index[f] \in Contents \cup {None}
        /\ f \notin disturbed => disk[f] = index[f]
    BY DEF Typed, Indexes, Undisturbed, Summarize
  <1>2. CASE key \in DOMAIN saved /\ saved[key].hash = index[f]
    <2>1. s = saved[key]
      BY <1>2 DEF SummaryOf
    <2>2. request.caller # "hook" /\ key \in DOMAIN cache.summary /\ saved[key] = cache.summary[key]
      BY <1>2
    <2>3. PICK t \in DOMAIN Tasks, g \in Files : key = <<t, g>> /\ SummaryFor(g, cache.summary[key], disturbed)
      BY <2>2 DEF Summaries
    <2>4. g = f
      BY <2>3 DEF SummaryKey
    <2>. HIDE DEF s, saved, key
    <2>5. SummaryFor(f, s, disturbed) /\ s.hash = index[f]
      BY <1>2, <2>1, <2>2, <2>3, <2>4
    <2>6. f \notin disturbed => s = [hash |-> index[f], of |-> index[f]]
      BY <2>5 DEF SummaryFor
    <2>7. QED
      BY <2>5, <2>6 DEF s, saved
  <1>3. CASE ~(key \in DOMAIN saved /\ saved[key].hash = index[f]) /\ disk[f] # None
    <2>1. s = [hash |-> index[f], of |-> disk[f]]
      BY <1>3 DEF SummaryOf
    <2>. HIDE DEF s, saved, key
    <2>2. SummaryFor(f, s, disturbed) /\ s.hash = index[f]
      BY <1>1, <1>3, <2>1 DEF SummaryFor
    <2>3. QED
      BY <1>1, <2>1, <2>2 DEF s, saved
  <1>4. CASE ~(key \in DOMAIN saved /\ saved[key].hash = index[f]) /\ disk[f] = None
    <2>1. s = None
      BY <1>4 DEF SummaryOf
    <2>2. ~(index[f] # None /\ f \notin disturbed)
      BY <1>1, <1>4
    <2>. HIDE DEF s, saved, key
    <2>3. QED
      BY <2>1, <2>2 DEF s, saved
  <1>5. QED
    BY <1>2, <1>3, <1>4

LEMMA SummarizeOf ==
  ASSUME Rankings, Summaries, Summarize
  PROVE  LET saved == IF request.caller = "hook" THEN <<>> ELSE cache.summary
             f == Head(unread) IN
         /\ HasPack /\ f \in Files /\ f \in ToSet(pack.selected) /\ Summarizes
         /\ pack' = [selected |-> pack.selected, excluded |-> pack.excluded, summaries |-> pack'.summaries]
         /\ pack'.summaries = [g \in Files |-> IF g = f THEN SummaryOf(saved, f) ELSE pack.summaries[g]]
         /\ unread' = Tail(unread) /\ Tail(unread) \in Seq(Files)
         /\ ToSet(unread) = {f} \cup ToSet(Tail(unread))
  <1>. DEFINE saved == IF request.caller = "hook" THEN <<>> ELSE cache.summary
              f == Head(unread)
              v == SummaryOf(saved, f)
  <1>1. HasPack /\ unread # <<>> /\ pack' = [pack EXCEPT !.summaries[f] = v] /\ unread' = Tail(unread)
    BY DEF Summarize, HasPack
  <1>2. /\ pack = [selected |-> pack.selected, excluded |-> pack.excluded, summaries |-> pack.summaries]
        /\ unread \in Seq(Files) /\ ToSet(unread) \subseteq ToSet(pack.selected) /\ Summarizes
        /\ pack.summaries = [g \in Files |-> pack.summaries[g]]
    BY <1>1 DEF Rankings, Summaries
  <1>3. /\ f \in ToSet(unread) /\ Tail(unread) \in Seq(Files) /\ ToSet(unread) = {f} \cup ToSet(Tail(unread))
        /\ ToSet(unread) \subseteq Files
    BY <1>1, <1>2, FirstOfSome
  <1>. HIDE DEF v, f
  <1>4. /\ pack' = [selected |-> pack.selected, excluded |-> pack.excluded, summaries |-> pack'.summaries]
        /\ pack'.summaries = [pack.summaries EXCEPT ![f] = v]
    BY <1>1, <1>2
  <1>5. pack'.summaries = [g \in Files |-> IF g = f THEN v ELSE pack.summaries[g]]
    BY <1>2, <1>3, <1>4
  <1>6. QED
    BY <1>1, <1>2, <1>3, <1>4, <1>5 DEF f, v

LEMMA SummaryForMore ==
  ASSUME NEW f, NEW s, NEW d, NEW e, SummaryFor(f, s, d), d \subseteq e
  PROVE  SummaryFor(f, s, e)
  BY DEF SummaryFor

LEMMA SummariesStep ==
  ASSUME Typed, CacheFields, Staged, Undisturbed, Unsaved, Rankings, Summaries, [Next]_vars
  PROVE  Summaries'
  <1>. USE DEF user, history, found, local
  <1>h. disturbed \subseteq disturbed'
    BY HistoryGrows
  <1>1. ASSUME NEW k \in DOMAIN cache'.summary
        PROVE  \E t \in DOMAIN Tasks, f \in Files : k = <<t, f>> /\ SummaryFor(f, cache'.summary[k], disturbed')
    <2>1. CASE k \in DOMAIN cache.summary /\ cache'.summary[k] = cache.summary[k]
      <3>1. PICK t \in DOMAIN Tasks, f \in Files : k = <<t, f>> /\ SummaryFor(f, cache.summary[k], disturbed)
        BY <2>1 DEF Summaries
      <3>2. SummaryFor(f, cache.summary[k], disturbed')
        BY <1>h, <3>1, SummaryForMore
      <3>3. QED
        BY <2>1, <3>1, <3>2
    <2>2. CASE Save /\ SavesSummary
      <3>1. PICK f \in Files : /\ pack.summaries[f] # None
                               /\ cache'.summary = Put(cache.summary, SummaryKey(f), pack.summaries[f])
        BY <2>2 DEF SavesSummary
      <3>2. HasPack /\ stage = "save"
        BY <2>2, SaveOf
      <3>3. SummaryFor(f, pack.summaries[f], disturbed)
        BY <3>1, <3>2 DEF Summaries
      <3>4. CASE k = SummaryKey(f)
        <4>1. cache'.summary[k] = pack.summaries[f]
          BY <3>1, <3>4 DEF Put
        <4>2. request \in Requests
          BY <3>2 DEF Typed
        <4>3. request.task \in DOMAIN Tasks
          BY <4>2, RequestTypes
        <4>4. SummaryFor(f, cache'.summary[k], disturbed')
          BY <1>h, <3>3, <4>1, SummaryForMore
        <4>5. QED
          BY <3>4, <4>3, <4>4 DEF SummaryKey
      <3>5. CASE k # SummaryKey(f)
        <4>1. k \in DOMAIN cache.summary /\ cache'.summary[k] = cache.summary[k]
          BY <3>1, <3>5 DEF Put
        <4>2. QED
          BY <2>1, <4>1
      <3>6. QED
        BY <3>4, <3>5
    <2>3. cache'.summary = cache.summary \/ (Save /\ SavesSummary)
      BY HistoryGrows, SaveOf DEF SavesAnalysis, SavesRanking
    <2>4. QED
      BY <2>1, <2>2, <2>3
  <1>2. ASSUME HasPack'
        PROVE  /\ pack'.summaries = [f \in Files |-> pack'.summaries[f]]
               /\ \A f \in Files : pack'.summaries[f] # None =>
                    SummaryFor(f, pack'.summaries[f], disturbed') /\ pack'.summaries[f].hash = index'[f]
    <2>1. CASE Rank
      <3>1. pack'.summaries = Nothing
        BY <2>1 DEF Rank, PackOf
      <3>2. QED
        BY <3>1 DEF Nothing
    <2>2. CASE Summarize
      <3>. DEFINE saved == IF request.caller = "hook" THEN <<>> ELSE cache.summary
                  h == Head(unread)
                  v == SummaryOf(saved, h)
      <3>1. HasPack /\ h \in Files /\ pack'.summaries = [g \in Files |-> IF g = h THEN v ELSE pack.summaries[g]]
        BY <2>2, SummarizeOf
      <3>2. v # None => SummaryFor(h, v, disturbed) /\ v.hash = index[h]
        <4>1. h \in Files
          BY <3>1
        <4>. HIDE DEF h
        <4>2. QED
          BY <2>2, <4>1, SummaryOfFile
      <3>3. disturbed' = disturbed /\ index' = index
        BY <2>2 DEF Summarize
      <3>4. \A g \in Files : pack.summaries[g] # None =>
              SummaryFor(g, pack.summaries[g], disturbed) /\ pack.summaries[g].hash = index[g]
        BY <3>1 DEF Summaries
      <3>. HIDE DEF v, h
      <3>5. QED
        BY <3>1, <3>2, <3>3, <3>4
    <2>3. CASE HasPack /\ UNCHANGED <<request, index, stamps, assessment, ranking, pack, unread, analysis>>
      BY <1>h, <2>3, SummaryForMore DEF Summaries
    <2>4. QED
      BY <1>2, <2>1, <2>2, <2>3, PackOrigin
  <1>3. QED
    BY <1>1, <1>2 DEF Summaries

(* A ranking is worth what it has been, as far as nothing is disturbed.    *)
LEMMA RankedMore ==
  ASSUME NEW of, NEW t, NEW options, NEW budget, NEW r, NEW d, NEW e, NEW h, NEW i,
         Ranked(of, t, options, budget, r, d, h), d \subseteq e, h \subseteq i
  PROVE  Ranked(of, t, options, budget, r, e, i)
  <1>1. CutOfKnown(of, t, options, budget, r, d, h)
    BY DEF Ranked
  <1>2. CutOfKnown(of, t, options, budget, r, e, i)
    <2>1. PICK x : /\ Known(x, d, h) /\ \A f \in Files : x[f].hash = of[f]
                   /\ Cut(of, r, budget) = Cut(of, RankingFrom(of, t, options, x), budget)
      BY <1>1 DEF CutOfKnown
    <2>2. Known(x, e, i)
      BY <2>1, KnownMore
    <2>3. QED
      BY <2>1, <2>2 DEF CutOfKnown
  <1>3. QED
    BY <1>2 DEF Ranked

LEMMA BudgetTypes ==
  ASSUME Typed, Staged, HasAssessment
  PROVE  /\ Budget \in Nat /\ request \in Requests /\ request.task \in DOMAIN Tasks
         /\ Options.limit = request.options.limit /\ request.options.limit \in Nat
         /\ Caller # "hook" => Budget = ContentBudget
  <1>1. request \in Requests
    BY DEF Typed, HasAssessment
  <1>2. /\ request.task \in DOMAIN Tasks /\ request.options.limit \in Nat
        /\ request.options = [limit |-> request.options.limit, threshold |-> request.options.threshold,
                              recent |-> request.options.recent]
    BY <1>1, RequestTypes
  <1>3. Options.limit = request.options.limit
    BY <1>2 DEF Options
  <1>4. assessment.mode \in DOMAIN TokenBudget
    <2>1. assessment = Assessment(Task, index, analysis)
      BY DEF Staged
    <2>2. Assessment(Tasks[request.task], index, analysis).mode \in DOMAIN TokenBudget
      BY <1>2, ModeKnown DEF Assessment
    <2>3. QED
      BY <2>1, <2>2 DEF Task
  <1>5. TokenBudget[assessment.mode] \in Nat
    BY <1>4 DEF TokenBudget
  <1>6. ContentBudget \in Nat
    BY RunAssumption
  <1>7. QED
    BY <1>1, <1>2, <1>3, <1>5, <1>6 DEF Budget, Caller

LEMMA KeyOptions ==
  ASSUME request \in Requests, Caller # "hook", Caller # "analyze_task"
  PROVE  OptionsOf(RankingKey) = Options
  <1>1. /\ request.caller \in Callers
        /\ request.options = [limit |-> request.options.limit, threshold |-> request.options.threshold,
                              recent |-> request.options.recent]
        /\ request.options.recent # None
    BY RequestTypes
  <1>2. CASE request.caller = "optimize"
    BY <1>1, <1>2 DEF OptionsOf, RankingKey, Options
  <1>3. CASE request.caller = "build_context_pack"
    BY <1>1, <1>3 DEF OptionsOf, RankingKey, Options
  <1>4. QED
    BY <1>1, <1>2, <1>3 DEF Callers, Caller

LEMMA FreshIsRanked ==
  ASSUME Typed, Staged, Analyses, stage = "rank"
  PROVE  Ranked(index, request.task, Options, Budget, Fresh(analysis), disturbed, sanitized)
  <1>. DEFINE t == request.task
              r == Fresh(analysis)
  <1>1. HasAssessment /\ HasAnalysis
    BY DEF HasAssessment, HasAnalysis
  <1>2. index \in Indexes /\ Budget \in Nat /\ t \in DOMAIN Tasks /\ Options.limit \in Nat
    BY <1>1, BudgetTypes DEF Typed
  <1>3. LET ranked == RankContext(Tasks[t], Hints(Tasks[t], index, analysis), index, analysis, Options) IN
          r = [selected |-> ranked.selected, excluded |-> ranked.excluded]
    BY DEF Fresh, Task
  <1>4. /\ Whole(index, Options, r) /\ NamedLead(index, t, r.selected)
        /\ NamedFit(index, t, Options, Budget, r)
    <2>. DEFINE o == Options
                b == Budget
    <2>1. o.limit \in Nat /\ b \in Nat
      BY <1>2
    <2>2. LET ranked == RankContext(Tasks[t], Hints(Tasks[t], index, analysis), index, analysis, o) IN
            r = [selected |-> ranked.selected, excluded |-> ranked.excluded]
      BY <1>3
    <2>. HIDE DEF o, b, r, t
    <2>3. Whole(index, o, r) /\ NamedLead(index, t, r.selected) /\ NamedFit(index, t, o, b, r)
      BY <1>2, <2>1, <2>2, RankContextIsRanked
    <2>4. QED
      BY <2>3 DEF o, b
  <1>5. CutOfKnown(index, t, Options, Budget, r, disturbed, sanitized)
    <2>1. Known(analysis, disturbed, sanitized) /\ \A f \in Files : analysis[f].hash = index[f]
      BY <1>1 DEF Analyses
    <2>. DEFINE ranked == RankingFrom(index, t, Options, analysis)
    <2>2. r.selected = ranked.selected /\ r.excluded = ranked.excluded
      BY <1>3 DEF RankingFrom
    <2>3. Cut(index, r, Budget) = Cut(index, ranked, Budget)
      <3>. HIDE DEF r, ranked
      <3>1. QED
        BY <2>2 DEF Cut
    <2>. HIDE DEF r, t
    <2>4. QED
      BY <2>1, <2>3 DEF CutOfKnown
  <1>6. QED
    BY <1>4, <1>5 DEF Ranked

(* What is saved of a ranking is what the pack has taken from it.          *)
LEMMA EvidenceIsCut ==
  ASSUME Typed, Staged, Rankings, HasPack
  PROVE  Evidence = Cut(index, ranking, Budget)
  <1>. DEFINE S == Rankable(index)
              s == ranking.selected
              e == ranking.excluded
              u == WithinBudget(index, s, Budget)
              c == ToSet(u)
              w == Kept(s, ToSet(s) \ c)
  <1>1. HasAssessment
    BY DEF HasPack, HasAssessment
  <1>2. index \in Indexes /\ Budget \in Nat /\ Options.limit \in Nat
    BY <1>1, BudgetTypes DEF Typed
  <1>3. Whole(index, Options, ranking)
    BY DEF Rankings, Ranked
  <1>4. u = Kept(s, c) /\ c \subseteq ToSet(s)
    <2>. DEFINE o == Options
                b == Budget
    <2>1. o.limit \in Nat /\ b \in Nat /\ Whole(index, o, ranking)
      BY <1>2, <1>3
    <2>. HIDE DEF o, b
    <2>2. LET v == WithinBudget(index, ranking.selected, b) IN
            v = Kept(ranking.selected, ToSet(v)) /\ ToSet(v) \subseteq ToSet(ranking.selected)
      BY <1>2, <2>1, CutIsWhole
    <2>3. QED
      BY <2>2 DEF b
  <1>5. /\ s \in Seq(S) /\ e \in Seq(S) /\ ToSet(s) \cap ToSet(e) = {}
    BY <1>3 DEF Whole
  <1>6. pack.selected = u
    BY DEF Rankings, Cut
  <1>7. Cut(index, ranking, Budget) = [selected |-> u, excluded |-> w \o e]
    BY DEF Cut, Without
  <1>8. Evidence = [selected |-> Kept(s \o e, c), excluded |-> Kept(s \o e, ToSet(s \o e) \ c)]
    BY <1>6 DEF Evidence, Without
  <1>. HIDE DEF S, s, e, c, u, w
  <1>9. ToSet(s \o e) = ToSet(s) \cup ToSet(e)
    BY <1>5, ConcatSets
  <1>10. Kept(s \o e, c) = u
    <2>1. Kept(s \o e, c) = Kept(s, c) \o Kept(e, c)
      BY <1>5, KeptConcat
    <2>2. ToSet(e) \cap c = {}
      BY <1>4, <1>5
    <2>3. Kept(e, c) = <<>>
      BY <1>5, <2>2, KeptAll
    <2>4. Kept(s, c) \in Seq(S)
      BY <1>5, KeptElements
    <2>5. Kept(s, c) \o <<>> = Kept(s, c)
      BY <2>4
    <2>6. QED
      BY <1>4, <2>1, <2>3, <2>5
  <1>11. Kept(s \o e, ToSet(s \o e) \ c) = w \o e
    <2>. DEFINE rest == ToSet(s \o e) \ c
                own == ToSet(s) \ c
    <2>1. Kept(s \o e, rest) = Kept(s, rest) \o Kept(e, rest)
      <3>. HIDE DEF rest
      <3>1. QED
        BY <1>5, KeptConcat
    <2>2. ToSet(e) \subseteq rest /\ ToSet(s) \cap rest = ToSet(s) \cap own
      BY <1>4, <1>5, <1>9
    <2>. HIDE DEF rest
    <2>3. Kept(e, rest) = e
      BY <1>5, <2>2, KeptAll
    <2>4. Kept(s, rest) = Kept(s, own)
      <3>. HIDE DEF own
      <3>1. QED
        BY <1>5, <2>2, KeptSame
    <2>5. QED
      BY <2>1, <2>3, <2>4 DEF rest, w
  <1>12. QED
    BY <1>7, <1>8, <1>10, <1>11

LEMMA RankOf ==
  ASSUME Typed, Staged, CacheFields, Analyses, Rankings, Rank
  PROVE  /\ Ranked(index, request.task, Options, Budget, ranking', disturbed, sanitized)
         /\ pack' = [selected |-> Cut(index, ranking', Budget).selected,
                     excluded |-> Cut(index, ranking', Budget).excluded, summaries |-> Nothing]
         /\ Cut(index, ranking', Budget).selected \in Seq(Files)
         /\ unread' = IF Summarizes THEN pack'.selected ELSE <<>>
         /\ UNCHANGED <<request, index, assessment, disturbed, sanitized>>
  <1>. DEFINE q == ranking'
  <1>1. /\ stage = "rank" /\ q = IF Cached THEN cache.ranking[RankingKey] ELSE Fresh(analysis)
        /\ pack' = PackOf(q) /\ unread' = IF Summarizes THEN pack'.selected ELSE <<>>
        /\ UNCHANGED <<request, index, assessment, disturbed, sanitized>>
    BY DEF Rank, found, history
  <1>. HIDE DEF q
  <1>2. HasAssessment /\ Caller # "analyze_task"
    BY <1>1 DEF HasAssessment, Staged
  <1>3. /\ Budget \in Nat /\ request \in Requests /\ Options.limit \in Nat /\ index \in Indexes
        /\ Caller # "hook" => Budget = ContentBudget
    BY <1>2, BudgetTypes DEF Typed
  <1>4. Ranked(index, request.task, Options, Budget, q, disturbed, sanitized)
    <2>1. CASE Cached
      <3>1. Caller # "hook" /\ RankingKey \in DOMAIN cache.ranking /\ q = cache.ranking[RankingKey]
        BY <1>1, <2>1 DEF Cached, Caller
      <3>2. Ranked(RankingKey.files[1], RankingKey.task, OptionsOf(RankingKey), ContentBudget,
                   cache.ranking[RankingKey], disturbed, sanitized)
        BY <3>1 DEF Rankings
      <3>3. OptionsOf(RankingKey) = Options
        BY <1>2, <1>3, <3>1, KeyOptions
      <3>4. RankingKey.files[1] = index /\ RankingKey.task = request.task
        BY DEF RankingKey, found
      <3>5. QED
        BY <1>3, <3>1, <3>2, <3>3, <3>4
    <2>2. CASE ~Cached
      BY <1>1, <2>2, FreshIsRanked
    <2>3. QED
      BY <2>1, <2>2
  <1>5. pack' = [selected |-> Cut(index, q, Budget).selected,
                 excluded |-> Cut(index, q, Budget).excluded, summaries |-> Nothing]
    BY <1>1 DEF PackOf, Cut
  <1>6. Cut(index, q, Budget).selected \in Seq(Files)
    <2>. DEFINE o == Options
                b == Budget
    <2>1. o.limit \in Nat /\ b \in Nat /\ Whole(index, o, q)
      BY <1>3, <1>4 DEF Ranked
    <2>. HIDE DEF o, b
    <2>2. Whole(index, o, Cut(index, q, b))
      BY <1>3, <2>1, CutIsWhole
    <2>3. Cut(index, q, b).selected \in Seq(Rankable(index)) /\ Rankable(index) \subseteq Files
      BY <1>3, <2>2, PresentFiles DEF Whole
    <2>4. Cut(index, q, b).selected \in Seq(Files)
      BY <2>3
    <2>5. QED
      BY <2>4 DEF b
  <1>7. QED
    BY <1>1, <1>4, <1>5, <1>6 DEF q

LEMMA RankingsStep ==
  ASSUME Typed, Staged, CacheFields, Analyses, Summaries, Unsaved, Rankings, [Next]_vars
  PROVE  Rankings'
  <1>h. disturbed \subseteq disturbed' /\ sanitized \subseteq sanitized'
    BY HistoryGrows
  <1>k. \A of, t, options, budget, r :
          Ranked(of, t, options, budget, r, disturbed, sanitized) =>
            Ranked(of, t, options, budget, r, disturbed', sanitized')
    BY <1>h, RankedMore
  <1>1. ASSUME NEW k \in DOMAIN cache'.ranking
        PROVE  /\ Keyed(k)
               /\ Ranked(k.files[1], k.task, OptionsOf(k), ContentBudget, cache'.ranking[k],
                         disturbed', sanitized')
    <2>1. CASE k \in DOMAIN cache.ranking /\ cache'.ranking[k] = cache.ranking[k]
      BY <1>k, <2>1 DEF Rankings
    <2>2. CASE Save /\ SavesRanking
      <3>1. cache'.ranking = Put(cache.ranking, RankingKey, Evidence) /\ Caller # "hook"
        BY <2>2 DEF SavesRanking
      <3>2. HasPack /\ stage = "save" /\ Caller # "analyze_task"
        BY <2>2, SaveOf
      <3>3. CASE k = RankingKey
        <4>1. HasAssessment
          BY <3>2 DEF HasAssessment
        <4>2. /\ request \in Requests /\ request.task \in DOMAIN Tasks /\ Budget = ContentBudget
              /\ Budget \in Nat /\ Options.limit \in Nat /\ index \in Indexes
          BY <3>1, <4>1, BudgetTypes DEF Typed
        <4>3. request.options.limit \in Nat \ {0}
          BY <4>2, RequestTypes
        <4>4. k.files[1] = index /\ k.task = request.task /\ k.limit = request.options.limit
          BY <3>3 DEF RankingKey, found
        <4>5. OptionsOf(k) = Options
          BY <3>1, <3>2, <3>3, <4>2, KeyOptions
        <4>6. cache'.ranking[k] = Cut(index, ranking, Budget)
          <5>1. cache'.ranking[k] = Evidence
            BY <3>1, <3>3 DEF Put
          <5>2. QED
            BY <3>2, <5>1, EvidenceIsCut
        <4>7. Ranked(index, request.task, Options, Budget, Cut(index, ranking, Budget), disturbed, sanitized)
          <5>. DEFINE o == Options
                      b == Budget
          <5>1. o.limit \in Nat /\ b \in Nat /\ Ranked(index, request.task, o, b, ranking, disturbed, sanitized)
            BY <3>2, <4>2 DEF Rankings
          <5>. HIDE DEF o, b
          <5>2. Ranked(index, request.task, o, b, Cut(index, ranking, b), disturbed, sanitized)
            BY <4>2, <5>1, CutIsRanked
          <5>3. QED
            BY <5>2 DEF o, b
        <4>8. Ranked(index, request.task, Options, Budget, Cut(index, ranking, Budget), disturbed', sanitized')
          BY <1>k, <4>7
        <4>9. Keyed(k)
          BY <4>2, <4>3, <4>4 DEF Keyed
        <4>10. QED
          BY <4>2, <4>4, <4>5, <4>6, <4>8, <4>9
      <3>4. CASE k # RankingKey
        <4>1. k \in DOMAIN cache.ranking /\ cache'.ranking[k] = cache.ranking[k]
          BY <3>1, <3>4 DEF Put
        <4>2. QED
          BY <2>1, <4>1
      <3>5. QED
        BY <3>3, <3>4
    <2>3. cache'.ranking = cache.ranking \/ (Save /\ SavesRanking)
      BY HistoryGrows, SaveOf DEF SavesAnalysis, SavesSummary
    <2>4. QED
      BY <2>1, <2>2, <2>3
  <1>2. ASSUME HasPack'
        PROVE  /\ Ranked(index, request.task, Options, Budget, ranking, disturbed, sanitized)'
               /\ pack' = [selected |-> pack'.selected, excluded |-> pack'.excluded, summaries |-> pack'.summaries]
               /\ pack'.selected = Cut(index, ranking, Budget)'.selected
               /\ pack'.excluded = Cut(index, ranking, Budget)'.excluded
               /\ unread' \in Seq(Files) /\ ToSet(unread') \subseteq ToSet(pack'.selected)
               /\ unread' # <<>> => Summarizes'
    <2>1. CASE Rank
      <3>1. /\ Ranked(index, request.task, Options, Budget, ranking', disturbed, sanitized)
            /\ pack' = [selected |-> Cut(index, ranking', Budget).selected,
                        excluded |-> Cut(index, ranking', Budget).excluded, summaries |-> Nothing]
            /\ Cut(index, ranking', Budget).selected \in Seq(Files)
            /\ unread' = IF Summarizes THEN pack'.selected ELSE <<>>
            /\ UNCHANGED <<request, index, assessment, disturbed, sanitized>>
        BY <2>1, RankOf
      <3>2. Options' = Options /\ Budget' = Budget /\ (Summarizes' <=> Summarizes)
        BY <3>1 DEF Options, Budget, Summarizes
      <3>3. <<>> \in Seq(Files) /\ ToSet(<<>>) = {}
        BY DEF ToSet
      <3>4. pack'.selected \in Seq(Files)
        BY <3>1
      <3>5. unread' \in Seq(Files) /\ ToSet(unread') \subseteq ToSet(pack'.selected)
        <4>1. CASE Summarizes
          BY <3>1, <3>4, <4>1
        <4>2. CASE ~Summarizes
          <5>1. unread' = <<>>
            BY <3>1, <4>2
          <5>2. ToSet(unread') = {}
            BY <3>3, <5>1
          <5>3. QED
            BY <3>3, <5>1, <5>2
        <4>3. QED
          BY <4>1, <4>2
      <3>6. unread' # <<>> => Summarizes
        BY <3>1
      <3>7. QED
        BY <3>1, <3>2, <3>5, <3>6
    <2>2. CASE Summarize
      <3>1. /\ HasPack /\ Summarizes /\ unread' = Tail(unread) /\ Tail(unread) \in Seq(Files)
            /\ pack' = [selected |-> pack.selected, excluded |-> pack.excluded, summaries |-> pack'.summaries]
            /\ ToSet(unread) = {Head(unread)} \cup ToSet(Tail(unread))
        BY <2>2, SummarizeOf
      <3>2. UNCHANGED <<request, index, assessment, ranking, disturbed, sanitized>>
        BY <2>2 DEF Summarize, found, history
      <3>3. Options' = Options /\ Budget' = Budget /\ (Summarizes' <=> Summarizes)
        BY <3>2 DEF Options, Budget, Summarizes
      <3>4. /\ Ranked(index, request.task, Options, Budget, ranking, disturbed, sanitized)
            /\ pack.selected = Cut(index, ranking, Budget).selected
            /\ pack.excluded = Cut(index, ranking, Budget).excluded
            /\ ToSet(unread) \subseteq ToSet(pack.selected)
        BY <3>1 DEF Rankings
      <3>5. pack'.selected = pack.selected /\ pack'.excluded = pack.excluded
        BY <3>1
      <3>6. QED
        BY <3>1, <3>2, <3>3, <3>4, <3>5
    <2>3. CASE HasPack /\ UNCHANGED <<request, index, stamps, assessment, ranking, pack, unread, analysis>>
      <3>1. Options' = Options /\ Budget' = Budget /\ (Summarizes' <=> Summarizes)
        BY <2>3 DEF Options, Budget, Summarizes
      <3>2. /\ Ranked(index, request.task, Options, Budget, ranking, disturbed, sanitized)
            /\ pack = [selected |-> pack.selected, excluded |-> pack.excluded, summaries |-> pack.summaries]
            /\ pack.selected = Cut(index, ranking, Budget).selected
            /\ pack.excluded = Cut(index, ranking, Budget).excluded
            /\ unread \in Seq(Files) /\ ToSet(unread) \subseteq ToSet(pack.selected)
            /\ unread # <<>> => Summarizes
        BY <2>3 DEF Rankings
      <3>3. Ranked(index, request.task, Options, Budget, ranking, disturbed', sanitized')
        BY <1>k, <3>2
      <3>4. QED
        BY <2>3, <3>1, <3>2, <3>3
    <2>4. QED
      BY <1>2, <2>1, <2>2, <2>3, PackOrigin
  <1>3. QED
    BY <1>1, <1>2 DEF Rankings

LEMMA SummarizedStep ==
  ASSUME Typed, Staged, CacheFields, Analyses, Undisturbed, Summaries, Rankings, Unsaved, Summarized, [Next]_vars
  PROVE  Summarized'
  <1>1. SUFFICES ASSUME HasPack', NEW f \in (ToSet(pack'.selected) \ ToSet(unread')) \ disturbed'
                 PROVE  pack'.summaries[f] =
                          IF Summarizes' THEN [hash |-> index'[f], of |-> index'[f]] ELSE None
    BY DEF Summarized
  <1>2. f \notin disturbed
    BY <1>1, HistoryGrows
  <1>3. ASSUME HasPack
        PROVE  ToSet(pack.selected) \subseteq Rankable(index)
    <2>1. HasAssessment
      BY <1>3 DEF HasPack, HasAssessment
    <2>2. /\ Whole(index, Options, ranking) /\ Options.limit \in Nat /\ Budget \in Nat /\ index \in Indexes
          /\ pack.selected = Cut(index, ranking, Budget).selected
      BY <1>3, <2>1, BudgetTypes DEF Rankings, Ranked, Typed
    <2>. DEFINE o == Options
                b == Budget
    <2>3. o.limit \in Nat /\ b \in Nat /\ Whole(index, o, ranking) /\ pack.selected = Cut(index, ranking, b).selected
      BY <2>2
    <2>. HIDE DEF o, b
    <2>4. Whole(index, o, Cut(index, ranking, b))
      BY <2>2, <2>3, CutIsWhole
    <2>5. ToSet(Cut(index, ranking, b).selected) \subseteq Rankable(index)
      BY <2>4 DEF Whole
    <2>6. QED
      BY <2>3, <2>5
  <1>4. CASE Rank
    <2>1. /\ pack' = [selected |-> Cut(index, ranking', Budget).selected,
                      excluded |-> Cut(index, ranking', Budget).excluded, summaries |-> Nothing]
          /\ unread' = IF Summarizes THEN pack'.selected ELSE <<>>
          /\ UNCHANGED <<request, index, assessment>> /\ Cut(index, ranking', Budget).selected \in Seq(Files)
      BY <1>4, RankOf
    <2>2. Summarizes' <=> Summarizes
      BY <2>1 DEF Summarizes
    <2>3. ~Summarizes
      BY <1>1, <2>1
    <2>4. pack'.summaries = Nothing /\ f \in Files
      <3>1. pack'.selected \in Seq(Files) /\ pack'.summaries = Nothing
        BY <2>1
      <3>2. ToSet(pack'.selected) \subseteq Files
        <4>. DEFINE s == pack'.selected
        <4>1. s \in Seq(Files)
          BY <3>1
        <4>. HIDE DEF s
        <4>2. ToSet(s) \subseteq Files
          BY <4>1, ToSetAppend, PrefixSet, WholePrefix
        <4>3. QED
          BY <4>2 DEF s
      <3>3. QED
        BY <1>1, <3>1, <3>2
    <2>5. pack'.summaries[f] = None
      BY <2>4 DEF Nothing
    <2>6. QED
      BY <2>2, <2>3, <2>5
  <1>5. CASE Summarize
    <2>. DEFINE saved == IF request.caller = "hook" THEN <<>> ELSE cache.summary
                h == Head(unread)
                v == SummaryOf(saved, h)
    <2>1. /\ HasPack /\ h \in Files /\ h \in ToSet(pack.selected) /\ Summarizes
          /\ pack' = [selected |-> pack.selected, excluded |-> pack.excluded, summaries |-> pack'.summaries]
          /\ pack'.summaries = [g \in Files |-> IF g = h THEN v ELSE pack.summaries[g]]
          /\ unread' = Tail(unread) /\ ToSet(unread) = {h} \cup ToSet(Tail(unread))
      BY <1>5, SummarizeOf
    <2>2. UNCHANGED <<request, index, assessment>>
      BY <1>5 DEF Summarize, found
    <2>3. Summarizes' <=> Summarizes
      BY <2>2 DEF Summarizes
    <2>4. index[h] # None /\ h \notin disturbed => v = [hash |-> index[h], of |-> index[h]]
      <3>1. h \in Files
        BY <2>1
      <3>. HIDE DEF h
      <3>2. QED
        BY <1>5, <3>1, SummaryOfFile
    <2>. HIDE DEF h, v
    <2>5. f \in ToSet(pack.selected) /\ f \in Files /\ index[f] # None
      <3>1. pack'.selected = pack.selected
        BY <2>1
      <3>2. QED
        BY <1>1, <1>3, <2>1, <3>1 DEF Rankable, Present
    <2>6. CASE f = h
      BY <1>2, <2>1, <2>2, <2>3, <2>4, <2>5, <2>6
    <2>7. CASE f # h
      <3>1. f \in ToSet(pack.selected) \ ToSet(unread)
        BY <1>1, <2>1, <2>5, <2>7
      <3>2. pack.summaries[f] = [hash |-> index[f], of |-> index[f]]
        BY <1>2, <2>1, <3>1 DEF Summarized
      <3>3. pack'.summaries[f] = pack.summaries[f]
        BY <2>1, <2>5, <2>7
      <3>4. QED
        BY <2>1, <2>2, <2>3, <3>2, <3>3
    <2>8. QED
      BY <2>6, <2>7
  <1>6. CASE HasPack /\ UNCHANGED <<request, index, stamps, assessment, ranking, pack, unread, analysis>>
    <2>1. Summarizes' <=> Summarizes
      BY <1>6 DEF Summarizes
    <2>2. pack.summaries[f] = IF Summarizes THEN [hash |-> index[f], of |-> index[f]] ELSE None
      BY <1>1, <1>2, <1>6 DEF Summarized
    <2>3. QED
      BY <1>6, <2>1, <2>2
  <1>7. QED
    BY <1>1, <1>4, <1>5, <1>6, PackOrigin

(* What is still to be saved is of the session.                            *)
LEMMA RecordsAre ==
  ASSUME Typed, Staged, Summaries, Rankings, stage = "summarize"
  PROVE  Records \in Seq(ToSet(Records)) /\ \A r \in ToSet(Records) : IsRecord(r)
  <1>1. CASE request.caller = "hook"
    <2>. DEFINE a == Record("analysis", "latest", Sanitized(analysis))
    <2>1. Records = <<a>>
      BY <1>1 DEF Records
    <2>2. IsRecord(a)
      BY <1>1 DEF IsRecord, Record, Caller
    <2>. HIDE DEF a
    <2>3. <<a>> \in Seq({a}) /\ ToSet(<<a>>) = {a}
      BY DEF ToSet
    <2>4. QED
      BY <2>1, <2>2, <2>3
  <1>2. CASE request.caller # "hook"
    <2>. DEFINE s == Kept(pack.selected, {f \in Files : pack.summaries[f] # None})
                a == Record("analysis", "latest", analysis)
                b == Record("ranking", RankingKey, Evidence)
                c(f) == Record("summary", SummaryKey(f), pack.summaries[f])
                X == {a, b} \cup {c(f) : f \in ToSet(s)}
                p == <<a, b>>
                q == [n \in DOMAIN s |-> c(s[n])]
    <2>1. Records = p \o q
      BY <1>2 DEF Records
    <2>2. s \in Seq(Files) /\ ToSet(s) \subseteq {f \in Files : pack.summaries[f] # None}
      <3>1. pack.selected \in Seq(Files)
        <4>1. HasPack /\ HasAssessment
          BY DEF HasPack, HasAssessment
        <4>2. /\ Whole(index, Options, ranking) /\ Options.limit \in Nat /\ Budget \in Nat /\ index \in Indexes
              /\ pack.selected = Cut(index, ranking, Budget).selected
          BY <4>1, BudgetTypes DEF Rankings, Ranked, Typed
        <4>. DEFINE o == Options
                    d == Budget
        <4>3. o.limit \in Nat /\ d \in Nat /\ Whole(index, o, ranking) /\ pack.selected = Cut(index, ranking, d).selected
          BY <4>2
        <4>. HIDE DEF o, d
        <4>4. Whole(index, o, Cut(index, ranking, d))
          BY <4>2, <4>3, CutIsWhole
        <4>5. pack.selected \in Seq(Rankable(index)) /\ Rankable(index) \subseteq Files
          BY <4>2, <4>3, <4>4, PresentFiles DEF Whole
        <4>6. QED
          BY <4>5
      <3>. DEFINE W == {f \in Files : pack.summaries[f] # None}
      <3>. HIDE DEF W
      <3>2. Kept(pack.selected, W) \in Seq(Files) /\ ToSet(Kept(pack.selected, W)) = ToSet(pack.selected) \cap W
        BY <3>1, KeptElements
      <3>3. QED
        BY <3>2 DEF W
    <2>3. IsRecord(a) /\ IsRecord(b)
      BY <1>2 DEF IsRecord, Record, Caller
    <2>4. \A f \in ToSet(s) : IsRecord(c(f))
      <3>1. SUFFICES ASSUME NEW f \in ToSet(s)
                     PROVE  IsRecord(c(f))
        OBVIOUS
      <3>2. f \in Files /\ pack.summaries[f] # None
        BY <2>2
      <3>3. c(f).kind = "summary" /\ c(f).key = SummaryKey(f) /\ c(f).value = pack.summaries[f]
        BY DEF Record
      <3>. HIDE DEF c
      <3>4. QED
        BY <3>2, <3>3 DEF IsRecord
    <2>5. p \in Seq(X)
      <3>. HIDE DEF a, b, c, s
      <3>1. a \in X /\ b \in X
        OBVIOUS
      <3>. HIDE DEF X
      <3>2. QED
        BY <3>1
    <2>6. q \in Seq(X)
      <3>. HIDE DEF a, b, c, s
      <3>1. DOMAIN s = 1 .. Len(s) /\ Len(s) \in Nat
        BY <2>2
      <3>2. \A n \in 1 .. Len(s) : c(s[n]) \in X
        BY <3>1 DEF ToSet
      <3>. HIDE DEF X
      <3>3. QED
        BY <3>1, <3>2
    <2>7. \A r \in X : IsRecord(r)
      <3>. HIDE DEF a, b, c, s
      <3>1. QED
        BY <2>3, <2>4
    <2>. HIDE DEF p, q, X
    <2>8. p \o q \in Seq(X)
      BY <2>5, <2>6
    <2>9. ToSet(p \o q) \subseteq X /\ p \o q \in Seq(ToSet(p \o q))
      <3>. DEFINE u == p \o q
      <3>1. u \in Seq(X)
        BY <2>8
      <3>. HIDE DEF u
      <3>2. u \in Seq(ToSet(u)) /\ ToSet(u) \subseteq X
        <4>1. DOMAIN u = 1 .. Len(u) /\ \A i \in 1 .. Len(u) : u[i] \in X
          BY <3>1
        <4>2. QED
          BY <3>1, <4>1, OwnElements DEF ToSet
      <3>3. QED
        BY <3>2 DEF u
    <2>10. QED
      BY <2>1, <2>7, <2>9
  <1>3. QED
    BY <1>1, <1>2

LEMMA UnsavedStep ==
  ASSUME Typed, Staged, CacheFields, Summaries, Rankings, Unsaved, [Next]_vars
  PROVE  Unsaved'
  <1>. USE DEF user, history, found, local
  <1>e. <<>> \in Seq(ToSet(<<>>)) /\ ToSet(<<>>) = {}
    BY DEF ToSet
  <1>1. CASE stage' # "save"
    <2>1. unsaved' = <<>>
      BY <1>1, StagedStep DEF Staged
    <2>2. unsaved' \in Seq(ToSet(unsaved')) /\ ToSet(unsaved') = {}
      BY <1>e, <2>1
    <2>3. QED
      BY <2>1, <2>2 DEF Unsaved
  <1>2. CASE Assess
    <2>1. unsaved' = <<>>
      BY <1>2 DEF Assess, Staged
    <2>2. unsaved' \in Seq(ToSet(unsaved')) /\ ToSet(unsaved') = {}
      BY <1>e, <2>1
    <2>3. QED
      BY <2>1, <2>2 DEF Unsaved
  <1>3. CASE Finish
    <2>1. /\ stage = "summarize" /\ unsaved' = Records
          /\ UNCHANGED <<request, index, stamps, analysis, assessment, ranking, pack, unread>>
      BY <1>3 DEF Finish
    <2>2. unsaved' \in Seq(ToSet(unsaved')) /\ \A r \in ToSet(unsaved') : IsRecord(r)
      BY <2>1, RecordsAre
    <2>3. \A r : IsRecord(r) => IsRecord(r)'
      BY <2>1 DEF IsRecord, Caller, RankingKey, Evidence, SummaryKey
    <2>4. Caller' # "analyze_task"
      BY <2>1 DEF Staged, Caller
    <2>5. QED
      BY <2>2, <2>3, <2>4 DEF Unsaved
  <1>4. CASE Save
    <2>1. /\ stage = "save" /\ unsaved # <<>> /\ unsaved' = Tail(unsaved) /\ stage' = stage
          /\ UNCHANGED <<request, index, stamps, analysis, assessment, ranking, pack, unread>>
      BY <1>4 DEF Save
    <2>2. /\ Tail(unsaved) \in Seq(ToSet(unsaved)) /\ ToSet(Tail(unsaved)) \subseteq ToSet(unsaved)
      BY <2>1, FirstOfSome DEF Unsaved
    <2>3. unsaved' \in Seq(ToSet(unsaved'))
      <3>. DEFINE u == Tail(unsaved)
                  X == ToSet(unsaved)
      <3>1. u \in Seq(X)
        BY <2>2
      <3>. HIDE DEF u, X
      <3>2. u \in Seq(ToSet(u))
        BY <3>1, OwnElements
      <3>3. QED
        BY <2>1, <3>2 DEF u
    <2>4. \A r \in ToSet(unsaved') : IsRecord(r)
      BY <2>1, <2>2 DEF Unsaved
    <2>5. \A r : IsRecord(r) => IsRecord(r)'
      BY <2>1 DEF IsRecord, Caller, RankingKey, Evidence, SummaryKey
    <2>6. Caller' # "analyze_task"
      BY <2>1 DEF Unsaved, Caller
    <2>7. QED
      BY <2>3, <2>4, <2>5, <2>6 DEF Unsaved
  <1>5. CASE (Edits \/ UNCHANGED vars) /\ stage' = "save"
    <2>1. UNCHANGED <<request, index, stamps, analysis, assessment, ranking, pack, unread, unsaved, stage>>
      BY <1>5 DEF Edits, UserEdits, vars
    <2>2. \A r : IsRecord(r) => IsRecord(r)'
      BY <2>1 DEF IsRecord, Caller, RankingKey, Evidence, SummaryKey
    <2>3. QED
      BY <2>1, <2>2 DEF Unsaved, Caller
  <1>6. stage' = "save" => Assess \/ Finish \/ Save \/ Edits \/ UNCHANGED vars
    <2>1. Start => stage' = "discover"
      BY DEF Start
    <2>2. Ends => stage' = "idle"
      BY DEF Ends, Leave
    <2>3. Discover => stage' = "analyze"
      BY DEF Discover
    <2>4. Analyze => stage' = "assess"
      BY DEF Analyze
    <2>5. Rank => stage' = "summarize"
      BY DEF Rank
    <2>6. Summarize => stage' = "summarize"
      BY DEF Summarize
    <2>7. QED
      BY <2>1, <2>2, <2>3, <2>4, <2>5, <2>6, Steps
  <1>7. QED
    BY <1>1, <1>2, <1>3, <1>4, <1>5, <1>6

-----------------------------------------------------------------------------
(* The invariant holds, whatever the sessions and the edits are.           *)
LEMMA InitInv == Init => IInv
  <1>. SUFFICES ASSUME Init
                PROVE  IInv
    OBVIOUS
  <1>1. Typed
    <2>1. /\ disk \in Indexes /\ modified \in [Files -> 0 .. MaxEdits] /\ sessions \in 0 .. MaxSessions
      BY RunAssumption DEF Init, Indexes
    <2>2. Nothing \in Indexes /\ Nothing \in [Files -> (0 .. MaxEdits) \cup {None}]
      BY DEF Nothing, Indexes
    <2>3. QED
      BY <2>1, <2>2 DEF Init, Typed, Stages
  <1>2. Staged
    BY DEF Init, Staged, HasAssessment, HasPack
  <1>3. CacheFields /\ Analyses /\ Contained /\ Undisturbed
    BY DEF Init, CacheFields, Analyses, Contained, Possible, Undisturbed, HasAnalysis
  <1>4. Summaries /\ Rankings /\ Summarized
    BY DEF Init, Summaries, Rankings, Summarized, HasPack
  <1>5. Unsaved
    BY DEF Init, Unsaved, ToSet
  <1>6. QED
    BY <1>1, <1>2, <1>3, <1>4, <1>5 DEF IInv

LEMMA InvStep == IInv /\ [Next]_vars => IInv'
  <1>. SUFFICES ASSUME IInv, [Next]_vars
                PROVE  IInv'
    OBVIOUS
  <1>1. /\ Typed /\ Staged /\ CacheFields /\ Analyses /\ Contained /\ Undisturbed /\ Summaries
        /\ Rankings /\ Summarized /\ Unsaved
    BY DEF IInv
  <1>2. Typed' /\ Staged' /\ CacheFields' /\ Contained' /\ Undisturbed'
    BY <1>1, TypedStep, StagedStep, CacheStep, ContainedStep, UndisturbedStep
  <1>3. Analyses' /\ Summaries'
    BY <1>1, AnalysesStep, SummariesStep
  <1>4. Rankings' /\ Summarized' /\ Unsaved'
    BY <1>1, RankingsStep, SummarizedStep, UnsavedStep
  <1>5. QED
    BY <1>2, <1>3, <1>4 DEF IInv

THEOREM Invariant == Spec => []IInv
  BY InitInv, InvStep, PTL DEF Spec

-----------------------------------------------------------------------------
(* Where there is a pack, it is what is cut from a ranking.                *)
LEMMA PackIsCut ==
  ASSUME IInv, pack # None
  PROVE  /\ HasPack /\ HasAssessment /\ index \in Indexes
         /\ request \in Requests /\ request.task \in DOMAIN Tasks
         /\ Budget \in Nat /\ Options.limit \in Nat /\ Options.limit = request.options.limit
         /\ Ranked(index, request.task, Options, Budget, ranking, disturbed, sanitized)
         /\ pack.selected = Cut(index, ranking, Budget).selected
         /\ pack.excluded = Cut(index, ranking, Budget).excluded
         /\ Whole(index, Options, Cut(index, ranking, Budget))
         /\ TotalTokens(index, ToSet(pack.selected)) <= Budget
         /\ assessment = Assessment(Task, index, analysis)
  <1>1. HasPack /\ HasAssessment /\ Typed /\ Staged /\ Rankings
    BY DEF IInv, Staged, HasPack, HasAssessment
  <1>2. /\ Budget \in Nat /\ request \in Requests /\ request.task \in DOMAIN Tasks
        /\ Options.limit = request.options.limit /\ request.options.limit \in Nat
    BY <1>1, BudgetTypes
  <1>3. /\ Ranked(index, request.task, Options, Budget, ranking, disturbed, sanitized)
        /\ pack.selected = Cut(index, ranking, Budget).selected
        /\ pack.excluded = Cut(index, ranking, Budget).excluded
    BY <1>1 DEF Rankings
  <1>4. index \in Indexes /\ assessment = Assessment(Task, index, analysis)
    BY <1>1 DEF Typed, Staged
  <1>5. Whole(index, Options, ranking)
    BY <1>3 DEF Ranked
  <1>. DEFINE o == Options
              b == Budget
  <1>6. o.limit \in Nat /\ b \in Nat /\ Whole(index, o, ranking)
    BY <1>2, <1>5
  <1>. HIDE DEF o, b
  <1>7. /\ Whole(index, o, Cut(index, ranking, b))
        /\ TotalTokens(index, ToSet(Cut(index, ranking, b).selected)) <= b
    BY <1>4, <1>6, CutIsWhole
  <1>8. QED
    BY <1>1, <1>2, <1>3, <1>4, <1>7 DEF o, b

LEMMA TypesFollow == IInv => TypeOK
  <1>. SUFFICES ASSUME IInv
                PROVE  TypeOK
    OBVIOUS
  <1>1. Typed /\ Staged /\ Analyses /\ Summaries /\ Rankings
    BY DEF IInv
  <1>2. /\ disk \in [Files -> Contents \cup {None}] /\ modified \in [Files -> 0 .. MaxEdits]
        /\ sessions \in 0 .. MaxSessions /\ stage \in Stages
        /\ request \in Requests \cup {None} /\ (request = None <=> stage = "idle")
        /\ index \in [Files -> Contents \cup {None}]
        /\ stamps \in [Files -> (0 .. MaxEdits) \cup {None}]
        /\ disturbed \subseteq Files /\ sanitized \subseteq Files \X (Contents \cup {None})
    BY <1>1 DEF Typed, Indexes
  <1>3. ASSUME analysis # None, NEW f \in Files
        PROVE  /\ analysis[f].hash = index[f] /\ analysis[f].imports \subseteq Files
               /\ analysis[f].terms # {} => index[f] # None
    <2>1. HasAnalysis
      BY <1>1, <1>2, <1>3 DEF Staged, HasAnalysis, Stages
    <2>2. analysis[f].hash = index[f] /\ KnownOf(f, analysis[f], disturbed, sanitized)
      BY <1>1, <2>1 DEF Analyses, Known
    <2>3. QED
      BY <2>2, KnownFacts
  <1>4. ASSUME assessment # None
        PROVE  assessment.mode \in DOMAIN TokenBudget
    <2>1. stage # "idle" /\ request \in Requests
      BY <1>1, <1>2, <1>4 DEF Staged
    <2>2. request.task \in DOMAIN Tasks
      BY <2>1, RequestTypes
    <2>3. \/ assessment = AssessmentOfTask(Task)
          \/ assessment = Assessment(Task, index, analysis)
      BY <1>1, <1>2, <1>4, <2>1 DEF Staged, HasAssessment, Stages
    <2>4. AssessmentOfTask(Task).mode \in DOMAIN TokenBudget
      BY <2>2, ModeKnown DEF AssessmentOfTask, Task
    <2>5. Assessment(Task, index, analysis).mode \in DOMAIN TokenBudget
      BY <2>2, ModeKnown DEF Assessment, Task
    <2>6. QED
      BY <2>3, <2>4, <2>5
  <1>5. ASSUME pack # None
        PROVE  /\ ToSet(pack.selected) \subseteq Rankable(index)
               /\ ToSet(unread) \subseteq ToSet(pack.selected)
    <2>1. /\ HasPack /\ pack.selected = Cut(index, ranking, Budget).selected
          /\ Whole(index, Options, Cut(index, ranking, Budget))
      BY <1>5, PackIsCut
    <2>2. ToSet(pack.selected) \subseteq Rankable(index)
      BY <2>1 DEF Whole
    <2>3. QED
      BY <1>1, <2>1, <2>2 DEF Rankings
  <1>6. ASSUME NEW k \in DOMAIN cache.ranking
        PROVE  ToSet(cache.ranking[k].selected) \subseteq Files
    <2>1. /\ k.files[1] \in Indexes
          /\ Ranked(k.files[1], k.task, OptionsOf(k), ContentBudget, cache.ranking[k], disturbed, sanitized)
      BY <1>1 DEF Rankings, Keyed
    <2>2. ToSet(cache.ranking[k].selected) \subseteq Rankable(k.files[1])
      BY <2>1 DEF Ranked, Whole
    <2>3. Rankable(k.files[1]) \subseteq Files
      BY <2>1, PresentFiles
    <2>4. QED
      BY <2>2, <2>3
  <1>7. ASSUME NEW k \in DOMAIN cache.summary
        PROVE  cache.summary[k].of \in Contents
    BY <1>1 DEF Summaries, SummaryFor
  <1>8. QED
    BY <1>2, <1>3, <1>4, <1>5, <1>6, <1>7 DEF TypeOK

(* What a session has, whatever it is called with, is of the right kind;   *)
(* in particular what comes back from the cache: a saved ranking selects   *)
(* files of the workspace, and a saved summary is of a content.            *)
THEOREM Types == Spec => []TypeOK
  BY Invariant, TypesFollow, PTL

LEMMA ColdAssessment == IInv => AssessmentIsCold
  <1>. SUFFICES ASSUME IInv, HasAssessment, disturbed = {}, ~NamesSecrets(Task)
                PROVE  assessment = Assessment(Task, index, ColdAnalysis)
    BY DEF AssessmentIsCold, HasAssessment
  <1>1. /\ assessment = Assessment(Task, index, analysis)
        /\ Known(analysis, disturbed, sanitized) /\ \A f \in Files : analysis[f].hash = index[f]
    BY DEF IInv, Staged, Analyses, HasAssessment, HasAnalysis
  <1>2. ASSUME NEW f \in Files
        PROVE  /\ analysis[f].imports = ColdAnalysis[f].imports
               /\ analysis[f].symbols \ Hidden = ColdAnalysis[f].symbols \ Hidden
    <2>1. KnownOf(f, analysis[f], {}, sanitized) /\ analysis[f].hash = index[f]
      BY <1>1 DEF Known
    <2>2. ColdAnalysis[f] = Analyzed(f, index[f], index[f])
      BY DEF ColdAnalysis
    <2>3. QED
      BY <2>1, <2>2, KnownFacts
  <1>. DEFINE task == Task
              x == analysis
              y == ColdAnalysis
  <1>3. /\ ~NamesSecrets(task)
        /\ \A f \in Files : x[f].imports = y[f].imports /\ x[f].symbols \ Hidden = y[f].symbols \ Hidden
    BY <1>2
  <1>. HIDE DEF task, x, y
  <1>4. Assessment(task, index, x) = Assessment(task, index, y)
    BY <1>3, AssessedAlike
  <1>5. QED
    BY <1>1, <1>4 DEF task, x, y

(* A task gets the assessment that a session without a cache would give    *)
(* it, after any sessions of the hook, the command and the tools: what the *)
(* hook takes out of the analysis that it saves does not count.            *)
THEOREM Assessments == Spec => []AssessmentIsCold
  BY Invariant, ColdAssessment, PTL

(* Reducing leaves nothing to be reduced of a file that was skipped.       *)
LEMMA SkippedStays ==
  ASSUME NEW f, NEW c, NEW hash, Kind[f] = "generated" \/ c = None
  PROVE  Analyzed(f, c, hash) = Skipped(hash) /\ Reduced(Skipped(hash)) = Skipped(hash)
  <1>1. Analyzed(f, c, hash) = Skipped(hash)
    BY DEF Analyzed
  <1>. DEFINE e == Skipped(hash)
              g == Reduced(e)
  <1>2. /\ e = [hash |-> hash, symbols |-> {}, terms |-> {}, imports |-> {}]
        /\ e = [hash |-> e.hash, symbols |-> e.symbols, terms |-> e.terms, imports |-> e.imports]
    BY DEF Skipped
  <1>. HIDE DEF e
  <1>3. /\ g = [hash |-> g.hash, symbols |-> g.symbols, terms |-> g.terms, imports |-> g.imports]
        /\ g.hash = e.hash /\ g.imports = e.imports /\ g.terms = {}
        /\ g.symbols = IF e.symbols \cap Secrets = {} THEN e.symbols
                       ELSE (e.symbols \ Secrets) \cup {Redacted}
    BY <1>2, ReducedFields
  <1>. HIDE DEF g
  <1>4. g.symbols = {}
    BY <1>2, <1>3
  <1>5. g = e
    BY <1>2, <1>3, <1>4
  <1>6. QED
    BY <1>1, <1>5 DEF g, e

(* An analysis of the files of an index, whatever sessions it has gone     *)
(* through, is one of their contents, reduced where the hook has saved it. *)
LEMMA KnownIsFrom ==
  ASSUME IInv, NEW x, Known(x, disturbed, sanitized), \A f \in Files : x[f].hash = index[f]
  PROVE  \E seen \in Seen, full \in SUBSET SavedByHook : x = AnalysisFrom(seen, SavedByHook \ full)
  <1>. DEFINE Of(f) == CHOOSE c : FoundIn(f, x[f], c, disturbed, sanitized)
              seen == [f \in Uncertain |-> Of(f)]
              full == {f \in SavedByHook : x[f] = Analyzed(f, Of(f), index[f])}
              y == AnalysisFrom(seen, SavedByHook \ full)
  <1>1. ASSUME NEW f \in Files
        PROVE  /\ Of(f) \in Contents \cup {None} /\ (index[f] # None => Of(f) \in Possible(f))
               /\ (f \notin disturbed => Of(f) = index[f]) /\ (index[f] = None => Of(f) = None)
               /\ \/ x[f] = Analyzed(f, Of(f), index[f])
                  \/ <<f, index[f]>> \in sanitized /\ x[f] = Reduced(Analyzed(f, Of(f), index[f]))
    <2>1. \E c : FoundIn(f, x[f], c, disturbed, sanitized)
      BY DEF Known, KnownOf
    <2>2. FoundIn(f, x[f], Of(f), disturbed, sanitized)
      BY <2>1
    <2>. HIDE DEF Of
    <2>3. QED
      BY <2>2 DEF FoundIn
  <1>. HIDE DEF Of
  <1>2. \A f \in Uncertain : f \in Files /\ index[f] # None
    BY DEF Uncertain, Rankable, Present
  <1>3. seen \in Seen
    BY <1>1, <1>2 DEF Seen
  <1>4. ASSUME NEW f \in Files
        PROVE  x[f] = y[f]
    <2>. DEFINE c == IF f \in Uncertain THEN seen[f] ELSE index[f]
                a == Analyzed(f, c, index[f])
    <2>1. y[f] = IF f \in SavedByHook \ full THEN Reduced(a) ELSE a
      BY DEF AnalysisFrom
    <2>2. CASE f \in Rankable(index)
      <3>1. c = Of(f)
        BY <1>1, <2>2 DEF Uncertain
      <3>2. a = Analyzed(f, Of(f), index[f])
        BY <3>1
      <3>3. f \in full <=> f \in SavedByHook /\ x[f] = a
        BY <3>2
      <3>4. f \in SavedByHook <=> <<f, index[f]>> \in sanitized
        BY <2>2 DEF SavedByHook
      <3>5. x[f] = a \/ (<<f, index[f]>> \in sanitized /\ x[f] = Reduced(a))
        BY <1>1, <3>2
      <3>. HIDE DEF a, full, y
      <3>6. QED
        BY <2>1, <3>3, <3>4, <3>5
    <2>3. CASE f \notin Rankable(index)
      <3>1. Kind[f] = "generated" \/ (index[f] = None /\ c = None /\ Of(f) = None)
        BY <1>1, <2>3 DEF Rankable, Present, Uncertain
      <3>. HIDE DEF c, y
      <3>2. a = Skipped(index[f]) /\ Reduced(Skipped(index[f])) = Skipped(index[f])
        BY <3>1, SkippedStays
      <3>3. Analyzed(f, Of(f), index[f]) = Skipped(index[f])
        BY <3>1, SkippedStays
      <3>4. x[f] = Skipped(index[f])
        BY <1>1, <3>2, <3>3
      <3>. HIDE DEF a
      <3>5. QED
        BY <2>1, <3>2, <3>4
    <2>4. QED
      BY <2>2, <2>3
  <1>5. x = [f \in Files |-> x[f]] /\ y = [f \in Files |-> y[f]]
    BY DEF Known, AnalysisFrom
  <1>6. x = y
    <2>. HIDE DEF y
    <2>1. QED
      BY <1>4, <1>5
  <1>7. full \in SUBSET SavedByHook
    OBVIOUS
  <1>. HIDE DEF seen, full
  <1>8. QED
    BY <1>3, <1>6, <1>7

LEMMA CurrentPack == IInv => PackIsCurrent
  <1>. SUFFICES ASSUME IInv, stage = "summarize", unread = <<>>
                PROVE  PackIsCurrent
    BY DEF PackIsCurrent
  <1>1. /\ HasPack
        /\ Ranked(index, request.task, Options, Budget, ranking, disturbed, sanitized)
        /\ pack.selected = Cut(index, ranking, Budget).selected
        /\ pack.excluded = Cut(index, ranking, Budget).excluded
    BY DEF IInv, Rankings, HasPack
  <1>2. PICK x : /\ Known(x, disturbed, sanitized) /\ \A f \in Files : x[f].hash = index[f]
                 /\ Cut(index, ranking, Budget)
                      = Cut(index, RankingFrom(index, request.task, Options, x), Budget)
    BY <1>1 DEF Ranked, CutOfKnown
  <1>. DEFINE ranked == RankingFrom(index, request.task, Options, x)
              fresh == Fresh(x)
  <1>3. fresh.selected = ranked.selected /\ fresh.excluded = ranked.excluded
    BY DEF Fresh, RankingFrom, Task
  <1>4. /\ PackOf(fresh).selected = Cut(index, ranked, Budget).selected
        /\ PackOf(fresh).excluded = Cut(index, ranked, Budget).excluded
    <2>. HIDE DEF fresh, ranked
    <2>1. QED
      BY <1>3 DEF PackOf, Cut
  <1>5. pack.selected = PackOf(Fresh(x)).selected /\ pack.excluded = PackOf(Fresh(x)).excluded
    BY <1>1, <1>2, <1>4
  <1>6. PICK seen \in Seen, full \in SUBSET SavedByHook : x = AnalysisFrom(seen, SavedByHook \ full)
    BY <1>2, KnownIsFrom
  <1>7. \A f \in ToSet(pack.selected) \ disturbed :
          pack.summaries[f] = IF Summarizes THEN [hash |-> index[f], of |-> index[f]] ELSE None
    <2>1. ToSet(unread) = {}
      BY DEF ToSet
    <2>2. QED
      BY <1>1, <2>1 DEF IInv, Summarized
  <1>8. QED
    BY <1>5, <1>6, <1>7 DEF PackIsCurrent

(* Whatever sessions of the hook, the command and the tools have left in   *)
(* the cache, and whatever was edited under them, a pack is the one that   *)
(* would be made, without the cache, of an analysis of the files of its    *)
(* index: in full, or reduced where the hook has saved that very content;  *)
(* of the content that was indexed, or of another one where the file has   *)
(* been edited under a session.                                            *)
THEOREM CurrentPacks == Spec => []PackIsCurrent
  BY Invariant, CurrentPack, PTL

LEMMA SummariesFollow == IInv => SummaryOfItsHash
  <1>. SUFFICES ASSUME IInv, pack # None, NEW f \in Files, pack.summaries[f] # None
                PROVE  pack.summaries[f].hash = index[f] /\ (f \notin disturbed => pack.summaries[f].of = index[f])
    BY DEF SummaryOfItsHash
  <1>1. HasPack
    BY PackIsCut
  <1>2. SummaryFor(f, pack.summaries[f], disturbed) /\ pack.summaries[f].hash = index[f]
    BY <1>1 DEF IInv, Summaries
  <1>3. QED
    BY <1>2 DEF SummaryFor

(* A summary, new or from the cache, is of the hash of its file, and of    *)
(* the content that has this hash unless the file was edited under a       *)
(* session.                                                                *)
THEOREM SummariesOfHash == Spec => []SummaryOfItsHash
  BY Invariant, SummariesFollow, PTL

LEMMA NamedFollow == IInv => NamedFilesAreServed
  <1>. SUFFICES ASSUME IInv, pack # None
                PROVE  NamedFilesAreServed
    BY DEF NamedFilesAreServed
  <1>. DEFINE t == request.task
              o == Options
              b == Budget
              r == ranking
              c == Cut(index, r, b)
              N == NamedIn(index, t)
              V == Served(index, t, c.selected, b)
              named == assessment.hints.paths \cap Rankable(index)
              served == ToSet(pack.selected) \cap named
  <1>1. /\ index \in Indexes /\ b \in Nat /\ o.limit \in Nat /\ o.limit = request.options.limit
        /\ Ranked(index, t, o, b, r, disturbed, sanitized)
        /\ pack.selected = c.selected /\ assessment = Assessment(Task, index, analysis)
    BY PackIsCut
  <1>2. assessment.hints.paths = Tasks[t].paths \cup (Tasks[t].mentioned \cap Present(index))
    BY <1>1 DEF Assessment, Assessed, Hints, Task
  <1>3. named = N
    BY <1>2 DEF NamedIn
  <1>. HIDE DEF o, b
  <1>4. Whole(index, o, r)
    BY <1>1 DEF Ranked
  <1>. HIDE DEF t, r
  <1>5. WithinBudget(index, c.selected, b) = c.selected
    BY <1>1, <1>4, CutIsWhole
  <1>6. NamedLead(index, t, c.selected) /\ NamedFit(index, t, o, b, c)
    <2>1. Ranked(index, t, o, b, c, disturbed, sanitized)
      BY <1>1, CutIsRanked
    <2>2. QED
      BY <2>1 DEF Ranked
  <1>. HIDE DEF c
  <1>7. V = ToSet(c.selected) \cap N
    BY <1>5 DEF Served
  <1>8. served = V
    BY <1>1, <1>3, <1>7
  <1>9. \A i, j \in DOMAIN pack.selected : i < j /\ pack.selected[j] \in N => pack.selected[i] \in N
    BY <1>1, <1>6 DEF NamedLead
  <1>10. Cardinality(N) <= o.limit => \A f \in N \ V : TotalTokens(index, V) + Tokens(index, f) > b
    BY <1>6 DEF NamedFit
  <1>. HIDE DEF N, V, named, served
  <1>11. Cardinality(named) <= request.options.limit =>
           \A f \in named \ served : TotalTokens(index, served) + Tokens(index, f) > Budget
    BY <1>1, <1>3, <1>8, <1>10 DEF b
  <1>12. QED
    BY <1>3, <1>9, <1>11 DEF NamedFilesAreServed, named, served

(* The files that a task names lead the pack, and if there are no more of  *)
(* them than the limit, one is left out only where the budget is short.    *)
THEOREM NamedServed == Spec => []NamedFilesAreServed
  BY Invariant, NamedFollow, PTL

LEMMA WholeFollow == IInv => PackIsWhole
  <1>. SUFFICES ASSUME IInv, pack # None
                PROVE  PackIsWhole
    BY DEF PackIsWhole
  <1>. DEFINE a == pack.selected
              e == pack.excluded
              S == Rankable(index)
  <1>1. /\ Whole(index, Options, Cut(index, ranking, Budget))
        /\ a = Cut(index, ranking, Budget).selected /\ e = Cut(index, ranking, Budget).excluded
        /\ Options.limit = request.options.limit
        /\ TotalTokens(index, ToSet(a)) <= Budget
    BY PackIsCut
  <1>2. /\ a \in Seq(S) /\ e \in Seq(S) /\ IsInjective(a) /\ IsInjective(e)
        /\ ToSet(a) \cap ToSet(e) = {} /\ ToSet(a) \cup ToSet(e) = S
        /\ Len(a) <= request.options.limit
    BY <1>1 DEF Whole
  <1>. HIDE DEF a, e, S
  <1>3. a \o e \in Seq(S) /\ ToSet(a \o e) = S /\ IsInjective(a \o e)
    <2>1. a \in Seq(S) /\ e \in Seq(S)
      BY <1>2
    <2>2. ToSet(a \o e) = ToSet(a) \cup ToSet(e) /\ a \o e \in Seq(S)
      BY <2>1, ConcatSets
    <2>3. IsInjective(a) /\ IsInjective(e) /\ ToSet(a) \cap ToSet(e) = {}
      BY <1>2
    <2>4. IsInjective(a \o e)
      BY <2>1, <2>3, ConcatSets
    <2>5. QED
      BY <1>2, <2>2, <2>4
  <1>4. Len(a \o e) = Cardinality(S)
    <2>. DEFINE all == a \o e
    <2>1. all \in Seq(S) /\ IsInjective(all) /\ ToSet(all) = S
      BY <1>3
    <2>. HIDE DEF all
    <2>2. Cardinality(ToSet(all)) = Len(all)
      BY <2>1, InjectiveLength
    <2>3. QED
      BY <2>1, <2>2 DEF all
  <1>5. QED
    BY <1>1, <1>2, <1>3, <1>4 DEF PackIsWhole, a, e, S

(* A pack accounts for every file that can be ranked, once, and keeps to   *)
(* the limit and the budget, whether its ranking is new or was saved.      *)
THEOREM WholePacks == Spec => []PackIsWhole
  BY Invariant, WholeFollow, PTL

LEMMA SkipFollow == IInv => SkipIsRight
  <1>. DEFINE analyzed == [f \in Files |-> Analyzed(f, disk[f], disk[f])]
              hints == Hints(Task, disk, analyzed)
  <1>. SUFFICES ASSUME IInv, stage = "discover", Skips,
                       hints.paths = Task.paths /\ hints.symbols = Task.symbols
                         /\ hints.packages = Task.packages
                PROVE  Assessment(Task, disk, analyzed).mode = "skip"
    BY DEF SkipIsRight
  <1>1. assessment = AssessmentOfTask(Task) /\ assessment.mode = "skip"
    BY DEF IInv, Staged, Skips, Caller
  <1>2. request \in Requests
    BY DEF IInv, Typed
  <1>3. request.task \in DOMAIN Tasks
    BY <1>2, RequestTypes
  <1>. DEFINE t == request.task
              x == analyzed
  <1>4. /\ t \in DOMAIN Tasks /\ AssessmentOfTask(Tasks[t]).mode = "skip"
        /\ Hints(Tasks[t], disk, x).paths = Tasks[t].paths
        /\ Hints(Tasks[t], disk, x).symbols = Tasks[t].symbols
        /\ Hints(Tasks[t], disk, x).packages = Tasks[t].packages
    BY <1>1, <1>3 DEF Task
  <1>. HIDE DEF t, x
  <1>5. Assessment(Tasks[t], disk, x).mode = "skip"
    BY <1>4, SkipsAlike
  <1>6. QED
    BY <1>5 DEF t, x, Task

(* If the hook leaves a prompt alone on the words of the prompt only, the  *)
(* workspace would not have changed its mind unless it adds a hint.        *)
THEOREM RightSkips == Spec => []SkipIsRight
  BY Invariant, SkipFollow, PTL

LEMMA EvidenceFollow ==
  IInv /\ pack # None =>
    /\ Evidence.selected = pack.selected /\ Evidence.excluded = pack.excluded
    /\ Cut(index, Evidence, Budget) = Evidence
  <1>. SUFFICES ASSUME IInv, pack # None
                PROVE  /\ Evidence.selected = pack.selected /\ Evidence.excluded = pack.excluded
                       /\ Cut(index, Evidence, Budget) = Evidence
    OBVIOUS
  <1>1. HasPack /\ Typed /\ Staged /\ Rankings
    BY PackIsCut DEF IInv
  <1>2. Evidence = Cut(index, ranking, Budget)
    BY <1>1, EvidenceIsCut
  <1>3. /\ pack.selected = Cut(index, ranking, Budget).selected
        /\ pack.excluded = Cut(index, ranking, Budget).excluded
    BY PackIsCut
  <1>4. Cut(index, Cut(index, ranking, Budget), Budget) = Cut(index, ranking, Budget)
    <2>. DEFINE o == Options
                b == Budget
    <2>1. o.limit \in Nat /\ b \in Nat /\ index \in Indexes
      BY PackIsCut
    <2>2. Whole(index, o, ranking)
      BY PackIsCut DEF Ranked
    <2>. HIDE DEF o, b
    <2>3. Cut(index, Cut(index, ranking, b), b) = Cut(index, ranking, b)
      BY <2>1, <2>2, CutIsWhole
    <2>4. QED
      BY <2>3 DEF b
  <1>5. QED
    BY <1>2, <1>3, <1>4

(* The evidence of a pack (createContextRankingEvidence) tells the pack:   *)
(* it selects and excludes what the pack does, in the pack's order,        *)
(* although it is made of the ranking before the cut, and cutting it again *)
(* to the same budget, as a session does that finds it in the cache        *)
(* (loadCachedRanking, buildContextPack), gives it back.                   *)
THEOREM EvidenceTellsPack ==
  Spec => [](pack # None =>
               /\ Evidence.selected = pack.selected /\ Evidence.excluded = pack.excluded
               /\ Cut(index, Evidence, Budget) = Evidence)
  BY Invariant, EvidenceFollow, PTL
=============================================================================
