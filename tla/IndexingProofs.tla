--------------------------- MODULE IndexingProofs ---------------------------
(***************************************************************************)
(* The theorems about the index and the analysis of a workspace, for any   *)
(* workspace, any options of the sessions, any number of workers, edits    *)
(* and sessions.  The argument: what an entry says of its file is true of  *)
(* the file as long as its time of modification is that of the entry, and  *)
(* a path that is scheduled is waiting, at a worker or found, and only     *)
(* once, so that what has been counted and reserved for it is enough.      *)
(***************************************************************************)
EXTENDS Indexing, FiniteSetTheorems, WellFoundedInduction, TLAPS

-----------------------------------------------------------------------------
(* Induction, over a set that holds the numbers of which a claim is true.  *)
LEMMA SetInduction ==
  ASSUME NEW T, 0 \in T, \A n \in Nat : n \in T => n + 1 \in T
  PROVE  Nat \subseteq T
  <1>. DEFINE Bad == Nat \ T
              R == OpToRel(<, Nat)
  <1>1. SUFFICES ASSUME Bad # {}
                 PROVE  FALSE
    OBVIOUS
  <1>2. IsWellFoundedOn(R, Nat)
    BY NatLessThanWellFounded
  <1>3. \A x, y \in Nat : <<y, x>> \in R <=> y < x
    BY DEF OpToRel
  <1>. HIDE DEF R
  <1>4. PICK x \in Bad : \A y \in Bad : ~ (<<y, x>> \in R)
    BY <1>1, <1>2, WFMin
  <1>5. x # 0 /\ x \in Nat
    BY <1>4
  <1>6. x - 1 \in Nat /\ (x - 1) + 1 = x
    BY <1>5
  <1>7. x - 1 \in T
    <2>1. x - 1 < x
      BY <1>5
    <2>2. <<x - 1, x>> \in R
      BY <1>3, <1>5, <1>6, <2>1
    <2>3. QED
      BY <1>4, <1>6, <2>2
  <1>8. QED
    BY <1>4, <1>6, <1>7

(* A function that is defined by recursion over 0 .. n exists.             *)
Recurs(g, n, V, first, step) ==
  g \in [0 .. n -> V] /\ g[0] = first /\ \A i \in 1 .. n : g[i] = step[i][g[i - 1]]

LEMMA Recursion ==
  ASSUME NEW n \in Nat, NEW V, NEW first \in V, NEW step \in [1 .. n -> [V -> V]]
  PROVE  \E g : Recurs(g, n, V, first, step)
  <1>. DEFINE Solves(g, m) ==
                g[0] = first /\ \A i \in 1 .. m : g[i] = step[i][g[i - 1]]
              T == {m \in Nat : m <= n => \E g \in [0 .. m -> V] : Solves(g, m)}
  <1>1. 0 \in T
    <2>1. [i \in 0 .. 0 |-> first] \in [0 .. 0 -> V] /\ Solves([i \in 0 .. 0 |-> first], 0)
      OBVIOUS
    <2>2. QED
      BY <2>1
  <1>2. ASSUME NEW m \in Nat, m \in T
        PROVE  m + 1 \in T
    <2>1. SUFFICES ASSUME m + 1 <= n
                   PROVE  \E g \in [0 .. m + 1 -> V] : Solves(g, m + 1)
      OBVIOUS
    <2>2. PICK g \in [0 .. m -> V] : Solves(g, m)
      BY <1>2, <2>1
    <2>. DEFINE h == [i \in 0 .. m + 1 |-> IF i = m + 1 THEN step[m + 1][g[m]] ELSE g[i]]
    <2>3. step[m + 1][g[m]] \in V
      BY <2>1
    <2>4. h \in [0 .. m + 1 -> V]
      BY <2>3
    <2>5. \A i \in 0 .. m : h[i] = g[i]
      OBVIOUS
    <2>6. h[m + 1] = step[m + 1][g[m]]
      OBVIOUS
    <2>. HIDE DEF h
    <2>7. Solves(h, m + 1)
      <3>1. h[0] = first
        BY <2>2, <2>5
      <3>2. ASSUME NEW i \in 1 .. m + 1
            PROVE  h[i] = step[i][h[i - 1]]
        <4>1. CASE i = m + 1
          BY <2>5, <2>6, <4>1
        <4>2. CASE i # m + 1
          <5>1. i \in 1 .. m /\ i - 1 \in 0 .. m /\ i \in 0 .. m
            BY <4>2
          <5>2. QED
            BY <2>2, <2>5, <5>1
        <4>3. QED
          BY <4>1, <4>2
      <3>3. QED
        BY <3>1, <3>2
    <2>8. QED
      BY <2>4, <2>7
  <1>. HIDE DEF T
  <1>3. n \in T
    BY <1>1, <1>2, SetInduction
  <1>4. QED
    BY <1>3 DEF T, Recurs

-----------------------------------------------------------------------------
(* The recursion of Kept.                                                  *)
KeptRecurs(k, U, s, S) ==
  /\ k \in [0 .. Len(s) -> Seq(U)]
  /\ k[0] = <<>> /\ Kept(s, S) = k[Len(s)]
  /\ \A i \in 1 .. Len(s) :
       k[i] = IF s[i] \in S THEN Append(k[i - 1], s[i]) ELSE k[i - 1]

LEMMA KeptFunction ==
  ASSUME NEW U, NEW s \in Seq(U), NEW S
  PROVE  \E k : KeptRecurs(k, U, s, S)
  <1>. DEFINE n == Len(s)
              Def(f) == [i \in 0 .. n |->
                 IF i = 0 THEN <<>>
                 ELSE IF s[i] \in S THEN Append(f[i - 1], s[i]) ELSE f[i - 1]]
              step == [i \in 1 .. n |-> [v \in Seq(U) |->
                         IF s[i] \in S THEN Append(v, s[i]) ELSE v]]
  <1>1. n \in Nat /\ \A i \in 1 .. n : s[i] \in U
    OBVIOUS
  <1>2. <<>> \in Seq(U)
    OBVIOUS
  <1>3. step \in [1 .. n -> [Seq(U) -> Seq(U)]]
    BY <1>1
  <1>s. \A i \in 1 .. n : \A v \in Seq(U) :
          step[i][v] = IF s[i] \in S THEN Append(v, s[i]) ELSE v
    OBVIOUS
  <1>. HIDE DEF step
  <1>4. PICK g : Recurs(g, n, Seq(U), <<>>, step)
    BY <1>1, <1>2, <1>3, Recursion
  <1>5. g = Def(g)
    <2>1. ASSUME NEW i \in 0 .. n
          PROVE  g[i] = Def(g)[i]
      <3>1. CASE i = 0
        BY <1>4, <3>1 DEF Recurs
      <3>2. CASE i # 0
        <4>1. i \in 1 .. n /\ i - 1 \in 0 .. n
          BY <1>1, <3>2
        <4>2. g[i - 1] \in Seq(U)
          BY <1>4, <4>1 DEF Recurs
        <4>3. g[i] = IF s[i] \in S THEN Append(g[i - 1], s[i]) ELSE g[i - 1]
          BY <1>s, <1>4, <4>1, <4>2 DEF Recurs
        <4>4. QED
          BY <3>2, <4>3
      <3>3. QED
        BY <3>1, <3>2
    <2>2. QED
      BY <1>4, <2>1 DEF Recurs
  <1>. DEFINE k == CHOOSE f : f = Def(f)
  <1>6. k = Def(k)
    BY <1>5
  <1>7. Kept(s, S) = k[n]
    BY DEF Kept
  <1>. HIDE DEF k
  <1>8. k[0] = <<>> /\ \A i \in 1 .. n :
          k[i] = IF s[i] \in S THEN Append(k[i - 1], s[i]) ELSE k[i - 1]
    <2>1. k[0] = Def(k)[0] /\ \A i \in 1 .. n : k[i] = Def(k)[i]
      BY <1>6
    <2>2. 0 \in 0 .. n /\ \A i \in 1 .. n : i \in 0 .. n /\ i # 0
      BY <1>1
    <2>3. QED
      BY <2>1, <2>2
  <1>9. \A i \in 0 .. n : k[i] \in Seq(U)
    <2>. DEFINE T == {i \in Nat : i <= n => k[i] \in Seq(U)}
    <2>1. 0 \in T
      BY <1>2, <1>8
    <2>2. ASSUME NEW i \in Nat, i \in T
          PROVE  i + 1 \in T
      <3>1. SUFFICES ASSUME i + 1 <= n
                     PROVE  k[i + 1] \in Seq(U)
        OBVIOUS
      <3>2. i + 1 \in 1 .. n /\ (i + 1) - 1 = i /\ k[i] \in Seq(U) /\ s[i + 1] \in U
        BY <1>1, <2>2, <3>1
      <3>3. k[i + 1] = IF s[i + 1] \in S THEN Append(k[i], s[i + 1]) ELSE k[i]
        BY <1>8, <3>2
      <3>4. Append(k[i], s[i + 1]) \in Seq(U)
        BY <3>2
      <3>5. QED
        BY <3>2, <3>3, <3>4
    <2>. HIDE DEF T
    <2>3. Nat \subseteq T
      BY <2>1, <2>2, SetInduction
    <2>4. QED
      BY <1>1, <2>3 DEF T
  <1>10. k \in [0 .. n -> Seq(U)]
    BY <1>6, <1>9
  <1>11. QED
    BY <1>7, <1>8, <1>10 DEF KeptRecurs

(* What is kept of the first n elements.                                   *)
KeptOf(t, U, s, S, n) ==
  /\ t \in Seq(U) /\ Len(t) <= n
  /\ \A j \in 1 .. Len(t) : \E m \in 1 .. n : t[j] = s[m] /\ s[m] \in S
  /\ \A m \in 1 .. n : s[m] \in S => \E j \in 1 .. Len(t) : t[j] = s[m]
  /\ (\A l, m \in 1 .. n : s[l] = s[m] => l = m) =>
       \A i, j \in 1 .. Len(t) : t[i] = t[j] => i = j

LEMMA KeptOfMore ==
  ASSUME NEW U, NEW s, NEW S, NEW n \in Nat, NEW t, KeptOf(t, U, s, S, n), s[n + 1] \in U
  PROVE  KeptOf(IF s[n + 1] \in S THEN Append(t, s[n + 1]) ELSE t, U, s, S, n + 1)
  <1>1. CASE s[n + 1] \in S
    <2>. DEFINE e == s[n + 1]
                u == Append(t, e)
    <2>1. t \in Seq(U) /\ Len(t) \in Nat /\ e \in U
      BY DEF KeptOf
    <2>2. /\ u \in Seq(U) /\ Len(u) = Len(t) + 1 /\ u[Len(t) + 1] = e
          /\ \A j \in 1 .. Len(t) : u[j] = t[j]
      BY <2>1
    <2>. HIDE DEF u
    <2>3. \A j \in 1 .. Len(u) : j = Len(t) + 1 \/ j \in 1 .. Len(t)
      BY <2>1, <2>2
    <2>4. \A m \in 1 .. n + 1 : m = n + 1 \/ m \in 1 .. n
      OBVIOUS
    <2>5. \A j \in 1 .. Len(u) : \E m \in 1 .. n + 1 : u[j] = s[m] /\ s[m] \in S
      <3>1. ASSUME NEW j \in 1 .. Len(t)
            PROVE  \E m \in 1 .. n + 1 : t[j] = s[m] /\ s[m] \in S
        <4>1. PICK m \in 1 .. n : t[j] = s[m] /\ s[m] \in S
          BY DEF KeptOf
        <4>2. m \in 1 .. n + 1
          OBVIOUS
        <4>3. QED
          BY <4>1, <4>2
      <3>2. n + 1 \in 1 .. n + 1
        OBVIOUS
      <3>3. QED
        BY <1>1, <2>2, <2>3, <3>1, <3>2
    <2>6. \A m \in 1 .. n + 1 : s[m] \in S => \E j \in 1 .. Len(u) : u[j] = s[m]
      <3>1. ASSUME NEW m \in 1 .. n, s[m] \in S
            PROVE  \E j \in 1 .. Len(u) : u[j] = s[m]
        <4>1. PICK j \in 1 .. Len(t) : t[j] = s[m]
          BY <3>1 DEF KeptOf
        <4>2. j \in 1 .. Len(u) /\ u[j] = t[j]
          BY <2>1, <2>2
        <4>3. QED
          BY <4>1, <4>2
      <3>2. Len(t) + 1 \in 1 .. Len(u)
        BY <2>1, <2>2
      <3>3. QED
        BY <2>2, <2>4, <3>1, <3>2
    <2>7. ASSUME \A l, m \in 1 .. n + 1 : s[l] = s[m] => l = m,
                 NEW i \in 1 .. Len(u), NEW j \in 1 .. Len(u), u[i] = u[j]
          PROVE  i = j
      <3>1. \A l, m \in 1 .. n : s[l] = s[m] => l = m
        <4>1. \A l \in 1 .. n : l \in 1 .. n + 1
          OBVIOUS
        <4>2. QED
          BY <2>7, <4>1
      <3>2. \A k, l \in 1 .. Len(t) : t[k] = t[l] => k = l
        BY <3>1 DEF KeptOf
      <3>3. ASSUME NEW k \in 1 .. Len(t)
            PROVE  t[k] # e
        <4>1. PICK m \in 1 .. n : t[k] = s[m]
          BY DEF KeptOf
        <4>2. m \in 1 .. n + 1 /\ n + 1 \in 1 .. n + 1 /\ m # n + 1
          OBVIOUS
        <4>3. QED
          BY <2>7, <4>1, <4>2
      <3>4. QED
        BY <2>2, <2>3, <2>7, <3>2, <3>3
    <2>8. Len(u) <= n + 1
      BY <2>1, <2>2 DEF KeptOf
    <2>9. KeptOf(u, U, s, S, n + 1)
      BY <2>2, <2>5, <2>6, <2>7, <2>8 DEF KeptOf
    <2>10. QED
      BY <1>1, <2>9 DEF u
  <1>2. CASE s[n + 1] \notin S
    <2>1. \A m \in 1 .. n : m \in 1 .. n + 1
      OBVIOUS
    <2>2. \A m \in 1 .. n + 1 : m = n + 1 \/ m \in 1 .. n
      OBVIOUS
    <2>3. t \in Seq(U) /\ Len(t) <= n + 1
      BY DEF KeptOf
    <2>4. \A j \in 1 .. Len(t) : \E m \in 1 .. n + 1 : t[j] = s[m] /\ s[m] \in S
      BY <2>1 DEF KeptOf
    <2>5. \A m \in 1 .. n + 1 : s[m] \in S => \E j \in 1 .. Len(t) : t[j] = s[m]
      BY <1>2, <2>2 DEF KeptOf
    <2>6. (\A l, m \in 1 .. n + 1 : s[l] = s[m] => l = m) =>
            \A i, j \in 1 .. Len(t) : t[i] = t[j] => i = j
      BY <2>1 DEF KeptOf
    <2>7. QED
      BY <1>2, <2>3, <2>4, <2>5, <2>6 DEF KeptOf
  <1>3. QED
    BY <1>1, <1>2

LEMMA KeptProperties ==
  ASSUME NEW U, NEW s \in Seq(U), NEW S
  PROVE  KeptOf(Kept(s, S), U, s, S, Len(s))
  <1>1. PICK k : KeptRecurs(k, U, s, S)
    BY KeptFunction
  <1>. DEFINE T == {n \in Nat : n <= Len(s) => KeptOf(k[n], U, s, S, n)}
  <1>2. 0 \in T
    <2>1. KeptOf(<<>>, U, s, S, 0)
      BY DEF KeptOf
    <2>2. QED
      BY <1>1, <2>1 DEF KeptRecurs
  <1>3. ASSUME NEW n \in Nat, n \in T
        PROVE  n + 1 \in T
    <2>1. SUFFICES ASSUME n + 1 <= Len(s)
                   PROVE  KeptOf(k[n + 1], U, s, S, n + 1)
      OBVIOUS
    <2>2. n + 1 \in 1 .. Len(s) /\ (n + 1) - 1 = n /\ s[n + 1] \in U /\ KeptOf(k[n], U, s, S, n)
      BY <1>3, <2>1
    <2>3. k[n + 1] = IF s[n + 1] \in S THEN Append(k[n], s[n + 1]) ELSE k[n]
      BY <1>1, <2>2 DEF KeptRecurs
    <2>4. QED
      BY <2>2, <2>3, KeptOfMore
  <1>. HIDE DEF T
  <1>4. Nat \subseteq T /\ Len(s) \in Nat
    BY <1>2, <1>3, SetInduction
  <1>5. QED
    BY <1>1, <1>4 DEF T, KeptRecurs

LEMMA KeptElements ==
  ASSUME NEW U, NEW s \in Seq(U), NEW S
  PROVE  /\ Kept(s, S) \in Seq(U) /\ Len(Kept(s, S)) <= Len(s)
         /\ ToSet(Kept(s, S)) = ToSet(s) \cap S
         /\ IsInjective(s) => IsInjective(Kept(s, S))
  <1>. DEFINE t == Kept(s, S)
  <1>1. KeptOf(t, U, s, S, Len(s))
    BY KeptProperties
  <1>. HIDE DEF t
  <1>2. t \in Seq(U) /\ DOMAIN t = 1 .. Len(t) /\ DOMAIN s = 1 .. Len(s)
    BY <1>1 DEF KeptOf
  <1>3. ToSet(t) = ToSet(s) \cap S
    <2>1. \A x \in ToSet(t) : x \in ToSet(s) \cap S
      BY <1>1, <1>2 DEF KeptOf, ToSet
    <2>2. \A x \in ToSet(s) \cap S : x \in ToSet(t)
      <3>1. ASSUME NEW m \in 1 .. Len(s), s[m] \in S
            PROVE  s[m] \in ToSet(t)
        BY <1>1, <1>2, <3>1 DEF KeptOf, ToSet
      <3>2. QED
        BY <1>2, <3>1 DEF ToSet
    <2>3. QED
      BY <2>1, <2>2
  <1>4. IsInjective(s) => IsInjective(t)
    BY <1>1, <1>2 DEF KeptOf, IsInjective
  <1>5. QED
    BY <1>1, <1>3, <1>4 DEF KeptOf, t

(* Every element of a flattened sequence of sequences is one of theirs.    *)
LEMMA FlattenType ==
  ASSUME NEW U, NEW ss \in Seq(Seq(U))
  PROVE  FlattenSeq(ss) \in Seq(U)
  <1>. DEFINE n == Len(ss)
              Def(f) == [i \in 1 .. n |-> IF i = 1 THEN ss[i] ELSE f[i - 1] \o ss[i]]
              step == [i \in 1 .. n - 1 |-> [v \in Seq(U) |-> v \o ss[i + 1]]]
  <1>1. n \in Nat /\ \A i \in 1 .. n : ss[i] \in Seq(U)
    OBVIOUS
  <1>2. CASE n = 0
    BY <1>2 DEF FlattenSeq
  <1>3. CASE n # 0
    <2>1. n - 1 \in Nat /\ ss[1] \in Seq(U)
      BY <1>1, <1>3
    <2>2. \A i \in 1 .. n - 1 : \A v \in Seq(U) : step[i][v] = v \o ss[i + 1]
      OBVIOUS
    <2>3. step \in [1 .. n - 1 -> [Seq(U) -> Seq(U)]]
      <3>1. \A i \in 1 .. n - 1 : i + 1 \in 1 .. n
        BY <1>1
      <3>2. QED
        BY <1>1, <3>1
    <2>. HIDE DEF step
    <2>4. PICK g : Recurs(g, n - 1, Seq(U), ss[1], step)
      BY <2>1, <2>3, Recursion
    <2>. DEFINE h == [i \in 1 .. n |-> g[i - 1]]
    <2>5. h = Def(h)
      <3>1. ASSUME NEW i \in 1 .. n, i # 1
            PROVE  h[i] = h[i - 1] \o ss[i]
        <4>1. i - 1 \in 1 .. n /\ i - 1 \in 1 .. n - 1 /\ (i - 1) - 1 \in 0 .. n - 1 /\ (i - 1) + 1 = i
          BY <1>1, <3>1
        <4>2. g[(i - 1) - 1] \in Seq(U) /\ g[i - 1] = step[i - 1][g[(i - 1) - 1]]
          BY <2>4, <4>1 DEF Recurs
        <4>3. QED
          BY <2>2, <4>1, <4>2
      <3>2. h[1] = ss[1]
        BY <1>1, <1>3, <2>4 DEF Recurs
      <3>3. QED
        BY <3>1, <3>2
    <2>. HIDE DEF h
    <2>. DEFINE flat == CHOOSE f : f = Def(f)
    <2>6. flat = Def(flat)
      BY <2>5
    <2>7. FlattenSeq(ss) = flat[n]
      BY <1>3 DEF FlattenSeq
    <2>. HIDE DEF flat
    <2>8. \A i \in 1 .. n : flat[i] = IF i = 1 THEN ss[i] ELSE flat[i - 1] \o ss[i]
      BY <2>6
    <2>. DEFINE T == {i \in Nat : i + 1 <= n => flat[i + 1] \in Seq(U)}
    <2>9. 0 \in T
      BY <2>1, <2>8
    <2>10. ASSUME NEW i \in Nat, i \in T
           PROVE  i + 1 \in T
      <3>1. SUFFICES ASSUME (i + 1) + 1 <= n
                     PROVE  flat[(i + 1) + 1] \in Seq(U)
        OBVIOUS
      <3>2. (i + 1) + 1 \in 1 .. n /\ (i + 1) + 1 # 1 /\ ((i + 1) + 1) - 1 = i + 1
            /\ flat[i + 1] \in Seq(U)
        BY <1>1, <2>10, <3>1
      <3>3. flat[(i + 1) + 1] = flat[i + 1] \o ss[(i + 1) + 1]
        BY <2>8, <3>2
      <3>4. ss[(i + 1) + 1] \in Seq(U)
        BY <1>1, <3>2
      <3>5. QED
        BY <3>2, <3>3, <3>4
    <2>. HIDE DEF T
    <2>11. Nat \subseteq T /\ (n - 1) + 1 = n
      BY <1>1, <2>9, <2>10, SetInduction
    <2>12. flat[(n - 1) + 1] \in Seq(U)
      <3>1. n - 1 \in T /\ (n - 1) + 1 <= n
        BY <1>1, <2>1, <2>11
      <3>2. QED
        BY <3>1 DEF T
    <2>13. QED
      BY <2>7, <2>11, <2>12
  <1>4. QED
    BY <1>2, <1>3

-----------------------------------------------------------------------------
(* The sizes of finitely many things, added up.                            *)
Bytes(S) == MapThenSumSet(LAMBDA e : e.size, S)
Sized(S) == IsFiniteSet(S) /\ \A e \in S : e.size \in Nat
Chosen(S) == CHOOSE e \in S : TRUE
SumRecurs(g, S) ==
  /\ g \in [SUBSET S -> Nat]
  /\ \A s \in SUBSET S :
       g[s] = IF s = {} THEN 0 ELSE Chosen(s).size + g[s \ {Chosen(s)}]

LEMMA ChosenIn ==
  ASSUME NEW S, S # {}
  PROVE  Chosen(S) \in S
  BY DEF Chosen

LEMMA SmallerCardinality ==
  ASSUME NEW S, IsFiniteSet(S), NEW e \in S
  PROVE  /\ IsFiniteSet(S \ {e}) /\ Cardinality(S) \in Nat /\ Cardinality(S \ {e}) \in Nat
         /\ Cardinality(S) = Cardinality(S \ {e}) + 1
  <1>1. IsFiniteSet(S \ {e}) /\ Cardinality(S \ {e}) = Cardinality(S) - 1
    BY FS_RemoveElement
  <1>2. Cardinality(S) \in Nat /\ Cardinality(S \ {e}) \in Nat
    BY <1>1, FS_CardinalityType
  <1>3. QED
    BY <1>1, <1>2

LEMMA SumExists ==
  ASSUME NEW S, Sized(S)
  PROVE  \E g : SumRecurs(g, S)
  <1>. DEFINE V == [SUBSET S -> Nat]
              More(v) == [s \in SUBSET S |->
                 IF s = {} THEN 0 ELSE Chosen(s).size + v[s \ {Chosen(s)}]]
              first == [s \in SUBSET S |-> 0]
              n == Cardinality(S)
              step == [i \in 1 .. n + 1 |-> [v \in V |-> More(v)]]
  <1>1. n \in Nat
    BY FS_CardinalityType DEF Sized
  <1>2. \A s \in SUBSET S : s # {} =>
          Chosen(s) \in S /\ Chosen(s).size \in Nat /\ s \ {Chosen(s)} \in SUBSET S
    BY ChosenIn DEF Sized
  <1>3. \A v \in V : More(v) \in V
    BY <1>2
  <1>4. first \in V
    OBVIOUS
  <1>5. step \in [1 .. n + 1 -> [V -> V]]
    BY <1>3
  <1>6. \A i \in 1 .. n + 1 : \A v \in V : step[i][v] = More(v)
    OBVIOUS
  <1>7. \A v \in V : \A s \in SUBSET S :
          More(v)[s] = IF s = {} THEN 0 ELSE Chosen(s).size + v[s \ {Chosen(s)}]
    OBVIOUS
  <1>. HIDE DEF step, first, More
  <1>8a. \E g : Recurs(g, n + 1, V, first, step)
    <2>. HIDE DEF V, n
    <2>1. n + 1 \in Nat
      BY <1>1
    <2>2. QED
      BY <2>1, <1>4, <1>5, Recursion
  <1>8. PICK g : Recurs(g, n + 1, V, first, step)
    BY <1>8a
  <1>9. /\ \A i \in 0 .. n + 1 : g[i] \in V
        /\ \A i \in 1 .. n + 1 : g[i] = More(g[i - 1])
    <2>1. \A i \in 0 .. n + 1 : g[i] \in V
      BY <1>8 DEF Recurs
    <2>2. ASSUME NEW i \in 1 .. n + 1
          PROVE  g[i] = More(g[i - 1])
      <3>1. i - 1 \in 0 .. n + 1
        BY <1>1
      <3>2. g[i] = step[i][g[i - 1]]
        BY <1>8 DEF Recurs
      <3>3. QED
        BY <1>6, <2>1, <3>1, <3>2
    <2>3. QED
      BY <2>1, <2>2
  <1>. DEFINE T == {k \in Nat : k <= n => \A s \in SUBSET S :
                      Cardinality(s) <= k => g[k + 1][s] = g[k][s]}
  <1>10. \A s \in SUBSET S : IsFiniteSet(s) /\ Cardinality(s) \in Nat /\ Cardinality(s) <= n
    BY FS_Subset, FS_CardinalityType DEF Sized
  <1>11. 0 \in T
    <2>1. ASSUME NEW s \in SUBSET S, Cardinality(s) <= 0
          PROVE  g[1][s] = g[0][s]
      <3>1. s = {}
        BY <1>10, <2>1, FS_EmptySet
      <3>2. g[1][s] = 0
        <4>1. 1 \in 1 .. n + 1 /\ 0 \in 0 .. n + 1 /\ 1 - 1 = 0
          BY <1>1
        <4>2. g[1] = More(g[0]) /\ g[0] \in V
          BY <1>9, <4>1
        <4>3. QED
          BY <1>7, <3>1, <4>2
      <3>3. g[0][s] = 0
        BY <1>8 DEF Recurs, first
      <3>4. QED
        BY <3>2, <3>3
    <2>2. QED
      BY <2>1
  <1>12. ASSUME NEW k \in Nat, k \in T
         PROVE  k + 1 \in T
    <2>1. SUFFICES ASSUME k + 1 <= n, NEW s \in SUBSET S, Cardinality(s) <= k + 1
                   PROVE  g[(k + 1) + 1][s] = g[k + 1][s]
      OBVIOUS
    <2>2. /\ k \in 0 .. n + 1 /\ k + 1 \in 1 .. n + 1 /\ (k + 1) + 1 \in 1 .. n + 1
          /\ (k + 1) - 1 = k /\ ((k + 1) + 1) - 1 = k + 1 /\ k + 1 \in 0 .. n + 1
      BY <1>1, <2>1
    <2>3. g[k + 1] = More(g[k]) /\ g[(k + 1) + 1] = More(g[k + 1])
          /\ g[k] \in V /\ g[k + 1] \in V
      BY <1>9, <2>2
    <2>4. CASE s = {}
      BY <1>7, <2>3, <2>4
    <2>5. CASE s # {}
      <3>. DEFINE r == s \ {Chosen(s)}
      <3>1. r \in SUBSET S /\ Cardinality(r) <= k
        BY <1>10, <2>1, <2>5, ChosenIn, SmallerCardinality
      <3>2. g[k + 1][r] = g[k][r]
        <4>1. k <= n
          BY <1>1, <2>1
        <4>2. \A q \in SUBSET S : Cardinality(q) <= k => g[k + 1][q] = g[k][q]
          BY <1>12, <4>1
        <4>. HIDE DEF r
        <4>3. QED
          BY <3>1, <4>2
      <3>3. QED
        BY <1>7, <2>3, <2>5, <3>2
    <2>6. QED
      BY <2>4, <2>5
  <1>. HIDE DEF T
  <1>13. n \in T
    BY <1>1, <1>11, <1>12, SetInduction
  <1>14. \A s \in SUBSET S : g[n + 1][s] = g[n][s]
    BY <1>1, <1>10, <1>13 DEF T
  <1>15. SumRecurs(g[n], S)
    <2>1. n \in 0 .. n + 1 /\ n + 1 \in 1 .. n + 1 /\ (n + 1) - 1 = n
      BY <1>1
    <2>2. g[n] \in V /\ g[n + 1] = More(g[n])
      BY <1>9, <2>1
    <2>3. QED
      BY <1>7, <1>14, <2>2 DEF SumRecurs
  <1>16. QED
    BY <1>15

LEMMA BytesFunction ==
  ASSUME NEW S, Sized(S)
  PROVE  \E g : SumRecurs(g, S) /\ Bytes(S) = g[S]
  <1>. DEFINE Def(f) == [s \in SUBSET S |->
                IF s = {} THEN 0 ELSE Chosen(s).size + f[s \ {Chosen(s)}]]
              iter == CHOOSE f : f = Def(f)
  <1>1. PICK g : SumRecurs(g, S)
    BY SumExists
  <1>2. g = Def(g)
    BY <1>1 DEF SumRecurs
  <1>3. iter = Def(iter)
    BY <1>2
  <1>4. Bytes(S) = iter[S]
    BY DEF Bytes, MapThenSumSet, MapThenFoldSet, Chosen
  <1>. HIDE DEF iter
  <1>5. \A s \in SUBSET S :
          iter[s] = IF s = {} THEN 0 ELSE Chosen(s).size + iter[s \ {Chosen(s)}]
    BY <1>3
  <1>. DEFINE T == {k \in Nat : \A s \in SUBSET S : Cardinality(s) = k => iter[s] \in Nat}
  <1>6. \A s \in SUBSET S : IsFiniteSet(s) /\ Cardinality(s) \in Nat
    BY FS_Subset, FS_CardinalityType DEF Sized
  <1>7. 0 \in T
    BY <1>5, <1>6, FS_EmptySet
  <1>8. ASSUME NEW k \in Nat, k \in T
        PROVE  k + 1 \in T
    <2>1. SUFFICES ASSUME NEW s \in SUBSET S, Cardinality(s) = k + 1
                   PROVE  iter[s] \in Nat
      OBVIOUS
    <2>2. CASE s = {}
      BY <1>5, <2>2
    <2>3. CASE s # {}
      <3>1. Chosen(s) \in s /\ Chosen(s).size \in Nat
        BY <2>3, ChosenIn DEF Sized
      <3>2. s \ {Chosen(s)} \in SUBSET S /\ Cardinality(s \ {Chosen(s)}) = k
        BY <1>6, <2>1, <3>1, SmallerCardinality
      <3>3. iter[s \ {Chosen(s)}] \in Nat
        BY <1>8, <3>2
      <3>4. QED
        BY <1>5, <2>3, <3>1, <3>3
    <2>4. QED
      BY <2>2, <2>3
  <1>. HIDE DEF T
  <1>9. \A s \in SUBSET S : iter[s] \in Nat
    <2>1. Nat \subseteq T
      BY <1>7, <1>8, SetInduction
    <2>2. QED
      BY <1>6, <2>1 DEF T
  <1>10. iter \in [SUBSET S -> Nat]
    BY <1>3, <1>9
  <1>11. QED
    BY <1>4, <1>5, <1>10 DEF SumRecurs

(* Two such recursions agree where both are defined.                       *)
LEMMA SumUnique ==
  ASSUME NEW S, NEW U, Sized(S), Sized(U), NEW g, NEW h, SumRecurs(g, S), SumRecurs(h, U),
         NEW s \in SUBSET S, s \subseteq U
  PROVE  g[s] = h[s]
  <1>. DEFINE T == {k \in Nat : \A r \in SUBSET S :
                      r \subseteq U /\ Cardinality(r) = k => g[r] = h[r]}
  <1>1. \A r \in SUBSET S : IsFiniteSet(r) /\ Cardinality(r) \in Nat
    BY FS_Subset, FS_CardinalityType DEF Sized
  <1>2. 0 \in T
    <2>1. ASSUME NEW r \in SUBSET S, r \subseteq U, Cardinality(r) = 0
          PROVE  g[r] = h[r]
      <3>1. r = {}
        BY <1>1, <2>1, FS_EmptySet
      <3>2. QED
        BY <2>1, <3>1 DEF SumRecurs
    <2>2. QED
      BY <2>1
  <1>3. ASSUME NEW k \in Nat, k \in T
        PROVE  k + 1 \in T
    <2>1. SUFFICES ASSUME NEW r \in SUBSET S, r \subseteq U, Cardinality(r) = k + 1
                   PROVE  g[r] = h[r]
      OBVIOUS
    <2>2. CASE r = {}
      BY <2>1, <2>2 DEF SumRecurs
    <2>3. CASE r # {}
      <3>1. Chosen(r) \in r
        BY <2>3, ChosenIn
      <3>2. Cardinality(r \ {Chosen(r)}) = k /\ r \ {Chosen(r)} \in SUBSET S
            /\ r \ {Chosen(r)} \subseteq U
        BY <1>1, <2>1, <3>1, SmallerCardinality
      <3>3. g[r \ {Chosen(r)}] = h[r \ {Chosen(r)}]
        BY <1>3, <3>2
      <3>4. QED
        BY <2>1, <2>3, <3>3 DEF SumRecurs
    <2>4. QED
      BY <2>2, <2>3
  <1>. HIDE DEF T
  <1>4. Cardinality(s) \in T
    BY <1>1, <1>2, <1>3, SetInduction
  <1>5. QED
    BY <1>4 DEF T

LEMMA BytesRecursion ==
  ASSUME NEW S, Sized(S)
  PROVE  /\ Bytes(S) \in Nat
         /\ Bytes(S) = IF S = {} THEN 0 ELSE Chosen(S).size + Bytes(S \ {Chosen(S)})
  <1>1. PICK g : SumRecurs(g, S) /\ Bytes(S) = g[S]
    BY BytesFunction
  <1>2. CASE S = {}
    BY <1>1, <1>2 DEF SumRecurs
  <1>3. CASE S # {}
    <2>. DEFINE R == S \ {Chosen(S)}
    <2>1. Sized(R) /\ R \subseteq S
      BY FS_Subset DEF Sized
    <2>2. PICK h : SumRecurs(h, R) /\ Bytes(R) = h[R]
      BY <2>1, BytesFunction
    <2>3. g[R] = h[R]
      BY <1>1, <2>1, <2>2, SumUnique
    <2>4. g[S] = Chosen(S).size + g[R] /\ g[S] \in Nat
      BY <1>1, <1>3 DEF SumRecurs
    <2>5. QED
      BY <1>1, <1>3, <2>2, <2>3, <2>4
  <1>4. QED
    BY <1>2, <1>3

(* The sum is that of any element and of the others.                       *)
LEMMA BytesWithout ==
  ASSUME NEW S, Sized(S), NEW e \in S
  PROVE  Bytes(S) = e.size + Bytes(S \ {e})
  <1>. DEFINE T == {k \in Nat : \A U \in SUBSET S : Cardinality(U) = k =>
                      \A y \in U : Bytes(U) = y.size + Bytes(U \ {y})}
  <1>1. \A U \in SUBSET S : Sized(U) /\ Cardinality(U) \in Nat
    BY FS_Subset, FS_CardinalityType DEF Sized
  <1>2. 0 \in T
    BY <1>1, FS_EmptySet DEF Sized
  <1>3. ASSUME NEW k \in Nat, k \in T
        PROVE  k + 1 \in T
    <2>1. SUFFICES ASSUME NEW U \in SUBSET S, Cardinality(U) = k + 1, NEW y \in U
                   PROVE  Bytes(U) = y.size + Bytes(U \ {y})
      OBVIOUS
    <2>. DEFINE x == Chosen(U)
    <2>2. x \in U /\ Sized(U) /\ Sized(U \ {x}) /\ Sized(U \ {y}) /\ Sized((U \ {x}) \ {y})
      BY <1>1, <2>1, ChosenIn
    <2>3. Bytes(U) = x.size + Bytes(U \ {x})
      BY <2>1, <2>2, BytesRecursion
    <2>4. CASE x = y
      BY <2>3, <2>4
    <2>5. CASE x # y
      <3>1. Cardinality(U \ {x}) = k /\ Cardinality(U \ {y}) = k
        BY <1>1, <2>1, <2>2, SmallerCardinality DEF Sized
      <3>2. Bytes(U \ {x}) = y.size + Bytes((U \ {x}) \ {y})
        BY <1>3, <2>1, <2>5, <3>1
      <3>3. Bytes(U \ {y}) = x.size + Bytes((U \ {y}) \ {x})
        BY <1>3, <2>1, <2>2, <2>5, <3>1
      <3>4. (U \ {y}) \ {x} = (U \ {x}) \ {y}
        OBVIOUS
      <3>5. x.size \in Nat /\ y.size \in Nat /\ Bytes((U \ {x}) \ {y}) \in Nat
        BY <2>1, <2>2, BytesRecursion DEF Sized
      <3>. DEFINE rest == Bytes((U \ {x}) \ {y})
      <3>6. Bytes(U) = x.size + (y.size + rest) /\ Bytes(U \ {y}) = x.size + rest
        BY <2>3, <3>2, <3>3, <3>4
      <3>. HIDE DEF rest, x
      <3>7. \A a, b, c \in Nat : a + (b + c) = b + (a + c)
        OBVIOUS
      <3>8. QED
        BY <3>5, <3>6, <3>7 DEF rest
    <2>6. QED
      BY <2>4, <2>5
  <1>. HIDE DEF T
  <1>4. Cardinality(S) \in T
    BY <1>1, <1>2, <1>3, SetInduction
  <1>5. QED
    BY <1>4 DEF T
-----------------------------------------------------------------------------
(* The inductive invariant.                                                *)

(* What the proofs need of the finite sets of the state, and of a session  *)
(* that is over.                                                           *)
FiniteParts == IsFiniteSet(files) /\ IsFiniteSet(inspected)

IdleIsEmpty ==
  stage = "idle" =>
    /\ tasks = <<>> /\ inspected = {} /\ files = {} /\ pending = <<>> /\ analysis = <<>>
    /\ scheduled = 0 /\ reserved = 0 /\ warnings = {} /\ touched = {} /\ ~aborted

(* The cache has two fields.                                               *)
SavedFields == saved = [index |-> saved.index, analysis |-> saved.analysis]

(* The workers are at work in one stage only.                              *)
WorkersStaged == stage # "inspect" => inspected = {}

(* The paths of the directories that are walked, and those at the workers. *)
Walked == UNION {ToSet(Directories[d]) : d \in 1 .. Len(Directories) - unread}
Inspecting == {i.path : i \in inspected}

(* A path waits, is inspected, or is found, and that once.                 *)
Apart ==
  /\ IsInjective(tasks)
  /\ ToSet(tasks) \cup Inspecting \cup PathsOf(files) \subseteq Walked
  /\ ToSet(tasks) \cap Inspecting = {}
  /\ ToSet(tasks) \cap PathsOf(files) = {}
  /\ Inspecting \cap PathsOf(files) = {}
  /\ \A i, j \in inspected : i.path = j.path => i = j
  /\ \A e, f \in files : e.path = f.path => e = f

(* What is scheduled and reserved is at least what there is.               *)
Counted == Len(tasks) + Cardinality(inspected) + Cardinality(files) <= scheduled

Indexed == {e \in files : e.reason = None}
Reading == {i \in inspected : i.at = "read"}
Reserved == Bytes(Indexed) + Bytes(Reading) <= reserved /\ reserved <= options.maxTotalBytes

(* A link stays at its file.  Where one is set to another file of the same *)
(* size and time of modification, the code takes that for the same file,   *)
(* as it compares nothing else.                                            *)
LinksStay ==
  \A o, q \in Options : \A l \in Links :
    {o.linkTo[l], q.linkTo[l]} \subseteq Files => o.linkTo[l] = q.linkTo[l]

(* The files that a path has been, or may be.                              *)
Targets(p) == IF p \in Links THEN {o.linkTo[p] : o \in Options} \cap Files ELSE {p}

(* An entry with a hash is of the past, or of what is there.               *)
Stamped(e) ==
  /\ e.reason # None => e.hash = None
  /\ e.reason \in {None, "binary"} =>
       \A f \in Targets(e.path) :
         /\ e.mtime <= mtime[f]
         /\ e.mtime = mtime[f] =>
              /\ content[f] # None /\ e.size = SizeOf[content[f]]
              /\ e.reason = None => e.hash = content[f] /\ content[f] \notin Binaries
              /\ e.reason = "binary" => content[f] \in Binaries
Stamps == LinksStay => \A e \in saved.index \cup files : Stamped(e)

(* So is an inspection that has its stat.                                  *)
InspectionStamped(i) ==
  /\ i.at = "resolve" => i.path \in Links
  /\ i.at # "resolve" => Referent(i.path) \in Files
  /\ i.at \in {"sample", "read"} =>
       /\ Ignored(i.path, i.size) = None
       /\ i.mtime <= mtime[Referent(i.path)]
       /\ Referent(i.path) \notin touched => i.mtime = mtime[Referent(i.path)]
       /\ i.mtime = mtime[Referent(i.path)] =>
            /\ content[Referent(i.path)] # None /\ i.size = SizeOf[content[Referent(i.path)]]
            /\ i.at = "read" => content[Referent(i.path)] \notin Binaries
InspectionsStamped == \A i \in inspected : InspectionStamped(i)

(* A path with an entry refers to a file, or out of the workspace.         *)
Located ==
  \A e \in files : e.reason # "outside_workspace" => Referent(e.path) \in Files

(* What is found of a file that is left alone is what a cold discovery     *)
(* finds.                                                                  *)
Current ==
  LinksStay =>
    \A e \in files : Referent(e.path) \notin touched => ColdEntry(e.path) = {e}

(* Nothing is lost without a warning.                                      *)
Losses == {"file_limit", "byte_limit", "cancelled"}
Findable == {p \in Paths : /\ Referent(p) \notin touched /\ Exists(p)
                           /\ Referent(p) # "directory"}
Known == ToSet(tasks) \cup Inspecting \cup PathsOf(files)
Covered ==
  warnings \cap Losses = {} =>
    /\ stage \in {"walk", "inspect"} => Findable \cap Walked \subseteq Known
    /\ stage = "inspect" /\ ~aborted => unread = 0
    /\ stage \in {"analyze", "save_index"} => Findable \subseteq PathsOf(files)

(* Analyses.                                                               *)
Disturbed == \A p \in Paths : Referent(p) \in touched => p \in disturbed
Truthful(done) ==
  \A p \in DOMAIN done : (p \notin disturbed /\ done[p].reason = None) => done[p].of = done[p].hash
Analyzable == ToSet(pending) \subseteq PathsOf(files)

Typed == TypeOK /\ FiniteParts /\ IdleIsEmpty /\ WorkersStaged /\ SavedFields
Limited == Apart /\ Counted /\ Reserved
Fresh == Stamps /\ InspectionsStamped /\ Located /\ Current
Honest ==
  /\ Disturbed /\ Analyzable
  /\ LinksStay => Truthful(saved.analysis) /\ Truthful(analysis)
IInv == Typed /\ Limited /\ Fresh /\ Covered /\ Honest

-----------------------------------------------------------------------------
(* The constants.                                                          *)
LEMMA DirectoryTypes ==
  /\ DOMAIN Directories = 1 .. Len(Directories) /\ Len(Directories) \in Nat
  /\ \A d \in 1 .. Len(Directories) :
       /\ Directories[d] \in Seq(Paths) /\ IsInjective(Directories[d])
       /\ ToSet(Directories[d]) \subseteq Paths
  <1>1. DOMAIN Directories = 1 .. Len(Directories) /\ Len(Directories) \in Nat
    BY ConstantsAssumption
  <1>2. ASSUME NEW d \in 1 .. Len(Directories)
        PROVE  /\ Directories[d] \in Seq(Paths) /\ IsInjective(Directories[d])
               /\ ToSet(Directories[d]) \subseteq Paths
    <2>1. Directories[d] \in Seq(Paths)
      BY ConstantsAssumption
    <2>2. IsInjective(Directories[d])
      BY <1>1, ConstantsAssumption DEF OnePlace, IsInjective
    <2>3. ToSet(Directories[d]) \subseteq Paths
      BY <1>1 DEF Paths
    <2>4. QED
      BY <2>1, <2>2, <2>3
  <1>3. QED
    BY <1>1, <1>2

LEMMA DirectoriesApart ==
  ASSUME NEW d \in 1 .. Len(Directories), NEW e \in 1 .. Len(Directories), d # e
  PROVE  ToSet(Directories[d]) \cap ToSet(Directories[e]) = {}
  <1>1. SUFFICES ASSUME NEW i \in DOMAIN Directories[d], NEW j \in DOMAIN Directories[e],
                        Directories[d][i] = Directories[e][j]
                 PROVE  FALSE
    BY DEF ToSet
  <1>2. d \in DOMAIN Directories /\ e \in DOMAIN Directories
    BY DirectoryTypes
  <1>3. QED
    BY <1>1, <1>2, ConstantsAssumption DEF OnePlace

LEMMA OrderType == Order \in Seq(Paths)
  BY ConstantsAssumption, FlattenType DEF Order

LEMMA PathTypes ==
  /\ Files \subseteq Paths /\ Links \subseteq Paths /\ Files \cap Links = {}
  /\ \A p \in Paths : p \in Files \/ p \in Links
  /\ "outside" \notin Files /\ "directory" \notin Files
  BY ConstantsAssumption DEF Files

LEMMA OptionTypes ==
  ASSUME NEW o \in Options
  PROVE  /\ o.maxFiles \in Nat /\ o.maxFiles > 0 /\ o.maxFileSizeBytes \in Nat
         /\ o.maxTotalBytes \in Nat
         /\ o.linkTo \in [Links -> Files \cup {"outside", "directory"}]
  BY ConstantsAssumption

LEMMA NoneIsNoReason ==
  None \notin {"ignored", "oversized", "binary", "outside_workspace"} /\ None \notin Contents
  BY ConstantsAssumption

LEMMA SomeOption == (CHOOSE o \in Options : TRUE) \in Options
  BY ConstantsAssumption

LEMMA SizeTypes ==
  /\ \A c \in Contents : SizeOf[c] \in Sizes /\ SizeOf[c] \in Nat
  /\ Sizes \subseteq Nat
  BY ConstantsAssumption DEF Sizes

(* What a path refers to is a file of the workspace, or no file of it.     *)
LEMMA ReferentTypes ==
  ASSUME TypeOK, NEW p \in Paths
  PROVE  /\ Referent(p) \in Files \cup {"outside", "directory"}
         /\ p \notin Links => Referent(p) = p /\ Referent(p) \in Files
         /\ Referent(p) \in Files =>
              /\ ContentOf(p) \in Contents \cup {None} /\ mtime[Referent(p)] \in 0 .. MaxEdits
              /\ ContentOf(p) # None =>
                   /\ ContentOf(p) \in Contents /\ SizeOf[ContentOf(p)] \in Sizes
                   /\ SizeOf[ContentOf(p)] \in Nat
  <1>1. options \in Options /\ content \in [Files -> Contents \cup {None}]
        /\ mtime \in [Files -> 0 .. MaxEdits]
    BY DEF TypeOK
  <1>2. options.linkTo \in [Links -> Files \cup {"outside", "directory"}]
    BY <1>1, OptionTypes
  <1>3. QED
    BY <1>1, <1>2, PathTypes, SizeTypes DEF Referent, ContentOf

(* The latest time of modification.                                        *)
LEMMA LatestTime ==
  ASSUME TypeOK, Files # {}
  PROVE  /\ Max({mtime[g] : g \in Files}) \in 0 .. MaxEdits
         /\ \A f \in Files : mtime[f] <= Max({mtime[g] : g \in Files})
  <1>. DEFINE S == {mtime[g] : g \in Files}
              T == {k \in Nat : MaxEdits - k \in S}
              R == OpToRel(<, Nat)
  <1>1. MaxEdits \in Nat
    BY ConstantsAssumption
  <1>2. S \subseteq 0 .. MaxEdits /\ S # {} /\ \A f \in Files : mtime[f] \in S
    BY DEF TypeOK
  <1>. HIDE DEF S
  <1>3. T \subseteq Nat /\ T # {}
    <2>1. PICK s \in S : TRUE
      BY <1>2
    <2>2. MaxEdits - s \in Nat /\ MaxEdits - (MaxEdits - s) = s
      BY <1>1, <1>2, <2>1
    <2>3. QED
      BY <2>1, <2>2
  <1>4. IsWellFoundedOn(R, Nat)
    BY NatLessThanWellFounded
  <1>5. \A x, y \in Nat : <<y, x>> \in R <=> y < x
    BY DEF OpToRel
  <1>. HIDE DEF R
  <1>6. PICK x \in T : \A y \in T : ~ (<<y, x>> \in R)
    BY <1>3, <1>4, WFMin
  <1>7. \A k \in S : MaxEdits - x >= k
    <2>1. SUFFICES ASSUME NEW k \in S, ~(MaxEdits - x >= k)
                   PROVE  FALSE
      OBVIOUS
    <2>2. k \in 0 .. MaxEdits /\ MaxEdits - x \in 0 .. MaxEdits /\ x \in Nat
      BY <1>2, <1>6
    <2>3. MaxEdits - k \in Nat /\ MaxEdits - (MaxEdits - k) = k /\ MaxEdits - k < x
      BY <1>1, <2>1, <2>2
    <2>4. QED
      BY <1>5, <1>6, <2>1, <2>2, <2>3
  <1>8. MaxEdits - x \in S
    BY <1>6
  <1>9. Max(S) \in S /\ \A k \in S : Max(S) >= k
    BY <1>7, <1>8 DEF Max
  <1>. DEFINE latest == Max(S)
  <1>10. latest \in 0 .. MaxEdits
    BY <1>2, <1>9
  <1>. HIDE DEF latest
  <1>11. \A k \in S : k <= latest
    <2>1. ASSUME NEW k \in S
          PROVE  k <= latest
      <3>1. k \in 0 .. MaxEdits /\ latest >= k
        BY <1>2, <1>9 DEF latest
      <3>2. QED
        BY <1>1, <1>10, <3>1
    <2>2. QED
      BY <2>1
  <1>12. QED
    BY <1>2, <1>10, <1>11 DEF S, latest

-----------------------------------------------------------------------------
(* Types.                                                                  *)
Inspections == [at: {"resolve", "stat"}, path: Paths]
                 \cup [at: {"sample", "read"}, path: Paths, size: Sizes, mtime: Nat]

LEMMA InspectionTypes ==
  ASSUME TypeOK, NEW i \in inspected
  PROVE  /\ i \in Inspections /\ i.path \in Paths
         /\ i.at \in {"resolve", "stat", "sample", "read"}
         /\ i.at \in {"sample", "read"} => i.size \in Sizes /\ i.size \in Nat /\ i.mtime \in Nat
  BY SizeTypes DEF TypeOK, Inspections

LEMMA EntryTypes ==
  ASSUME NEW p \in Paths, NEW size \in Sizes \cup {0}, NEW time \in Nat,
         NEW hash \in Contents \cup {None}, NEW reason \in Reasons
  PROVE  /\ Entry(p, size, time, hash, reason) \in Entries
         /\ Entry(p, size, time, hash, reason).path = p
         /\ Entry(p, size, time, hash, reason).size = size
         /\ Entry(p, size, time, hash, reason).mtime = time
         /\ Entry(p, size, time, hash, reason).hash = hash
         /\ Entry(p, size, time, hash, reason).reason = reason
  BY DEF Entry, Entries

LEMMA IgnoredTypes ==
  ASSUME NEW p, NEW size
  PROVE  Ignored(p, size) \in {None, "ignored", "oversized"} /\ Ignored(p, size) \in Reasons
  BY DEF Ignored, Reasons

(* What an inspection may do to the state.                                 *)
Ends(i) == inspected' = inspected \ {i} /\ UNCHANGED files
Finds(i, e) ==
  /\ inspected' = inspected \ {i} /\ files' = files \cup {e}
  /\ e \in Entries /\ e.path = i.path
GoesOn(i, next) ==
  /\ inspected' = (inspected \ {i}) \cup {next} /\ UNCHANGED files
  /\ next \in Inspections /\ next.path = i.path
WorkerStep(i) ==
  /\ UNCHANGED tasks /\ warnings' \in {warnings, warnings \cup {"outside_symlink"},
       warnings \cup {"symlink_directory"}, warnings \cup {"byte_limit"},
       warnings \cup {"cancelled"}}
  /\ InspectionUnchanged /\ reserved' \in Nat

LEMMA ResolveStep ==
  ASSUME TypeOK, NEW i \in inspected, Resolve(i)
  PROVE  /\ i.at = "resolve" /\ UNCHANGED reserved /\ WorkerStep(i)
         /\ \/ /\ Referent(i.path) = "outside"
               /\ Finds(i, Entry(i.path, 0, 0, None, "outside_workspace"))
            \/ /\ Referent(i.path) = "directory" /\ Ends(i)
            \/ /\ Referent(i.path) \in Files /\ UNCHANGED warnings
               /\ GoesOn(i, [at |-> "stat", path |-> i.path])
  <1>1. i \in [at: {"resolve", "stat"}, path: Paths] /\ i.at = "resolve" /\ i.path \in Paths
    BY InspectionTypes DEF Inspections, Resolve
  <1>2. [i EXCEPT !.at = "stat"] = [at |-> "stat", path |-> i.path]
    BY <1>1
  <1>3. [at |-> "stat", path |-> i.path] \in Inspections
    BY <1>1 DEF Inspections
  <1>4. Referent(i.path) \in Files \cup {"outside", "directory"}
    BY <1>1, ReferentTypes
  <1>5. WorkerStep(i) /\ UNCHANGED reserved
    BY DEF Resolve, WorkerStep, Warned, TypeOK
  <1>6. CASE Referent(i.path) = "outside"
    <2>1. Found(i, Entry(i.path, 0, 0, None, "outside_workspace"))
      BY <1>6 DEF Resolve
    <2>2. Finds(i, Entry(i.path, 0, 0, None, "outside_workspace"))
      BY <1>1, <2>1, EntryTypes DEF Found, Finds, Reasons
    <2>3. QED
      BY <1>1, <1>5, <1>6, <2>2
  <1>7. CASE Referent(i.path) = "directory"
    <2>1. Nothing(i)
      BY <1>7 DEF Resolve
    <2>2. QED
      BY <1>1, <1>5, <1>7, <2>1 DEF Nothing, Ends
  <1>8. CASE Referent(i.path) \in Files
    <2>1. Becomes(i, [i EXCEPT !.at = "stat"]) /\ UNCHANGED <<files, warnings>>
      BY <1>8, PathTypes DEF Resolve
    <2>2. GoesOn(i, [at |-> "stat", path |-> i.path])
      BY <1>2, <1>3, <2>1 DEF Becomes, GoesOn
    <2>3. QED
      BY <1>1, <1>5, <1>8, <2>1, <2>2
  <1>9. QED
    BY <1>4, <1>6, <1>7, <1>8

(* Bytes are reserved and the inspection goes on, or there is a warning.   *)
LEMMA StatStep ==
  ASSUME TypeOK, NEW i \in inspected, Stat(i), Referent(i.path) \in Files
  PROVE  LET p == i.path
             size == SizeOf[ContentOf(p)]
             time == mtime[Referent(p)] IN
         /\ i.at = "stat" /\ WorkerStep(i) /\ ContentOf(p) # None
         /\ \/ Ends(i) /\ UNCHANGED reserved /\ warnings' \cap Losses # {}
            \/ /\ UNCHANGED <<reserved, warnings>> /\ Ignored(p, size) # None
               /\ Finds(i, Entry(p, size, time, None, Ignored(p, size)))
            \/ /\ UNCHANGED warnings /\ Ignored(p, size) = None
               /\ \E e \in Reusable(p, size, time) :
                    /\ Finds(i, e)
                    /\ IF e.reason = None
                       THEN Fits(size) /\ reserved' = reserved + size
                       ELSE UNCHANGED reserved
            \/ /\ UNCHANGED <<reserved, warnings>> /\ Ignored(p, size) = None
               /\ GoesOn(i, [at |-> "sample", path |-> p, size |-> size, mtime |-> time])
  <1>. DEFINE p == i.path
              size == SizeOf[ContentOf(p)]
              time == mtime[Referent(p)]
              sample == [at |-> "sample", path |-> p, size |-> size, mtime |-> time]
  <1>1. i.at = "stat" /\ ContentOf(p) # None /\ p \in Paths
    BY InspectionTypes DEF Stat
  <1>2. size \in Sizes /\ size \in Nat /\ time \in Nat
    BY <1>1, ReferentTypes
  <1>3. reserved \in Nat /\ reserved + size \in Nat /\ saved.index \subseteq Entries
    BY <1>2 DEF TypeOK
  <1>4. UNCHANGED tasks /\ InspectionUnchanged
    BY DEF Stat
  <1>5. CASE /\ p \in Links /\ aborted
             /\ Warned("cancelled") /\ Nothing(i) /\ UNCHANGED reserved
    BY <1>1, <1>3, <1>4, <1>5 DEF Warned, Nothing, Ends, WorkerStep, Losses
  <1>6. CASE /\ Ignored(p, size) # None
             /\ Found(i, Entry(p, size, time, None, Ignored(p, size)))
             /\ UNCHANGED <<reserved, warnings>>
    <2>1. Finds(i, Entry(p, size, time, None, Ignored(p, size)))
      <3>. DEFINE e == Entry(p, size, time, None, Ignored(p, size))
      <3>1. e \in Entries /\ e.path = p
        <4>1. Ignored(p, size) \in Reasons
          BY IgnoredTypes
        <4>2. size \in Sizes \cup {0} /\ None \in Contents \cup {None}
          BY <1>2
        <4>. DEFINE reason == Ignored(p, size)
        <4>. HIDE DEF reason, p, size, time
        <4>3. Entry(p, size, time, None, reason) \in Entries
              /\ Entry(p, size, time, None, reason).path = p
          BY <1>1, <1>2, <4>1, <4>2, EntryTypes DEF reason
        <4>4. QED
          BY <4>3 DEF reason
      <3>. HIDE DEF e
      <3>2. Found(i, e)
        BY <1>6 DEF e
      <3>3. Finds(i, e)
        BY <3>1, <3>2 DEF Found, Finds
      <3>4. QED
        BY <3>3 DEF e
    <2>2. WorkerStep(i)
      BY <1>3, <1>4, <1>6 DEF WorkerStep
    <2>3. QED
      BY <1>1, <1>6, <2>1, <2>2
  <1>7. CASE /\ Ignored(p, size) = None
             /\ \E e \in Reusable(p, size, time) :
                  \/ /\ e.reason = None
                     /\ Reserve(i, size, Found(i, e) /\ UNCHANGED warnings)
                  \/ e.reason = "binary" /\ Found(i, e) /\ UNCHANGED <<reserved, warnings>>
    <2>1. PICK e \in Reusable(p, size, time) :
                  \/ /\ e.reason = None
                     /\ Reserve(i, size, Found(i, e) /\ UNCHANGED warnings)
                  \/ e.reason = "binary" /\ Found(i, e) /\ UNCHANGED <<reserved, warnings>>
      BY <1>7
    <2>2. e \in Entries /\ e.path = p
      BY <1>3 DEF Reusable
    <2>3. CASE e.reason = None /\ Fits(size)
      <3>1. Found(i, e) /\ UNCHANGED warnings /\ reserved' = reserved + size
        BY <2>1, <2>3, NoneIsNoReason DEF Reserve
      <3>2. Finds(i, e) /\ WorkerStep(i)
        BY <1>3, <1>4, <2>2, <3>1 DEF Found, Finds, WorkerStep
      <3>3. QED
        BY <1>1, <1>7, <2>3, <3>1, <3>2
    <2>4. CASE e.reason = None /\ ~Fits(size)
      <3>1. Warned("byte_limit") /\ Nothing(i) /\ UNCHANGED reserved
        BY <2>1, <2>4, NoneIsNoReason DEF Reserve
      <3>2. QED
        BY <1>1, <1>3, <1>4, <3>1 DEF Warned, Nothing, Ends, WorkerStep, Losses
    <2>5. CASE e.reason = "binary" /\ Found(i, e) /\ UNCHANGED <<reserved, warnings>>
      <3>1. Finds(i, e) /\ WorkerStep(i) /\ e.reason # None
        BY <1>3, <1>4, <2>2, <2>5, NoneIsNoReason DEF Found, Finds, WorkerStep
      <3>2. QED
        BY <1>1, <1>7, <2>5, <3>1
    <2>6. QED
      BY <2>1, <2>3, <2>4, <2>5
  <1>8. CASE /\ Ignored(p, size) = None
             /\ Becomes(i, sample) /\ UNCHANGED shared
    <2>1. sample \in Inspections
      BY <1>1, <1>2 DEF Inspections
    <2>2. GoesOn(i, sample)
      BY <1>8, <2>1 DEF Becomes, GoesOn, shared
    <2>3. UNCHANGED <<reserved, warnings>> /\ WorkerStep(i)
      BY <1>3, <1>4, <1>8 DEF WorkerStep, shared
    <2>4. QED
      BY <1>1, <1>8, <2>2, <2>3
  <1>9. QED
    BY <1>5, <1>6, <1>7, <1>8 DEF Stat

LEMMA SampleStep ==
  ASSUME TypeOK, NEW i \in inspected, Sample(i), Referent(i.path) \in Files
  PROVE  /\ i.at = "sample" /\ WorkerStep(i) /\ ContentOf(i.path) # None
         /\ \/ /\ UNCHANGED <<reserved, warnings>> /\ ContentOf(i.path) \in Binaries
               /\ Finds(i, Entry(i.path, i.size, i.mtime, None, "binary"))
            \/ /\ Ends(i) /\ warnings' \cap Losses # {}
               /\ \/ UNCHANGED reserved
                  \/ Fits(i.size) /\ reserved' = reserved + i.size
            \/ /\ UNCHANGED warnings /\ ContentOf(i.path) \notin Binaries
               /\ Fits(i.size) /\ reserved' = reserved + i.size
               /\ GoesOn(i, [at |-> "read", path |-> i.path, size |-> i.size, mtime |-> i.mtime])
  <1>. DEFINE read == [at |-> "read", path |-> i.path, size |-> i.size, mtime |-> i.mtime]
  <1>1. /\ i \in [at: {"sample", "read"}, path: Paths, size: Sizes, mtime: Nat] /\ i.at = "sample"
        /\ i.path \in Paths /\ i.size \in Sizes /\ i.size \in Nat /\ i.mtime \in Nat
    BY InspectionTypes DEF Sample, Inspections
  <1>2. [i EXCEPT !.at = "read"] = read
    BY <1>1
  <1>3. read \in Inspections
    BY <1>1 DEF Inspections
  <1>4. UNCHANGED tasks /\ InspectionUnchanged /\ ContentOf(i.path) # None
    BY DEF Sample
  <1>5. reserved \in Nat /\ reserved + i.size \in Nat
    BY <1>1 DEF TypeOK
  <1>6. CASE ContentOf(i.path) \in Binaries
    <2>1. /\ Found(i, Entry(i.path, i.size, i.mtime, None, "binary"))
          /\ UNCHANGED <<reserved, warnings>>
      BY <1>6 DEF Sample
    <2>2. Finds(i, Entry(i.path, i.size, i.mtime, None, "binary"))
      BY <1>1, <2>1, EntryTypes DEF Found, Finds, Reasons
    <2>3. WorkerStep(i)
      BY <1>4, <1>5, <2>1 DEF WorkerStep
    <2>4. QED
      BY <1>1, <1>4, <1>6, <2>1, <2>2, <2>3
  <1>7. CASE ContentOf(i.path) \notin Binaries /\ ~Fits(i.size)
    <2>1. Warned("byte_limit") /\ Nothing(i) /\ UNCHANGED reserved
      BY <1>7 DEF Sample, Reserve
    <2>2. QED
      BY <1>1, <1>4, <1>5, <2>1 DEF Warned, Nothing, Ends, WorkerStep, Losses
  <1>8. CASE ContentOf(i.path) \notin Binaries /\ Fits(i.size) /\ aborted
    <2>1. Warned("cancelled") /\ Nothing(i) /\ reserved' = reserved + i.size
      BY <1>8 DEF Sample, Reserve
    <2>2. QED
      BY <1>1, <1>4, <1>5, <1>8, <2>1 DEF Warned, Nothing, Ends, WorkerStep, Losses
  <1>9. CASE ContentOf(i.path) \notin Binaries /\ Fits(i.size) /\ ~aborted
    <2>1. /\ Becomes(i, [i EXCEPT !.at = "read"]) /\ UNCHANGED <<files, warnings>>
          /\ reserved' = reserved + i.size
      BY <1>9 DEF Sample, Reserve
    <2>2. GoesOn(i, read)
      BY <1>2, <1>3, <2>1 DEF Becomes, GoesOn
    <2>3. WorkerStep(i)
      BY <1>4, <1>5, <2>1 DEF WorkerStep
    <2>4. QED
      BY <1>1, <1>4, <1>9, <2>1, <2>2, <2>3
  <1>10. QED
    BY <1>6, <1>7, <1>8, <1>9

LEMMA ReadStep ==
  ASSUME TypeOK, NEW i \in inspected, Read(i), Referent(i.path) \in Files
  PROVE  /\ i.at = "read" /\ WorkerStep(i) /\ ContentOf(i.path) # None
         /\ UNCHANGED <<reserved, warnings>>
         /\ Finds(i, Entry(i.path, i.size, i.mtime, ContentOf(i.path), None))
  <1>. DEFINE e == Entry(i.path, i.size, i.mtime, ContentOf(i.path), None)
  <1>1. i.at = "read" /\ i.path \in Paths /\ i.size \in Sizes /\ i.mtime \in Nat
    BY InspectionTypes DEF Read
  <1>2. ContentOf(i.path) \in Contents /\ ContentOf(i.path) # None
    BY <1>1, ReferentTypes DEF Read
  <1>3. e \in Entries /\ e.path = i.path
    BY <1>1, <1>2, EntryTypes DEF Reasons
  <1>4. Found(i, e) /\ UNCHANGED <<tasks, reserved, warnings>> /\ InspectionUnchanged
    BY DEF Read
  <1>5. reserved \in Nat
    BY DEF TypeOK
  <1>. HIDE DEF e
  <1>6. Finds(i, e)
    BY <1>3, <1>4 DEF Found, Finds
  <1>7. WorkerStep(i)
    BY <1>4, <1>5 DEF WorkerStep
  <1>8. QED
    BY <1>1, <1>2, <1>4, <1>6, <1>7 DEF e

(* However its inspection goes on, a path is still at its worker, or found *)
(* once, or ends without an entry.                                         *)
LEMMA WorkerTyped ==
  ASSUME Typed, NEW i \in inspected, WorkerStep(i),
         \/ Ends(i) \/ \E e : Finds(i, e) \/ \E next : GoesOn(i, next)
  PROVE  Typed'
  <1>1. TypeOK /\ FiniteParts
    BY DEF Typed
  <1>2. /\ UNCHANGED <<content, mtime, saved, sessions, stage, options, aborted, unread, scheduled,
                       pending, analysis, touched, disturbed, tasks>>
        /\ warnings' \subseteq Codes /\ reserved' \in Nat
    BY <1>1 DEF WorkerStep, InspectionUnchanged, user, analyzing, history, TypeOK, Codes
  <1>3. Cardinality(inspected) \in Nat /\ Cardinality(inspected) <= Concurrency
    BY <1>1, FS_CardinalityType DEF TypeOK, FiniteParts
  <1>4. IsFiniteSet(inspected \ {i}) /\ Cardinality(inspected \ {i}) = Cardinality(inspected) - 1
    BY <1>1, FS_RemoveElement DEF FiniteParts
  <1>5. /\ inspected' \subseteq Inspections /\ files' \subseteq Entries
        /\ IsFiniteSet(inspected') /\ Cardinality(inspected') <= Concurrency /\ IsFiniteSet(files')
    <2>1. inspected \subseteq Inspections /\ files \subseteq Entries /\ IsFiniteSet(files)
      BY <1>1 DEF TypeOK, Inspections, FiniteParts
    <2>2. Concurrency \in Nat
      BY ConstantsAssumption
    <2>3. CASE Ends(i)
      BY <1>3, <1>4, <2>1, <2>2, <2>3 DEF Ends
    <2>4. CASE \E e : Finds(i, e)
      BY <1>3, <1>4, <2>1, <2>2, <2>4, FS_AddElement DEF Finds
    <2>5. CASE \E next : GoesOn(i, next)
      <3>1. PICK next : GoesOn(i, next)
        BY <2>5
      <3>. DEFINE rest == inspected \ {i}
      <3>2. inspected' = rest \cup {next} /\ next \in Inspections /\ UNCHANGED files
        BY <3>1 DEF GoesOn
      <3>3. IsFiniteSet(rest) /\ Cardinality(rest) = Cardinality(inspected) - 1
            /\ rest \subseteq Inspections
        BY <1>4, <2>1
      <3>. HIDE DEF rest
      <3>4. /\ IsFiniteSet(inspected')
            /\ Cardinality(inspected') \in {Cardinality(rest), Cardinality(rest) + 1}
        BY <3>2, <3>3, FS_AddElement
      <3>5. Cardinality(inspected') <= Concurrency
        BY <1>3, <2>2, <3>3, <3>4
      <3>6. QED
        BY <2>1, <3>2, <3>3, <3>4, <3>5
    <2>6. QED
      BY <2>3, <2>4, <2>5
  <1>6. TypeOK'
    BY <1>1, <1>2, <1>5 DEF TypeOK, Inspections
  <1>7. IdleIsEmpty' /\ WorkersStaged' /\ SavedFields'
    BY <1>2 DEF Typed, IdleIsEmpty, WorkersStaged, SavedFields
  <1>8. QED
    BY <1>5, <1>6, <1>7 DEF Typed, FiniteParts

(* A session that is over leaves nothing but what it has saved.            *)
LEMMA LeaveTyped ==
  ASSUME Typed, Leave, UNCHANGED <<user, sessions>>, disturbed' \subseteq Paths,
         saved' \in {saved, [saved EXCEPT !.analysis = analysis]}
  PROVE  Typed'
  <1>1. TypeOK
    BY DEF Typed
  <1>a. /\ saved'.index = saved.index /\ saved'.analysis \in {saved.analysis, analysis}
        /\ SavedFields'
    BY DEF Typed, SavedFields
  <1>2. /\ stage' = "idle" /\ options' \in Options /\ aborted' = FALSE
        /\ unread' = 0 /\ tasks' = <<>> /\ scheduled' = 0 /\ inspected' = {}
        /\ files' = {} /\ reserved' = 0 /\ warnings' = {} /\ pending' = <<>>
        /\ analysis' = <<>> /\ touched' = {}
    BY SomeOption DEF Leave
  <1>3. options'.maxFiles \in Nat
    BY <1>2, OptionTypes
  <1>4. Cardinality({}) <= Concurrency /\ IsFiniteSet({})
    BY FS_EmptySet, ConstantsAssumption
  <1>5. <<>> \in Seq(Paths) /\ <<>> \in Analyses({})
    BY DEF Analyses
  <1>6. \E P \in SUBSET Paths : analysis' \in Analyses(P)
    BY <1>2, <1>5
  <1>7. \E P \in SUBSET Paths : saved'.analysis \in Analyses(P)
    BY <1>1, <1>a DEF TypeOK
  <1>8. TypeOK'
    <2>1. /\ content' = content /\ mtime' = mtime /\ sessions' = sessions
          /\ saved'.index = saved.index /\ disturbed' \subseteq Paths
      BY <1>a DEF user
    <2>2. /\ 0 \in 0 .. Len(Directories) /\ 0 \in 0 .. options'.maxFiles
          /\ \A S : {} \subseteq S
      BY <1>3, DirectoryTypes
    <2>3. QED
      BY <1>1, <1>2, <1>4, <1>5, <1>6, <1>7, <2>1, <2>2 DEF TypeOK, Stages
  <1>9. QED
    BY <1>2, <1>4, <1>8, <1>a DEF Typed, FiniteParts, IdleIsEmpty, WorkersStaged

LEMMA ReadDirectoryTyped ==
  ASSUME Typed, ReadDirectory
  PROVE  Typed'
  <1>. DEFINE d == 1 + Len(Directories) - unread
              listed == Kept(Directories[d], {p \in Paths : Exists(p)})
  <1>1. TypeOK
    BY DEF Typed
  <1>2. unread \in 0 .. Len(Directories) /\ unread > 0 /\ unread' = unread - 1
    BY <1>1 DEF ReadDirectory, TypeOK
  <1>3. d \in 1 .. Len(Directories) /\ unread' \in 0 .. Len(Directories)
    BY <1>2, DirectoryTypes
  <1>4. listed \in Seq(Paths) /\ Len(listed) \in Nat
    BY <1>3, DirectoryTypes, KeptElements
  <1>5. Room \in Nat /\ scheduled \in Nat /\ options.maxFiles \in Nat
        /\ scheduled + Room = options.maxFiles
    BY <1>1, OptionTypes DEF Room, TypeOK
  <1>6. IF Len(listed) <= Room
        THEN /\ tasks' = tasks \o listed
             /\ scheduled' = scheduled + Len(listed)
             /\ UNCHANGED warnings
        ELSE /\ tasks' = tasks \o SubSeq(listed, 1, Room)
             /\ scheduled' = options.maxFiles
             /\ Warned("file_limit")
    BY DEF ReadDirectory
  <1>. HIDE DEF listed
  <1>7. tasks' \in Seq(Paths) /\ scheduled' \in 0 .. options.maxFiles /\ warnings' \subseteq Codes
    <2>1. tasks \in Seq(Paths) /\ warnings \subseteq Codes
      BY <1>1 DEF TypeOK
    <2>2. CASE Len(listed) <= Room
      <3>1. tasks' = tasks \o listed /\ scheduled' = scheduled + Len(listed) /\ UNCHANGED warnings
        BY <1>6, <2>2
      <3>2. tasks \o listed \in Seq(Paths)
        BY <1>4, <2>1
      <3>3. scheduled + Len(listed) \in 0 .. options.maxFiles
        BY <1>4, <1>5, <2>2
      <3>4. QED
        BY <2>1, <3>1, <3>2, <3>3
    <2>3. CASE ~(Len(listed) <= Room)
      <3>1. SubSeq(listed, 1, Room) \in Seq(Paths)
        BY <1>4, <1>5, <2>3
      <3>2. /\ tasks' = tasks \o SubSeq(listed, 1, Room)
            /\ scheduled' = options.maxFiles /\ Warned("file_limit")
        BY <1>6, <2>3
      <3>3. tasks \o SubSeq(listed, 1, Room) \in Seq(Paths)
        BY <2>1, <3>1
      <3>4. QED
        BY <1>5, <2>1, <3>2, <3>3 DEF Warned, Codes
    <2>4. QED
      BY <2>2, <2>3
  <1>8. UNCHANGED <<content, mtime, saved, sessions, stage, options, aborted, inspected,
                    files, reserved, pending, analysis, touched, disturbed>> /\ stage = "walk"
    BY DEF ReadDirectory, user, analyzing, history
  <1>9. TypeOK'
    BY <1>1, <1>3, <1>7, <1>8 DEF TypeOK
  <1>10. QED
    BY <1>8, <1>9 DEF Typed, FiniteParts, IdleIsEmpty, WorkersStaged, SavedFields

LEMMA TakeTaskTyped ==
  ASSUME Typed, TakeTask
  PROVE  Typed'
  <1>. DEFINE p == Head(tasks)
              i == [at |-> IF p \in Links THEN "resolve" ELSE "stat", path |-> p]
  <1>1. TypeOK /\ FiniteParts
    BY DEF Typed
  <1>2. p \in Paths /\ Tail(tasks) \in Seq(Paths)
    BY <1>1 DEF TakeTask, TypeOK
  <1>3. i \in Inspections
    BY <1>2 DEF Inspections
  <1>4. inspected' = inspected \cup {i} /\ tasks' = Tail(tasks)
    BY DEF TakeTask
  <1>. HIDE DEF i
  <1>5. IsFiniteSet(inspected') /\ Cardinality(inspected') <= Concurrency
    <2>1. Cardinality(inspected) \in Nat /\ Cardinality(inspected) < Concurrency /\ Concurrency \in Nat
      BY <1>1, FS_CardinalityType, ConstantsAssumption DEF TakeTask, FiniteParts
    <2>2. /\ IsFiniteSet(inspected')
          /\ Cardinality(inspected') \in {Cardinality(inspected), Cardinality(inspected) + 1}
      BY <1>1, <1>4, FS_AddElement DEF FiniteParts
    <2>3. QED
      BY <2>1, <2>2
  <1>6. inspected' \subseteq Inspections
    BY <1>1, <1>3, <1>4 DEF TypeOK, Inspections
  <1>7. UNCHANGED <<content, mtime, saved, sessions, stage, options, aborted, unread, scheduled,
                    files, reserved, warnings, pending, analysis, touched, disturbed>>
        /\ stage = "inspect"
    BY DEF TakeTask, InspectionUnchanged, shared, user, analyzing, history
  <1>8. TypeOK'
    BY <1>1, <1>2, <1>4, <1>5, <1>6, <1>7 DEF TypeOK, Inspections
  <1>9. QED
    BY <1>1, <1>5, <1>7, <1>8 DEF Typed, FiniteParts, IdleIsEmpty, WorkersStaged, SavedFields

(* The entry of the file whose turn it is.                                 *)
LEMMA EntryOfPending ==
  ASSUME TypeOK, Analyzable, pending # <<>>
  PROVE  LET p == Head(pending) IN
         /\ p \in Paths /\ EntryOf(p) \in files /\ EntryOf(p) \in Entries
         /\ EntryOf(p).path = p /\ Tail(pending) \in Seq(Paths)
         /\ ToSet(Tail(pending)) \subseteq ToSet(pending)
  <1>. DEFINE p == Head(pending)
  <1>1. pending \in Seq(Paths) /\ files \subseteq Entries
    BY DEF TypeOK
  <1>2. p = pending[1] /\ 1 \in DOMAIN pending /\ p \in Paths /\ Tail(pending) \in Seq(Paths)
    BY <1>1
  <1>3. p \in PathsOf(files)
    BY <1>2 DEF ToSet, Analyzable
  <1>4. EntryOf(p) \in files /\ EntryOf(p).path = p
    BY <1>3 DEF EntryOf, PathsOf
  <1>5. ToSet(Tail(pending)) \subseteq ToSet(pending)
    <2>1. ASSUME NEW k \in DOMAIN Tail(pending)
          PROVE  Tail(pending)[k] \in ToSet(pending)
      <3>1. Tail(pending)[k] = pending[k + 1] /\ k + 1 \in DOMAIN pending
        BY <1>1
      <3>2. QED
        BY <3>1 DEF ToSet
    <2>2. QED
      BY <2>1 DEF ToSet
  <1>6. QED
    BY <1>1, <1>2, <1>4, <1>5

LEMMA AnalyzedTyped ==
  ASSUME Typed, stage = "analyze", NEW e \in Entries, NEW of \in Contents \cup {None},
         Analyzed(e, of), disturbed' \subseteq Paths, pending # <<>>
  PROVE  Typed'
  <1>1. TypeOK
    BY DEF Typed
  <1>2. e.path \in Paths /\ e.hash \in Contents \cup {None} /\ e.reason \in Reasons
    BY DEF Entries
  <1>3. \E P \in SUBSET Paths : analysis' \in Analyses(P)
    <2>1. PICK P \in SUBSET Paths : analysis \in Analyses(P)
      BY <1>1 DEF TypeOK
    <2>2. analysis' \in Analyses(P \cup {e.path})
      BY <1>2, <2>1 DEF Analyzed, Analyses
    <2>3. P \cup {e.path} \in SUBSET Paths
      BY <1>2
    <2>4. QED
      BY <2>2, <2>3
  <1>4. pending' \in Seq(Paths)
    BY <1>1 DEF Analyzed, TypeOK
  <1>5. UNCHANGED <<content, mtime, saved, sessions, stage, options, aborted, unread, tasks,
                    scheduled, inspected, files, reserved, warnings, touched>>
    BY DEF Analyzed, user, discovery, shared
  <1>6. TypeOK'
    BY <1>1, <1>3, <1>4, <1>5 DEF TypeOK
  <1>7. QED
    BY <1>5, <1>6 DEF Typed, FiniteParts, IdleIsEmpty, WorkersStaged, SavedFields

LEMMA EditTyped ==
  ASSUME Typed, NEW f \in Files, Edit(f)
  PROVE  Typed'
  <1>1. TypeOK
    BY DEF Typed
  <1>. DEFINE edits == Max({mtime[g] : g \in Files})
              during == IF stage = "idle" THEN {} ELSE {f}
  <1>2. edits \in 0 .. MaxEdits
    BY <1>1, LatestTime
  <1>. HIDE DEF edits
  <1>3. PICK c \in (Contents \cup {None}) \ {content[f]} :
          /\ edits < MaxEdits
          /\ content' = [content EXCEPT ![f] = c]
          /\ mtime' = [mtime EXCEPT ![f] = edits + 1]
          /\ touched' = touched \cup during
          /\ disturbed' = disturbed \cup {p \in Paths : Referent(p) \in during}
          /\ UNCHANGED <<saved, sessions, stage, options, aborted, discovery, analyzing>>
    BY DEF Edit, edits
  <1>4. edits + 1 \in 0 .. MaxEdits
    BY <1>2, <1>3, ConstantsAssumption
  <1>5. content' \in [Files -> Contents \cup {None}] /\ mtime' \in [Files -> 0 .. MaxEdits]
        /\ touched' \subseteq Files /\ disturbed' \subseteq Paths
    BY <1>1, <1>3, <1>4 DEF TypeOK
  <1>6. UNCHANGED <<saved, sessions, stage, options, aborted, unread, tasks, scheduled, inspected,
                    files, reserved, warnings, pending, analysis>>
    BY <1>3 DEF discovery, shared, analyzing
  <1>7. TypeOK'
    BY <1>1, <1>5, <1>6 DEF TypeOK
  <1>8. stage = "idle" => touched' = touched
    BY <1>3
  <1>9. QED
    BY <1>6, <1>7, <1>8 DEF Typed, FiniteParts, IdleIsEmpty, WorkersStaged, SavedFields

LEMMA InitTyped == Init => Typed
  <1>. SUFFICES ASSUME Init
                PROVE  Typed
    OBVIOUS
  <1>2. options \in Options /\ options.maxFiles \in Nat
    BY SomeOption, OptionTypes DEF Init
  <1>3. Cardinality({}) <= Concurrency /\ IsFiniteSet({})
    BY FS_EmptySet, ConstantsAssumption
  <1>4. <<>> \in Seq(Paths) /\ <<>> \in Analyses({})
    BY DEF Analyses
  <1>5. content \in [Files -> Contents \cup {None}] /\ mtime \in [Files -> 0 .. MaxEdits]
        /\ sessions \in 0 .. MaxSessions
    BY ConstantsAssumption DEF Init
  <1>6. \E P \in SUBSET Paths : analysis \in Analyses(P)
    BY <1>4 DEF Init
  <1>7. \E P \in SUBSET Paths : saved.analysis \in Analyses(P)
    BY <1>4 DEF Init
  <1>8. TypeOK
    <2>1. /\ 0 \in 0 .. Len(Directories) /\ 0 \in 0 .. options.maxFiles
          /\ \A S : {} \subseteq S
      BY <1>2, DirectoryTypes
    <2>2. QED
      BY <1>2, <2>1, <1>3, <1>4, <1>5, <1>6, <1>7, DirectoryTypes DEF Init, TypeOK, Stages
  <1>9. QED
    BY <1>3, <1>8 DEF Init, Typed, FiniteParts, IdleIsEmpty, WorkersStaged, SavedFields

(* A worker's steps, as the lemmas above describe them.                    *)
LEMMA WorkerShape ==
  ASSUME TypeOK, InspectionsStamped, NEW i \in inspected,
         Resolve(i) \/ Stat(i) \/ Sample(i) \/ Read(i)
  PROVE  /\ WorkerStep(i)
         /\ Ends(i) \/ (\E e : Finds(i, e)) \/ (\E next : GoesOn(i, next))
  <1>1. i.at # "resolve" => Referent(i.path) \in Files
    BY DEF InspectionsStamped, InspectionStamped
  <1>2. CASE Resolve(i)
    BY <1>2, ResolveStep
  <1>3. CASE Stat(i)
    <2>1. Referent(i.path) \in Files
      BY <1>1, <1>3 DEF Stat
    <2>2. QED
      BY <1>3, <2>1, StatStep
  <1>4. CASE Sample(i)
    <2>1. Referent(i.path) \in Files
      BY <1>1, <1>4 DEF Sample
    <2>2. QED
      BY <1>4, <2>1, SampleStep
  <1>5. CASE Read(i)
    <2>1. Referent(i.path) \in Files
      BY <1>1, <1>5 DEF Read
    <2>2. QED
      BY <1>5, <2>1, ReadStep
  <1>6. QED
    BY <1>2, <1>3, <1>4, <1>5

(* Every step keeps the types.                                             *)
LEMMA NextTyped ==
  ASSUME Typed, InspectionsStamped, Located, Analyzable, [Next]_vars
  PROVE  Typed'
  <1>1. TypeOK
    BY DEF Typed
  <1>2. CASE Start
    <2>1. /\ UNCHANGED <<content, mtime, saved, aborted, tasks, scheduled, inspected, files, reserved,
                         warnings, pending, analysis, touched, disturbed>>
          /\ stage = "idle" /\ stage' = "walk" /\ options' \in Options
          /\ unread' = Len(Directories) /\ sessions' = sessions + 1 /\ sessions < MaxSessions
      BY <1>2 DEF Start, user, shared, analyzing, history
    <2>2. sessions' \in 0 .. MaxSessions /\ unread' \in 0 .. Len(Directories)
          /\ scheduled' = 0 /\ 0 \in 0 .. options'.maxFiles
      <3>1. options'.maxFiles \in Nat
        BY <2>1, OptionTypes
      <3>2. sessions \in 0 .. MaxSessions /\ MaxSessions \in Nat
        BY <1>1, ConstantsAssumption DEF TypeOK
      <3>3. scheduled' = 0
        BY <2>1 DEF Typed, IdleIsEmpty
      <3>4. QED
        BY <2>1, <3>1, <3>2, <3>3, DirectoryTypes
    <2>3. TypeOK'
      BY <1>1, <2>1, <2>2 DEF TypeOK, Stages
    <2>4. QED
      BY <2>1, <2>3 DEF Typed, FiniteParts, IdleIsEmpty, WorkersStaged, SavedFields
  <1>3. CASE ReadDirectory
    BY <1>3, ReadDirectoryTyped
  <1>4. CASE TakeTask
    BY <1>4, TakeTaskTyped
  <1>5. ASSUME NEW i \in inspected, Resolve(i) \/ Stat(i) \/ Sample(i) \/ Read(i)
        PROVE  Typed'
    BY <1>1, <1>5, WorkerShape, WorkerTyped
  <1>6. CASE \E i \in inspected : Missing(i)
    BY <1>1, <1>6, LeaveTyped DEF Missing, TypeOK, user
  <1>7. CASE Inspect \/ Abort
    <2>1. /\ UNCHANGED <<content, mtime, saved, sessions, options, unread, tasks, scheduled,
                         inspected, files, reserved, warnings, pending, analysis, touched, disturbed>>
          /\ stage # "idle" /\ stage' # "idle" /\ stage' \in Stages /\ aborted' \in BOOLEAN
          /\ stage' # "inspect" => stage' = stage
      BY <1>1, <1>7 DEF Inspect, Abort, user, discovery, shared, analyzing, history, Stages, TypeOK
    <2>2. TypeOK'
      BY <1>1, <2>1 DEF TypeOK
    <2>3. QED
      BY <2>1, <2>2 DEF Typed, FiniteParts, IdleIsEmpty, WorkersStaged, SavedFields
  <1>8. CASE EndDiscovery
    <2>1. CASE HookGivesUp
      BY <1>1, <1>8, <2>1, LeaveTyped DEF EndDiscovery, HookGivesUp, TypeOK, user
    <2>2. CASE ~HookGivesUp
      <3>1. /\ UNCHANGED <<content, mtime, saved, sessions, options, aborted, unread, tasks,
                           scheduled, inspected, files, reserved, analysis, touched, disturbed>>
            /\ inspected = {} /\ stage' = "analyze" /\ pending' = InOrder(PathsOf(files))
            /\ warnings' \subseteq warnings \cup {"cancelled"}
        BY <1>8, <2>2 DEF EndDiscovery, WorkersDone, Warned, user
      <3>2. pending' \in Seq(Paths) /\ warnings' \subseteq Codes
        <4>1. pending' \in Seq(Paths)
          BY <3>1, OrderType, KeptElements DEF InOrder
        <4>2. QED
          BY <1>1, <3>1, <4>1 DEF TypeOK, Codes
      <3>3. TypeOK'
        BY <1>1, <3>1, <3>2 DEF TypeOK, Stages
      <3>4. QED
        BY <3>1, <3>3 DEF Typed, FiniteParts, IdleIsEmpty, WorkersStaged, SavedFields
    <2>3. QED
      BY <2>1, <2>2
  <1>9. CASE ReuseOrSkip
    <2>. DEFINE e == EntryOf(Head(pending))
    <2>1. e \in Entries /\ stage = "analyze" /\ pending # <<>> /\ disturbed' \subseteq Paths
      BY <1>1, <1>9, EntryOfPending DEF ReuseOrSkip, TypeOK
    <2>2. CASE AnalysisReusable(e) /\ Analyzed(e, saved.analysis[e.path].of)
      <3>1. saved.analysis[e.path].of \in Contents \cup {None}
        BY <1>1, <2>2 DEF AnalysisReusable, TypeOK, Analyses
      <3>. HIDE DEF e
      <3>2. QED
        BY <2>1, <2>2, <3>1, AnalyzedTyped
    <2>3. CASE Analyzed(e, None)
      <3>. HIDE DEF e
      <3>1. QED
        BY <2>1, <2>3, AnalyzedTyped
    <2>4. QED
      BY <1>9, <2>2, <2>3 DEF ReuseOrSkip
  <1>10. CASE AnalyzeFile
    <2>. DEFINE e == EntryOf(Head(pending))
    <2>1. e \in Entries /\ stage = "analyze" /\ pending # <<>> /\ e.path \in Paths
          /\ e \in files
      BY <1>1, <1>10, EntryOfPending DEF AnalyzeFile
    <2>2. disturbed' \subseteq Paths
      BY <1>1, <1>10, <2>1 DEF AnalyzeFile, TypeOK
    <2>3. CASE ContentOf(e.path) # None /\ Analyzed(e, ContentOf(e.path))
      <3>1. ContentOf(e.path) \in Contents \cup {None}
        <4>1. Referent(e.path) \in Files
          BY <1>10, <2>1, NoneIsNoReason DEF AnalyzeFile, Located
        <4>2. QED
          BY <1>1, <2>1, <4>1, ReferentTypes
      <3>. HIDE DEF e
      <3>2. QED
        BY <2>1, <2>2, <2>3, <3>1, AnalyzedTyped
    <2>4. CASE Analyzed(e, None)
      <3>. HIDE DEF e
      <3>1. QED
        BY <2>1, <2>2, <2>4, AnalyzedTyped
    <2>5. QED
      BY <1>10, <2>3, <2>4 DEF AnalyzeFile
  <1>11. CASE EndAnalysis
    <2>1. CASE HookGivesUp
      BY <1>1, <1>11, <2>1, LeaveTyped DEF EndAnalysis, HookGivesUp, TypeOK, user
    <2>2. CASE ~HookGivesUp
      <3>1. /\ UNCHANGED <<content, mtime, saved, sessions, options, aborted, unread, tasks,
                           scheduled, inspected, files, reserved, warnings, pending, analysis,
                           touched, disturbed>>
            /\ stage = "analyze" /\ stage' = "save_index"
        BY <1>11, <2>2 DEF EndAnalysis, user, discovery, shared, analyzing
      <3>2. TypeOK'
        BY <1>1, <3>1 DEF TypeOK, Stages
      <3>3. QED
        BY <3>1, <3>2 DEF Typed, FiniteParts, IdleIsEmpty, WorkersStaged, SavedFields
    <2>3. QED
      BY <2>1, <2>2
  <1>12. CASE SaveIndex
    <2>1. /\ UNCHANGED <<content, mtime, sessions, options, aborted, unread, tasks,
                         scheduled, inspected, files, reserved, warnings, pending, analysis,
                         touched, disturbed>>
          /\ stage = "save_index" /\ stage' = "save_analysis"
          /\ saved' = [saved EXCEPT !.index = files]
      BY <1>12 DEF SaveIndex, user, discovery, shared, analyzing, history
    <2>2. /\ saved'.index \subseteq Entries /\ saved'.analysis = saved.analysis
          /\ SavedFields'
      BY <1>1, <2>1 DEF Typed, SavedFields, TypeOK
    <2>3. TypeOK'
      BY <1>1, <2>1, <2>2 DEF TypeOK, Stages
    <2>4. QED
      BY <2>1, <2>2, <2>3 DEF Typed, FiniteParts, IdleIsEmpty, WorkersStaged
  <1>13. CASE SaveAnalysis
    <2>1. saved' = [saved EXCEPT !.analysis = analysis]
      BY <1>13 DEF SaveAnalysis
    <2>2. Leave /\ UNCHANGED <<user, sessions>> /\ disturbed' \subseteq Paths
      BY <1>1, <1>13 DEF SaveAnalysis, TypeOK
    <2>3. QED
      BY <2>1, <2>2, LeaveTyped
  <1>14. CASE Fail
    BY <1>1, <1>14, LeaveTyped DEF Fail, TypeOK, user
  <1>15. CASE \E f \in Files : Edit(f)
    BY <1>15, EditTyped
  <1>16. CASE UNCHANGED vars
    <2>1. TypeOK'
      BY <1>1, <1>16 DEF TypeOK, vars, user, discovery, shared, analyzing, history
    <2>2. QED
      BY <1>16, <2>1 DEF Typed, FiniteParts, IdleIsEmpty, WorkersStaged, SavedFields, vars, user, discovery,
                      shared, analyzing, history
  <1>17. QED
    BY <1>2, <1>3, <1>4, <1>5, <1>6, <1>7, <1>8, <1>9, <1>10, <1>11, <1>12, <1>13, <1>14,
       <1>15, <1>16 DEF Next, SessionStep

-----------------------------------------------------------------------------
(* Sequences without repetition.                                           *)
LEMMA ConcatInjective ==
  ASSUME NEW U, NEW s \in Seq(U), NEW t \in Seq(U), IsInjective(s), IsInjective(t),
         ToSet(s) \cap ToSet(t) = {}
  PROVE  /\ IsInjective(s \o t) /\ ToSet(s \o t) = ToSet(s) \cup ToSet(t)
         /\ Len(s \o t) = Len(s) + Len(t)
  <1>1. Len(s) \in Nat /\ Len(t) \in Nat /\ DOMAIN s = 1 .. Len(s) /\ DOMAIN t = 1 .. Len(t)
    OBVIOUS
  <1>. DEFINE u == s \o t
  <1>2. /\ DOMAIN u = 1 .. Len(s) + Len(t) /\ Len(u) = Len(s) + Len(t)
        /\ \A k \in 1 .. Len(s) : u[k] = s[k]
        /\ \A k \in 1 .. Len(t) : u[Len(s) + k] = t[k]
    OBVIOUS
  <1>. HIDE DEF u
  <1>3. \A k \in DOMAIN u : \/ k \in 1 .. Len(s) /\ u[k] = s[k] /\ u[k] \in ToSet(s)
                            \/ /\ k - Len(s) \in 1 .. Len(t) /\ u[k] = t[k - Len(s)]
                               /\ u[k] \in ToSet(t)
    <2>1. ASSUME NEW k \in DOMAIN u, k \notin 1 .. Len(s)
          PROVE  k - Len(s) \in 1 .. Len(t) /\ k = Len(s) + (k - Len(s))
      BY <1>1, <1>2, <2>1
    <2>2. ASSUME NEW k \in DOMAIN u, k \notin 1 .. Len(s)
          PROVE  u[k] = t[k - Len(s)]
      BY <1>2, <2>1, <2>2
    <2>3. QED
      BY <1>1, <1>2, <2>1, <2>2 DEF ToSet
  <1>4. IsInjective(u)
    <2>1. SUFFICES ASSUME NEW k \in DOMAIN u, NEW l \in DOMAIN u, u[k] = u[l]
                   PROVE  k = l
      BY DEF IsInjective
    <2>2. CASE k \in 1 .. Len(s) /\ u[k] = s[k] /\ u[k] \in ToSet(s)
      <3>1. l \in 1 .. Len(s) /\ u[l] = s[l]
        BY <1>3, <2>1, <2>2
      <3>2. QED
        BY <1>1, <2>1, <2>2, <3>1 DEF IsInjective
    <2>3. CASE k - Len(s) \in 1 .. Len(t) /\ u[k] = t[k - Len(s)] /\ u[k] \in ToSet(t)
      <3>1. l - Len(s) \in 1 .. Len(t) /\ u[l] = t[l - Len(s)]
        BY <1>3, <2>1, <2>3
      <3>2. k - Len(s) = l - Len(s)
        BY <1>1, <2>1, <2>3, <3>1 DEF IsInjective
      <3>3. QED
        BY <1>1, <1>2, <3>2
    <2>4. QED
      BY <1>3, <2>2, <2>3
  <1>5. ToSet(u) = ToSet(s) \cup ToSet(t)
    <2>1. ToSet(u) \subseteq ToSet(s) \cup ToSet(t)
      BY <1>3 DEF ToSet
    <2>2. ASSUME NEW k \in DOMAIN s
          PROVE  s[k] \in ToSet(u)
      <3>1. k \in DOMAIN u /\ u[k] = s[k]
        BY <1>1, <1>2
      <3>2. QED
        BY <3>1 DEF ToSet
    <2>3. ASSUME NEW k \in DOMAIN t
          PROVE  t[k] \in ToSet(u)
      <3>1. Len(s) + k \in DOMAIN u /\ u[Len(s) + k] = t[k]
        BY <1>1, <1>2
      <3>2. QED
        BY <3>1 DEF ToSet
    <2>4. QED
      BY <2>1, <2>2, <2>3 DEF ToSet
  <1>6. QED
    BY <1>2, <1>4, <1>5 DEF u

LEMMA PrefixInjective ==
  ASSUME NEW U, NEW s \in Seq(U), IsInjective(s), NEW n \in 0 .. Len(s)
  PROVE  /\ SubSeq(s, 1, n) \in Seq(U) /\ IsInjective(SubSeq(s, 1, n))
         /\ ToSet(SubSeq(s, 1, n)) \subseteq ToSet(s) /\ Len(SubSeq(s, 1, n)) = n
  <1>. DEFINE t == SubSeq(s, 1, n)
  <1>1. /\ t \in Seq(U) /\ DOMAIN t = 1 .. n /\ Len(t) = n /\ DOMAIN s = 1 .. Len(s)
        /\ \A k \in 1 .. n : t[k] = s[k] /\ k \in DOMAIN s
    OBVIOUS
  <1>. HIDE DEF t
  <1>2. IsInjective(t)
    BY <1>1 DEF IsInjective
  <1>3. ToSet(t) \subseteq ToSet(s)
    BY <1>1 DEF ToSet
  <1>4. QED
    BY <1>1, <1>2, <1>3 DEF t

LEMMA TailInjective ==
  ASSUME NEW U, NEW s \in Seq(U), IsInjective(s), s # <<>>
  PROVE  /\ IsInjective(Tail(s)) /\ Head(s) \in ToSet(s)
         /\ ToSet(Tail(s)) = ToSet(s) \ {Head(s)}
         /\ Len(Tail(s)) = Len(s) - 1 /\ Len(s) \in Nat
  <1>. DEFINE t == Tail(s)
              h == Head(s)
  <1>1. /\ Len(s) \in Nat /\ Len(s) > 0 /\ DOMAIN s = 1 .. Len(s) /\ h = s[1]
        /\ DOMAIN t = 1 .. Len(s) - 1 /\ Len(t) = Len(s) - 1
        /\ \A k \in 1 .. Len(s) - 1 : t[k] = s[k + 1]
    OBVIOUS
  <1>. HIDE DEF t, h
  <1>2. IsInjective(t)
    <2>1. SUFFICES ASSUME NEW k \in 1 .. Len(s) - 1, NEW l \in 1 .. Len(s) - 1, t[k] = t[l]
                   PROVE  k = l
      BY <1>1 DEF IsInjective
    <2>2. s[k + 1] = s[l + 1] /\ k + 1 \in 1 .. Len(s) /\ l + 1 \in 1 .. Len(s)
      BY <1>1, <2>1
    <2>3. k + 1 = l + 1
      BY <1>1, <2>2 DEF IsInjective
    <2>4. QED
      BY <2>3
  <1>3. h \in ToSet(s)
    BY <1>1 DEF ToSet
  <1>4. ASSUME NEW k \in DOMAIN t
        PROVE  t[k] \in ToSet(s) \ {h}
    <2>1. t[k] = s[k + 1] /\ k + 1 \in 1 .. Len(s) /\ k + 1 # 1 /\ 1 \in 1 .. Len(s)
      BY <1>1
    <2>2. s[k + 1] # s[1]
      BY <1>1, <2>1 DEF IsInjective
    <2>3. QED
      BY <1>1, <2>1, <2>2 DEF ToSet
  <1>5. ASSUME NEW k \in DOMAIN s, s[k] # h
        PROVE  s[k] \in ToSet(t)
    <2>1. k - 1 \in 1 .. Len(s) - 1 /\ (k - 1) + 1 = k
      BY <1>1, <1>5
    <2>2. t[k - 1] = s[k]
      BY <1>1, <2>1
    <2>3. QED
      BY <1>1, <2>1, <2>2 DEF ToSet
  <1>6. ToSet(t) = ToSet(s) \ {h}
    BY <1>4, <1>5 DEF ToSet
  <1>7. QED
    BY <1>1, <1>2, <1>3, <1>6 DEF t, h

-----------------------------------------------------------------------------
(* The limits.                                                             *)
LEMMA BytesOfNone == Bytes({}) = 0
  <1>1. Sized({})
    BY FS_EmptySet DEF Sized
  <1>2. QED
    BY <1>1, BytesRecursion

LEMMA BytesWith ==
  ASSUME NEW S, Sized(S), NEW e, e \notin S, e.size \in Nat
  PROVE  /\ Bytes(S \cup {e}) = e.size + Bytes(S) /\ Sized(S \cup {e})
         /\ Bytes(S) \in Nat
  <1>1. Sized(S \cup {e})
    BY FS_AddElement DEF Sized
  <1>. DEFINE U == S \cup {e}
  <1>2. U \ {e} = S /\ e \in U
    OBVIOUS
  <1>. HIDE DEF U
  <1>3. Bytes(U) = e.size + Bytes(U \ {e})
    BY <1>1, <1>2, BytesWithout DEF U
  <1>4. Bytes(S) \in Nat
    BY BytesRecursion
  <1>5. QED
    BY <1>1, <1>2, <1>3, <1>4 DEF U

LEMMA EntrySizes == \A e \in Entries : e.size \in Nat
  <1>1. Sizes \cup {0} \subseteq Nat
    BY SizeTypes
  <1>2. \A e \in Entries : e.size \in Sizes \cup {0}
    BY DEF Entries
  <1>3. QED
    BY <1>1, <1>2

LEMMA SizedParts ==
  ASSUME Typed
  PROVE  /\ Sized(Indexed) /\ Sized(Reading)
         /\ Bytes(Indexed) \in Nat /\ Bytes(Reading) \in Nat /\ reserved \in Nat
         /\ options.maxTotalBytes \in Nat /\ scheduled \in Nat /\ Len(tasks) \in Nat
         /\ Cardinality(inspected) \in Nat /\ Cardinality(files) \in Nat
         /\ IsFiniteSet(inspected) /\ IsFiniteSet(files)
  <1>1. TypeOK /\ FiniteParts
    BY DEF Typed
  <1>2. \A e \in Entries : e.size \in Nat
    BY EntrySizes
  <1>3. Sized(Indexed)
    BY <1>1, <1>2, FS_Subset DEF Sized, Indexed, TypeOK, FiniteParts
  <1>4. Sized(Reading)
    BY <1>1, InspectionTypes, FS_Subset DEF Sized, Reading, FiniteParts
  <1>5. Bytes(Indexed) \in Nat /\ Bytes(Reading) \in Nat
    BY <1>3, <1>4, BytesRecursion
  <1>6. reserved \in Nat /\ options.maxTotalBytes \in Nat /\ scheduled \in Nat /\ Len(tasks) \in Nat
    BY <1>1, OptionTypes DEF TypeOK
  <1>7. QED
    BY <1>1, <1>3, <1>4, <1>5, <1>6, FS_CardinalityType DEF FiniteParts

(* The rest of the inspections, without one.                               *)
LEMMA OtherInspections ==
  ASSUME Typed, Apart, NEW i \in inspected
  PROVE  LET rest == inspected \ {i} IN
         /\ {j.path : j \in rest} = Inspecting \ {i.path} /\ i.path \in Inspecting
         /\ i.path \notin PathsOf(files) /\ i.path \notin ToSet(tasks)
         /\ IsFiniteSet(rest) /\ Cardinality(rest) = Cardinality(inspected) - 1
         /\ Cardinality(rest) \in Nat
         /\ i.at # "read" => {j \in rest : j.at = "read"} = Reading
         /\ i.at = "read" =>
              /\ {j \in rest : j.at = "read"} = Reading \ {i} /\ i \in Reading
              /\ i.size \in Nat
              /\ Bytes(Reading) = i.size + Bytes(Reading \ {i}) /\ Bytes(Reading \ {i}) \in Nat
  <1>. DEFINE rest == inspected \ {i}
  <1>1. {j.path : j \in rest} = Inspecting \ {i.path} /\ i.path \in Inspecting
    BY DEF Inspecting, Apart
  <1>2. i.path \notin PathsOf(files) /\ i.path \notin ToSet(tasks)
    BY <1>1 DEF Apart
  <1>3. IsFiniteSet(rest) /\ Cardinality(rest) = Cardinality(inspected) - 1
    BY FS_RemoveElement DEF Typed, FiniteParts
  <1>4. Cardinality(rest) \in Nat
    BY <1>3, FS_CardinalityType
  <1>5. i.at # "read" => {j \in rest : j.at = "read"} = Reading
    BY DEF Reading
  <1>6. ASSUME i.at = "read"
        PROVE  /\ {j \in rest : j.at = "read"} = Reading \ {i} /\ i \in Reading
               /\ i.size \in Nat
               /\ Bytes(Reading) = i.size + Bytes(Reading \ {i}) /\ Bytes(Reading \ {i}) \in Nat
    <2>1. {j \in rest : j.at = "read"} = Reading \ {i} /\ i \in Reading
      BY <1>6 DEF Reading
    <2>2. Sized(Reading) /\ i.size \in Nat
      BY <2>1, SizedParts DEF Sized
    <2>3. Sized(Reading \ {i})
      BY <2>2, FS_Subset DEF Sized
    <2>4. QED
      BY <2>1, <2>2, <2>3, BytesWithout, BytesRecursion
  <1>7. QED
    BY <1>1, <1>2, <1>3, <1>4, <1>5, <1>6

LEMMA LimitedEnds ==
  ASSUME Typed, Limited, NEW i \in inspected, Ends(i), WorkerStep(i),
         reserved <= reserved', reserved' <= options.maxTotalBytes
  PROVE  Limited'
  <1>1. UNCHANGED <<tasks, unread, scheduled, options, files>> /\ inspected' = inspected \ {i}
    BY DEF WorkerStep, InspectionUnchanged, Ends
  <1>2. Apart /\ Counted /\ Reserved
    BY DEF Limited
  <1>3. Inspecting' = Inspecting \ {i.path}
    BY <1>1, <1>2, OtherInspections DEF Inspecting
  <1>4. PathsOf(files)' = PathsOf(files) /\ Walked' = Walked
    BY <1>1 DEF PathsOf, Walked
  <1>5. Apart'
    BY <1>1, <1>2, <1>3, <1>4 DEF Apart
  <1>6. Counted'
    <2>1. Cardinality(inspected') = Cardinality(inspected) - 1
      BY <1>1, <1>2, OtherInspections
    <2>2. QED
      BY <1>1, <1>2, <2>1, SizedParts DEF Counted
  <1>7. Reserved'
    <2>1. Bytes(Indexed)' = Bytes(Indexed)
      BY <1>1 DEF Indexed
    <2>2. Bytes(Reading)' <= Bytes(Reading) /\ Bytes(Reading)' \in Nat
      <3>. DEFINE left == {j \in inspected \ {i} : j.at = "read"}
      <3>1. Bytes(Reading)' = Bytes(left)
        BY <1>1 DEF Reading
      <3>2. CASE i.at # "read"
        <4>1. left = Reading
          BY <1>2, <3>2, OtherInspections
        <4>. HIDE DEF left
        <4>2. QED
          BY <3>1, <4>1, SizedParts
      <3>3. CASE i.at = "read"
        <4>1. Bytes(Reading) = i.size + Bytes(left) /\ Bytes(left) \in Nat /\ i.size \in Nat
          BY <1>2, <3>3, OtherInspections
        <4>. HIDE DEF left
        <4>2. QED
          BY <3>1, <4>1, SizedParts
      <3>4. QED
        BY <3>2, <3>3
    <2>3. reserved' \in Nat
      BY DEF WorkerStep
    <2>4. QED
      BY <1>1, <1>2, <2>1, <2>2, <2>3, SizedParts DEF Reserved
  <1>8. QED
    BY <1>5, <1>6, <1>7 DEF Limited

(* The bytes of an entry with a hash are reserved, now or before.          *)
LEMMA LimitedFinds ==
  ASSUME Typed, Limited, NEW i \in inspected, NEW e, Finds(i, e), WorkerStep(i),
         \/ e.reason # None /\ UNCHANGED reserved
         \/ i.at = "read" /\ e.size = i.size /\ UNCHANGED reserved
         \/ i.at # "read" /\ Fits(e.size) /\ reserved' = reserved + e.size
  PROVE  Limited'
  <1>1. /\ UNCHANGED <<tasks, unread, scheduled, options>> /\ inspected' = inspected \ {i}
        /\ files' = files \cup {e} /\ e \in Entries /\ e.path = i.path
    BY DEF WorkerStep, InspectionUnchanged, Finds
  <1>2. Apart /\ Counted /\ Reserved
    BY DEF Limited
  <1>3. /\ Inspecting' = Inspecting \ {i.path} /\ i.path \in Inspecting
        /\ i.path \notin PathsOf(files) /\ i.path \notin ToSet(tasks)
    BY <1>1, <1>2, OtherInspections DEF Inspecting
  <1>4. PathsOf(files)' = PathsOf(files) \cup {i.path} /\ Walked' = Walked
    BY <1>1 DEF PathsOf, Walked
  <1>5. e \notin files /\ e.size \in Nat
    BY <1>1, <1>3, EntrySizes DEF PathsOf
  <1>6. Apart'
    <2>a. \A g \in files : g.path # e.path
      BY <1>1, <1>3 DEF PathsOf
    <2>1. \A g, h \in files' : g.path = h.path => g = h
      BY <1>1, <1>2, <2>a DEF Apart
    <2>2. \A j, k \in inspected' : j.path = k.path => j = k
      BY <1>1, <1>2 DEF Apart
    <2>3. ToSet(tasks)' = ToSet(tasks) /\ IsInjective(tasks)' = IsInjective(tasks)
      BY <1>1
    <2>4. /\ ToSet(tasks) \cup Inspecting \cup PathsOf(files) \subseteq Walked
          /\ ToSet(tasks) \cap Inspecting = {}
          /\ ToSet(tasks) \cap PathsOf(files) = {} /\ Inspecting \cap PathsOf(files) = {}
          /\ IsInjective(tasks)
      BY <1>2 DEF Apart
    <2>5. /\ ToSet(tasks)' \cup Inspecting' \cup PathsOf(files)' \subseteq Walked'
          /\ ToSet(tasks)' \cap Inspecting' = {}
          /\ ToSet(tasks)' \cap PathsOf(files)' = {} /\ Inspecting' \cap PathsOf(files)' = {}
          /\ IsInjective(tasks)'
      BY <1>3, <1>4, <2>3, <2>4
    <2>6. QED
      BY <2>1, <2>2, <2>5 DEF Apart
  <1>7. Counted'
    <2>1. Cardinality(files') = Cardinality(files) + 1
      BY <1>1, <1>5, SizedParts, FS_AddElement
    <2>2. Cardinality(inspected') = Cardinality(inspected) - 1
      BY <1>1, <1>2, OtherInspections
    <2>3. QED
      BY <1>1, <1>2, <2>1, <2>2, SizedParts DEF Counted
  <1>8. Reserved'
    <2>. DEFINE left == {j \in inspected \ {i} : j.at = "read"}
                found == {g \in files \cup {e} : g.reason = None}
    <2>1. Bytes(Reading)' = Bytes(left) /\ Bytes(Indexed)' = Bytes(found)
      BY <1>1 DEF Reading, Indexed
    <2>2. e.reason # None => found = Indexed
      BY DEF Indexed
    <2>3. e.reason = None => Bytes(found) = e.size + Bytes(Indexed)
      <3>1. SUFFICES ASSUME e.reason = None
                     PROVE  Bytes(found) = e.size + Bytes(Indexed)
        OBVIOUS
      <3>2. found = Indexed \cup {e} /\ e \notin Indexed
        BY <1>5, <3>1 DEF Indexed
      <3>. HIDE DEF found
      <3>3. QED
        BY <1>5, <3>2, SizedParts, BytesWith
    <2>4. i.at # "read" => left = Reading
      BY <1>2, OtherInspections
    <2>5. i.at = "read" => Bytes(Reading) = i.size + Bytes(left) /\ Bytes(left) \in Nat
                           /\ i.size \in Nat
      BY <1>2, OtherInspections
    <2>. HIDE DEF left, found
    <2>6. Bytes(Indexed) + Bytes(Reading) <= reserved /\ reserved <= options.maxTotalBytes
      BY <1>2 DEF Reserved
    <2>7. Bytes(found) + Bytes(left) <= reserved' /\ reserved' <= options.maxTotalBytes
      <3>1. CASE e.reason # None /\ UNCHANGED reserved /\ i.at # "read"
        BY <2>2, <2>4, <2>6, <3>1
      <3>2. CASE e.reason # None /\ UNCHANGED reserved /\ i.at = "read"
        BY <2>2, <2>5, <2>6, <3>2, SizedParts
      <3>3. CASE e.reason = None /\ i.at = "read" /\ e.size = i.size /\ UNCHANGED reserved
        BY <2>3, <2>5, <2>6, <3>3, SizedParts
      <3>4. CASE e.reason = None /\ i.at # "read" /\ Fits(e.size) /\ reserved' = reserved + e.size
        BY <1>5, <2>3, <2>4, <2>6, <3>4, SizedParts DEF Fits
      <3>5. CASE e.reason # None /\ i.at # "read" /\ Fits(e.size) /\ reserved' = reserved + e.size
        BY <1>5, <2>2, <2>4, <2>6, <3>5, SizedParts DEF Fits
      <3>6. QED
        BY <3>1, <3>2, <3>3, <3>4, <3>5
    <2>8. QED
      BY <1>1, <2>1, <2>7 DEF Reserved
  <1>9. QED
    BY <1>6, <1>7, <1>8 DEF Limited

LEMMA LimitedGoesOn ==
  ASSUME Typed, Limited, NEW i \in inspected, NEW next, GoesOn(i, next), WorkerStep(i),
         i.at # "read",
         \/ next.at # "read" /\ UNCHANGED reserved
         \/ /\ next.at = "read" /\ next.size \in Nat /\ Fits(next.size)
            /\ reserved' = reserved + next.size
  PROVE  Limited'
  <1>1. /\ UNCHANGED <<tasks, unread, scheduled, options, files>>
        /\ inspected' = (inspected \ {i}) \cup {next} /\ next.path = i.path
    BY DEF WorkerStep, InspectionUnchanged, GoesOn
  <1>2. Apart /\ Counted /\ Reserved
    BY DEF Limited
  <1>. DEFINE rest == inspected \ {i}
  <1>3. /\ {j.path : j \in rest} = Inspecting \ {i.path} /\ i.path \in Inspecting
        /\ IsFiniteSet(rest) /\ Cardinality(rest) = Cardinality(inspected) - 1
        /\ {j \in rest : j.at = "read"} = Reading
    BY <1>2, OtherInspections
  <1>4. next \notin rest /\ \A j \in rest : j.path # i.path
    BY <1>1, <1>2 DEF Apart
  <1>5. inspected' = rest \cup {next}
    BY <1>1
  <1>6. Inspecting' = Inspecting
    <2>1. Inspecting' = {j.path : j \in rest} \cup {next.path}
      BY <1>5 DEF Inspecting
    <2>2. QED
      BY <1>1, <1>3, <2>1
  <1>7. PathsOf(files)' = PathsOf(files) /\ Walked' = Walked
    BY <1>1 DEF PathsOf, Walked
  <1>8. Apart'
    <2>1. \A j, k \in inspected' : j.path = k.path => j = k
      BY <1>1, <1>2, <1>4, <1>5 DEF Apart
    <2>2. QED
      BY <1>1, <1>2, <1>6, <1>7, <2>1 DEF Apart
  <1>9. Counted'
    <2>. HIDE DEF rest
    <2>1. Cardinality(inspected') = Cardinality(rest) + 1
      BY <1>3, <1>4, <1>5, FS_AddElement
    <2>2. QED
      BY <1>1, <1>2, <1>3, <2>1, SizedParts DEF Counted
  <1>10. Reserved'
    <2>1. Bytes(Indexed)' = Bytes(Indexed)
      BY <1>1 DEF Indexed
    <2>2. CASE next.at # "read" /\ UNCHANGED reserved
      <3>1. Reading' = Reading
        BY <1>3, <1>5, <2>2 DEF Reading
      <3>2. Bytes(Reading)' = Bytes(Reading)
        BY <3>1
      <3>3. QED
        BY <1>1, <1>2, <2>1, <2>2, <3>2 DEF Reserved
    <2>3. CASE /\ next.at = "read" /\ next.size \in Nat /\ Fits(next.size)
               /\ reserved' = reserved + next.size
      <3>1. Reading' = Reading \cup {next} /\ next \notin Reading
        BY <1>3, <1>4, <1>5, <2>3 DEF Reading
      <3>2. Bytes(Reading)' = Bytes(Reading \cup {next})
        BY <3>1
      <3>3. Bytes(Reading \cup {next}) = next.size + Bytes(Reading)
        BY <2>3, <3>1, SizedParts, BytesWith
      <3>4. Bytes(Indexed) + Bytes(Reading) <= reserved /\ reserved <= options.maxTotalBytes
        BY <1>2 DEF Reserved
      <3>5. Bytes(Indexed) + (next.size + Bytes(Reading)) <= reserved + next.size
        BY <2>3, <3>4, SizedParts
      <3>6. reserved' <= options.maxTotalBytes
        BY <2>3 DEF Fits
      <3>7. QED
        BY <1>1, <2>1, <2>3, <3>2, <3>3, <3>5, <3>6 DEF Reserved
    <2>4. QED
      BY <2>2, <2>3
  <1>11. QED
    BY <1>8, <1>9, <1>10 DEF Limited

LEMMA LimitedUnchanged ==
  ASSUME Limited,
         UNCHANGED <<tasks, unread, scheduled, options, inspected, files, reserved>>
  PROVE  Limited'
  <1>1. /\ Inspecting' = Inspecting /\ PathsOf(files)' = PathsOf(files) /\ Walked' = Walked
        /\ Indexed' = Indexed /\ Reading' = Reading
    BY DEF Inspecting, PathsOf, Walked, Indexed, Reading
  <1>2. Bytes(Indexed)' = Bytes(Indexed) /\ Bytes(Reading)' = Bytes(Reading)
    BY <1>1
  <1>3. QED
    BY <1>1, <1>2 DEF Limited, Apart, Counted, Reserved

Blank ==
  /\ tasks = <<>> /\ inspected = {} /\ files = {} /\ scheduled = 0 /\ reserved = 0
  /\ options \in Options

LEMMA LimitedBlank == Blank => Limited
  <1>. SUFFICES ASSUME Blank
                PROVE  Limited
    OBVIOUS
  <1>1. /\ ToSet(tasks) = {} /\ IsInjective(tasks) /\ Len(tasks) = 0
    BY DEF Blank, ToSet, IsInjective
  <1>2. Inspecting = {} /\ PathsOf(files) = {} /\ Indexed = {} /\ Reading = {}
    BY DEF Blank, Inspecting, PathsOf, Indexed, Reading
  <1>3. Apart
    BY <1>1, <1>2 DEF Blank, Apart
  <1>4. Counted
    BY <1>1, FS_EmptySet DEF Blank, Counted
  <1>5. Reserved
    <2>1. Bytes(Indexed) = 0 /\ Bytes(Reading) = 0
      BY <1>2, BytesOfNone
    <2>2. options.maxTotalBytes \in Nat
      BY OptionTypes DEF Blank
    <2>3. QED
      BY <2>1, <2>2 DEF Blank, Reserved
  <1>6. QED
    BY <1>3, <1>4, <1>5 DEF Limited

LEMMA LimitedLeave ==
  ASSUME Leave
  PROVE  Limited'
  <1>1. Blank'
    BY SomeOption DEF Leave, Blank
  <1>2. QED
    BY <1>1, LimitedBlank, PTL

LEMMA LimitedReadDirectory ==
  ASSUME Typed, Limited, ReadDirectory
  PROVE  Limited'
  <1>. DEFINE d == 1 + Len(Directories) - unread
              listed == Kept(Directories[d], {p \in Paths : Exists(p)})
              part == IF Len(listed) <= Room THEN listed ELSE SubSeq(listed, 1, Room)
  <1>1. TypeOK /\ Apart /\ Counted /\ Reserved /\ tasks \in Seq(Paths)
    BY DEF Typed, Limited, TypeOK
  <1>2. unread \in 0 .. Len(Directories) /\ unread > 0 /\ unread' = unread - 1
    BY <1>1 DEF ReadDirectory, TypeOK
  <1>3. d \in 1 .. Len(Directories) /\ unread' \in 0 .. Len(Directories)
    BY <1>2, DirectoryTypes
  <1>4. /\ listed \in Seq(Paths) /\ Len(listed) \in Nat /\ IsInjective(listed)
        /\ ToSet(listed) \subseteq ToSet(Directories[d])
    BY <1>3, DirectoryTypes, KeptElements
  <1>5. Room \in Nat /\ scheduled \in Nat /\ scheduled + Room = options.maxFiles
        /\ options.maxFiles \in Nat
    BY <1>1, OptionTypes DEF Room, TypeOK
  <1>6. /\ IF Len(listed) <= Room
           THEN tasks' = tasks \o listed /\ scheduled' = scheduled + Len(listed)
           ELSE tasks' = tasks \o SubSeq(listed, 1, Room) /\ scheduled' = options.maxFiles
        /\ UNCHANGED <<inspected, files, reserved, options>>
    BY DEF ReadDirectory
  <1>. HIDE DEF listed
  <1>7. /\ tasks' = tasks \o part /\ scheduled' = scheduled + Len(part)
        /\ part \in Seq(Paths) /\ IsInjective(part) /\ ToSet(part) \subseteq ToSet(listed)
        /\ Len(part) \in Nat
    <2>1. CASE Len(listed) <= Room
      BY <1>4, <1>6, <2>1
    <2>2. CASE ~(Len(listed) <= Room)
      <3>1. Room \in 0 .. Len(listed) /\ part = SubSeq(listed, 1, Room)
        BY <1>4, <1>5, <2>2
      <3>2. /\ SubSeq(listed, 1, Room) \in Seq(Paths) /\ IsInjective(SubSeq(listed, 1, Room))
            /\ ToSet(SubSeq(listed, 1, Room)) \subseteq ToSet(listed)
            /\ Len(SubSeq(listed, 1, Room)) = Room
        BY <1>4, <3>1, PrefixInjective
      <3>3. QED
        BY <1>5, <1>6, <2>2, <3>1, <3>2
    <2>3. QED
      BY <2>1, <2>2
  <1>. HIDE DEF part
  <1>8. Walked' = Walked \cup ToSet(Directories[d])
    <2>1. Len(Directories) - unread' = d /\ Len(Directories) - unread = d - 1
      BY <1>2, DirectoryTypes
    <2>2. 1 .. d = (1 .. d - 1) \cup {d}
      BY <1>3, DirectoryTypes
    <2>. HIDE DEF d
    <2>3. Walked' = UNION {ToSet(Directories[c]) : c \in 1 .. d}
          /\ Walked = UNION {ToSet(Directories[c]) : c \in 1 .. d - 1}
      BY <2>1 DEF Walked
    <2>4. QED
      BY <2>2, <2>3
  <1>9. Walked \cap ToSet(Directories[d]) = {}
    <2>1. Len(Directories) - unread = d - 1
      BY <1>2, DirectoryTypes
    <2>2. \A c \in 1 .. d - 1 : c \in 1 .. Len(Directories) /\ c # d
      BY <1>3, DirectoryTypes
    <2>3. \A c \in 1 .. d - 1 : ToSet(Directories[c]) \cap ToSet(Directories[d]) = {}
      BY <1>3, <2>2, DirectoriesApart
    <2>. HIDE DEF d
    <2>4. QED
      BY <2>1, <2>3 DEF Walked
  <1>10. ToSet(tasks) \cup Inspecting \cup PathsOf(files) \subseteq Walked
    BY <1>1 DEF Apart
  <1>11. ToSet(part) \cap Walked = {}
    BY <1>4, <1>7, <1>9
  <1>12. /\ IsInjective(tasks') /\ ToSet(tasks') = ToSet(tasks) \cup ToSet(part)
         /\ Len(tasks') = Len(tasks) + Len(part)
    <2>1. ToSet(tasks) \cap ToSet(part) = {}
      BY <1>10, <1>11
    <2>2. IsInjective(tasks)
      BY <1>1 DEF Apart
    <2>3. QED
      BY <1>1, <1>7, <2>1, <2>2, ConcatInjective
  <1>13. Inspecting' = Inspecting /\ PathsOf(files)' = PathsOf(files)
    BY <1>6 DEF Inspecting, PathsOf
  <1>14. Apart'
    <2>1. /\ ToSet(tasks') \cup Inspecting' \cup PathsOf(files)' \subseteq Walked'
          /\ ToSet(tasks') \cap Inspecting' = {} /\ ToSet(tasks') \cap PathsOf(files)' = {}
          /\ Inspecting' \cap PathsOf(files)' = {}
      <3>1. /\ ToSet(tasks) \cap Inspecting = {} /\ ToSet(tasks) \cap PathsOf(files) = {}
            /\ Inspecting \cap PathsOf(files) = {}
        BY <1>1 DEF Apart
      <3>2. ToSet(part) \subseteq ToSet(Directories[d])
        BY <1>4, <1>7
      <3>. HIDE DEF d
      <3>3. QED
        BY <1>8, <1>10, <1>11, <1>12, <1>13, <3>1, <3>2
    <2>2. /\ \A i, j \in inspected' : i.path = j.path => i = j
          /\ \A e, f \in files' : e.path = f.path => e = f
      BY <1>1, <1>6 DEF Apart
    <2>3. QED
      BY <1>12, <2>1, <2>2 DEF Apart
  <1>15. Counted'
    BY <1>1, <1>6, <1>7, <1>12, SizedParts DEF Counted
  <1>16. Reserved'
    <2>1. Indexed' = Indexed /\ Reading' = Reading
      BY <1>6 DEF Indexed, Reading
    <2>2. Bytes(Indexed)' = Bytes(Indexed) /\ Bytes(Reading)' = Bytes(Reading)
      BY <2>1
    <2>3. QED
      BY <1>1, <1>6, <2>2 DEF Reserved
  <1>17. QED
    BY <1>14, <1>15, <1>16 DEF Limited

LEMMA LimitedTakeTask ==
  ASSUME Typed, Limited, TakeTask
  PROVE  Limited'
  <1>. DEFINE p == Head(tasks)
              i == [at |-> IF p \in Links THEN "resolve" ELSE "stat", path |-> p]
  <1>1. TypeOK /\ Apart /\ Counted /\ Reserved /\ tasks \in Seq(Paths) /\ tasks # <<>>
    BY DEF Typed, Limited, TypeOK, TakeTask
  <1>2. /\ inspected' = inspected \cup {i} /\ tasks' = Tail(tasks)
        /\ UNCHANGED <<files, reserved, unread, scheduled, options>>
    BY DEF TakeTask, InspectionUnchanged, shared
  <1>3. i.path = p /\ i.at # "read"
    OBVIOUS
  <1>. HIDE DEF i
  <1>4. /\ IsInjective(tasks') /\ p \in ToSet(tasks) /\ ToSet(tasks') = ToSet(tasks) \ {p}
        /\ Len(tasks') = Len(tasks) - 1
    <2>1. IsInjective(tasks)
      BY <1>1 DEF Apart
    <2>2. QED
      BY <1>1, <1>2, <2>1, TailInjective
  <1>. HIDE DEF p
  <1>5. Inspecting' = Inspecting \cup {p} /\ PathsOf(files)' = PathsOf(files) /\ Walked' = Walked
    BY <1>2, <1>3 DEF Inspecting, PathsOf, Walked
  <1>6. p \notin Inspecting /\ p \notin PathsOf(files)
    BY <1>1, <1>4 DEF Apart
  <1>7. i \notin inspected /\ \A j \in inspected : j.path # p
    BY <1>3, <1>6 DEF Inspecting
  <1>8. Apart'
    <2>1. /\ ToSet(tasks) \cup Inspecting \cup PathsOf(files) \subseteq Walked
          /\ ToSet(tasks) \cap Inspecting = {} /\ ToSet(tasks) \cap PathsOf(files) = {}
          /\ Inspecting \cap PathsOf(files) = {}
      BY <1>1 DEF Apart
    <2>2. /\ ToSet(tasks') \cup Inspecting' \cup PathsOf(files)' \subseteq Walked'
          /\ ToSet(tasks') \cap Inspecting' = {} /\ ToSet(tasks') \cap PathsOf(files)' = {}
          /\ Inspecting' \cap PathsOf(files)' = {}
      BY <1>4, <1>5, <1>6, <2>1
    <2>3. /\ \A j, k \in inspected' : j.path = k.path => j = k
          /\ \A e, f \in files' : e.path = f.path => e = f
      BY <1>1, <1>2, <1>3, <1>7 DEF Apart
    <2>4. QED
      BY <1>4, <2>2, <2>3 DEF Apart
  <1>9. Counted'
    <2>1. Cardinality(inspected') = Cardinality(inspected) + 1
      BY <1>2, <1>7, SizedParts, FS_AddElement
    <2>2. QED
      BY <1>1, <1>2, <1>4, <2>1, SizedParts DEF Counted
  <1>10. Reserved'
    <2>1. Indexed' = Indexed /\ Reading' = Reading
      BY <1>2, <1>3 DEF Indexed, Reading
    <2>2. Bytes(Indexed)' = Bytes(Indexed) /\ Bytes(Reading)' = Bytes(Reading)
      BY <2>1
    <2>3. QED
      BY <1>1, <1>2, <2>2 DEF Reserved
  <1>11. QED
    BY <1>8, <1>9, <1>10 DEF Limited

(* The inspections that go on or end keep the limits.                      *)
LEMMA LimitedWorker ==
  ASSUME Typed, Limited, InspectionsStamped, NEW i \in inspected,
         Resolve(i) \/ Stat(i) \/ Sample(i) \/ Read(i)
  PROVE  Limited'
  <1>1. TypeOK /\ reserved \in Nat /\ reserved <= options.maxTotalBytes /\ options.maxTotalBytes \in Nat
    BY SizedParts DEF Typed, Limited, Reserved
  <1>2. i.at # "resolve" => Referent(i.path) \in Files
    BY DEF InspectionsStamped, InspectionStamped
  <1>3. i.path \in Paths
    BY <1>1, InspectionTypes
  <1>4. CASE Resolve(i)
    <2>1. i.at = "resolve" /\ UNCHANGED reserved /\ WorkerStep(i)
      BY <1>1, <1>4, ResolveStep
    <2>2. CASE Ends(i)
      BY <1>1, <2>1, <2>2, LimitedEnds
    <2>3. CASE Finds(i, Entry(i.path, 0, 0, None, "outside_workspace"))
      <3>. DEFINE e == Entry(i.path, 0, 0, None, "outside_workspace")
      <3>1. e.reason # None
        BY NoneIsNoReason DEF Entry
      <3>. HIDE DEF e
      <3>2. Finds(i, e)
        BY <2>3 DEF e
      <3>3. QED
        BY <2>1, <3>1, <3>2, LimitedFinds
    <2>4. CASE GoesOn(i, [at |-> "stat", path |-> i.path])
      <3>. DEFINE next == [at |-> "stat", path |-> i.path]
      <3>1. next.at # "read" /\ i.at # "read"
        BY <2>1
      <3>. HIDE DEF next
      <3>2. GoesOn(i, next)
        BY <2>4 DEF next
      <3>3. QED
        BY <2>1, <3>1, <3>2, LimitedGoesOn
    <2>5. QED
      BY <1>1, <1>4, <2>2, <2>3, <2>4, ResolveStep
  <1>5. CASE Stat(i)
    <2>. DEFINE p == i.path
                size == SizeOf[ContentOf(p)]
                time == mtime[Referent(p)]
    <2>1. i.at = "stat" /\ Referent(p) \in Files
      BY <1>2, <1>5 DEF Stat
    <2>2. WorkerStep(i) /\ ContentOf(p) # None
      BY <1>1, <1>5, <2>1, StatStep
    <2>3. size \in Nat
      BY <1>1, <1>3, <2>1, <2>2, ReferentTypes
    <2>4. CASE Ends(i) /\ UNCHANGED reserved
      BY <1>1, <2>2, <2>4, LimitedEnds
    <2>5. CASE /\ UNCHANGED reserved /\ Ignored(p, size) # None
               /\ Finds(i, Entry(p, size, time, None, Ignored(p, size)))
      <3>. DEFINE e == Entry(p, size, time, None, Ignored(p, size))
      <3>1. e.reason # None
        BY <2>5 DEF Entry
      <3>. HIDE DEF e
      <3>2. Finds(i, e)
        BY <2>5 DEF e
      <3>3. QED
        BY <2>2, <2>5, <3>1, <3>2, LimitedFinds
    <2>6. CASE \E e \in Reusable(p, size, time) :
                 /\ Finds(i, e)
                 /\ IF e.reason = None
                    THEN Fits(size) /\ reserved' = reserved + size
                    ELSE UNCHANGED reserved
      <3>1. PICK e \in Reusable(p, size, time) :
                 /\ Finds(i, e)
                 /\ IF e.reason = None
                    THEN Fits(size) /\ reserved' = reserved + size
                    ELSE UNCHANGED reserved
        BY <2>6
      <3>2. e.size = size
        BY DEF Reusable
      <3>3. \/ e.reason # None /\ UNCHANGED reserved
            \/ i.at # "read" /\ Fits(e.size) /\ reserved' = reserved + e.size
        BY <2>1, <3>1, <3>2
      <3>4. QED
        BY <2>2, <3>1, <3>3, LimitedFinds
    <2>7. CASE /\ UNCHANGED reserved
               /\ GoesOn(i, [at |-> "sample", path |-> p, size |-> size, mtime |-> time])
      <3>. DEFINE next == [at |-> "sample", path |-> p, size |-> size, mtime |-> time]
      <3>1. next.at # "read" /\ i.at # "read"
        BY <2>1
      <3>. HIDE DEF next
      <3>2. GoesOn(i, next)
        BY <2>7 DEF next
      <3>3. QED
        BY <2>2, <2>7, <3>1, <3>2, LimitedGoesOn
    <2>8. QED
      BY <1>1, <1>5, <2>1, <2>4, <2>5, <2>6, <2>7, StatStep
  <1>6. CASE Sample(i)
    <2>1. i.at = "sample" /\ Referent(i.path) \in Files
      BY <1>2, <1>6 DEF Sample
    <2>2. WorkerStep(i) /\ i.size \in Nat
      BY <1>1, <1>6, <2>1, SampleStep, InspectionTypes
    <2>3. CASE UNCHANGED reserved /\ Finds(i, Entry(i.path, i.size, i.mtime, None, "binary"))
      <3>. DEFINE e == Entry(i.path, i.size, i.mtime, None, "binary")
      <3>1. e.reason # None
        BY NoneIsNoReason DEF Entry
      <3>. HIDE DEF e
      <3>2. Finds(i, e)
        BY <2>3 DEF e
      <3>3. QED
        BY <2>2, <2>3, <3>1, <3>2, LimitedFinds
    <2>4. CASE /\ Ends(i)
               /\ UNCHANGED reserved \/ (Fits(i.size) /\ reserved' = reserved + i.size)
      <3>1. reserved <= reserved' /\ reserved' <= options.maxTotalBytes
        BY <1>1, <2>2, <2>4 DEF Fits
      <3>2. QED
        BY <2>2, <2>4, <3>1, LimitedEnds
    <2>5. CASE /\ Fits(i.size) /\ reserved' = reserved + i.size
               /\ GoesOn(i, [at |-> "read", path |-> i.path, size |-> i.size, mtime |-> i.mtime])
      <3>. DEFINE next == [at |-> "read", path |-> i.path, size |-> i.size, mtime |-> i.mtime]
      <3>1. next.at = "read" /\ next.size = i.size /\ i.at # "read"
        BY <2>1
      <3>. HIDE DEF next
      <3>2. GoesOn(i, next)
        BY <2>5 DEF next
      <3>3. QED
        BY <2>2, <2>5, <3>1, <3>2, LimitedGoesOn
    <2>6. QED
      BY <1>1, <1>6, <2>1, <2>3, <2>4, <2>5, SampleStep
  <1>7. CASE Read(i)
    <2>. DEFINE e == Entry(i.path, i.size, i.mtime, ContentOf(i.path), None)
    <2>1. i.at = "read" /\ Referent(i.path) \in Files
      BY <1>2, <1>7 DEF Read
    <2>2. e.size = i.size
      BY DEF Entry
    <2>3. WorkerStep(i) /\ UNCHANGED reserved /\ Finds(i, e)
      BY <1>1, <1>7, <2>1, ReadStep
    <2>. HIDE DEF e
    <2>4. QED
      BY <2>1, <2>2, <2>3, LimitedFinds
  <1>8. QED
    BY <1>4, <1>5, <1>6, <1>7

LEMMA NextLimited ==
  ASSUME Typed, Limited, InspectionsStamped, [Next]_vars
  PROVE  Limited'
  <1>1. CASE Start
    <2>1. Blank'
      BY <1>1 DEF Start, Typed, IdleIsEmpty, Blank, shared
    <2>2. QED
      BY <2>1, LimitedBlank, PTL
  <1>2. CASE ReadDirectory
    BY <1>2, LimitedReadDirectory
  <1>3. CASE TakeTask
    BY <1>3, LimitedTakeTask
  <1>4. ASSUME NEW i \in inspected, Resolve(i) \/ Stat(i) \/ Sample(i) \/ Read(i)
        PROVE  Limited'
    BY <1>4, LimitedWorker
  <1>5. CASE Leave
    BY <1>5, LimitedLeave
  <1>6. CASE UNCHANGED <<tasks, unread, scheduled, options, inspected, files, reserved>>
    BY <1>6, LimitedUnchanged
  <1>7. CASE EndDiscovery
    BY <1>5, <1>6, <1>7 DEF EndDiscovery, HookGivesUp
  <1>8. CASE EndAnalysis
    BY <1>5, <1>6, <1>8 DEF EndAnalysis, HookGivesUp, discovery, shared
  <1>9. CASE ReuseOrSkip \/ AnalyzeFile
    BY <1>6, <1>9 DEF ReuseOrSkip, AnalyzeFile, Analyzed, discovery, shared
  <1>10. CASE Inspect \/ SaveIndex \/ Abort
    BY <1>6, <1>10 DEF Inspect, SaveIndex, Abort, discovery, shared
  <1>11. CASE \E f \in Files : Edit(f)
    BY <1>6, <1>11 DEF Edit, discovery, shared
  <1>12. CASE SaveAnalysis \/ Fail \/ \E i \in inspected : Missing(i)
    BY <1>5, <1>12 DEF SaveAnalysis, Fail, Missing
  <1>13. CASE UNCHANGED vars
    BY <1>6, <1>13 DEF vars, discovery, shared
  <1>14. QED
    BY <1>1, <1>2, <1>3, <1>4, <1>7, <1>8, <1>9, <1>10, <1>11, <1>12, <1>13 DEF Next, SessionStep

-----------------------------------------------------------------------------
(* What is found is what is there.                                         *)
LEMMA TargetTypes ==
  ASSUME NEW p \in Paths
  PROVE  Targets(p) \subseteq Files
  BY PathTypes DEF Targets

LEMMA TargetOf ==
  ASSUME LinksStay, TypeOK, NEW p \in Paths, Referent(p) \in Files
  PROVE  Targets(p) = {Referent(p)}
  <1>1. options \in Options
    BY DEF TypeOK
  <1>2. CASE p \in Links
    BY <1>1, <1>2 DEF Targets, Referent, LinksStay
  <1>3. CASE p \notin Links
    BY <1>3 DEF Targets, Referent
  <1>4. QED
    BY <1>2, <1>3

(* What a cold discovery makes of a file.                                  *)
LEMMA ColdFile ==
  ASSUME TypeOK, NEW p \in Paths, Referent(p) \in Files, ContentOf(p) # None
  PROVE  LET size == SizeOf[ContentOf(p)]
             time == mtime[Referent(p)] IN
         /\ Ignored(p, size) # None =>
              ColdEntry(p) = {Entry(p, size, time, None, Ignored(p, size))}
         /\ Ignored(p, size) = None /\ ContentOf(p) \in Binaries =>
              ColdEntry(p) = {Entry(p, size, time, None, "binary")}
         /\ Ignored(p, size) = None /\ ContentOf(p) \notin Binaries =>
              ColdEntry(p) = {Entry(p, size, time, ContentOf(p), None)}
  <1>. DEFINE size == SizeOf[ContentOf(p)]
              time == mtime[Referent(p)]
              reason == IF Ignored(p, size) # None THEN Ignored(p, size)
                        ELSE IF ContentOf(p) \in Binaries THEN "binary" ELSE None
  <1>1. Referent(p) # "outside" /\ Referent(p) # "directory"
    BY PathTypes
  <1>2. Exists(p)
    BY DEF Exists, Referent, ContentOf
  <1>3. ColdEntry(p) = {Entry(p, size, time, IF reason = None THEN ContentOf(p) ELSE None, reason)}
    BY <1>1, <1>2 DEF ColdEntry
  <1>. HIDE DEF size, time
  <1>4. QED
    BY <1>3, NoneIsNoReason DEF size, time

(* An entry that is right about the path that it is of.                    *)
Right(e) ==
  /\ e.reason # "outside_workspace" => Referent(e.path) \in Files
  /\ LinksStay =>
       /\ Stamped(e)
       /\ Referent(e.path) \notin touched => ColdEntry(e.path) = {e}

LEMMA RightOutside ==
  ASSUME NEW p \in Paths, Referent(p) = "outside"
  PROVE  Right(Entry(p, 0, 0, None, "outside_workspace"))
  <1>. DEFINE e == Entry(p, 0, 0, None, "outside_workspace")
  <1>1. e.path = p /\ e.hash = None /\ e.reason = "outside_workspace"
    BY DEF Entry
  <1>2. ColdEntry(p) = {e}
    BY DEF ColdEntry
  <1>. HIDE DEF e
  <1>3. Right(e)
    BY <1>1, <1>2, NoneIsNoReason DEF Right, Stamped
  <1>4. QED
    BY <1>3 DEF e

LEMMA RightIgnored ==
  ASSUME TypeOK, NEW p \in Paths, Referent(p) \in Files, ContentOf(p) # None,
         Ignored(p, SizeOf[ContentOf(p)]) # None
  PROVE  Right(Entry(p, SizeOf[ContentOf(p)], mtime[Referent(p)], None,
                     Ignored(p, SizeOf[ContentOf(p)])))
  <1>. DEFINE size == SizeOf[ContentOf(p)]
              e == Entry(p, size, mtime[Referent(p)], None, Ignored(p, size))
  <1>1. e.path = p /\ e.hash = None /\ e.reason = Ignored(p, size)
    BY DEF Entry
  <1>2. e.reason \in {"ignored", "oversized"}
    BY <1>1, IgnoredTypes
  <1>3. ColdEntry(p) = {e}
    BY ColdFile
  <1>. HIDE DEF e
  <1>4. Right(e)
    BY <1>1, <1>2, <1>3, NoneIsNoReason DEF Right, Stamped
  <1>5. QED
    BY <1>4 DEF e

(* An entry of the saved index that is taken again.                        *)
LEMMA RightReused ==
  ASSUME TypeOK, Stamps, NEW p \in Paths, Referent(p) \in Files, ContentOf(p) # None,
         Ignored(p, SizeOf[ContentOf(p)]) = None,
         NEW e \in Reusable(p, SizeOf[ContentOf(p)], mtime[Referent(p)])
  PROVE  Right(e)
  <1>. DEFINE size == SizeOf[ContentOf(p)]
              time == mtime[Referent(p)]
  <1>1. /\ e \in saved.index /\ e.path = p /\ e.size = size /\ e.mtime = time
        /\ e.reason \in {None, "binary"}
    BY DEF Reusable
  <1>. SUFFICES ASSUME LinksStay
                PROVE  Right(e)
    BY <1>1 DEF Right
  <1>2. e \in Entries /\ Stamped(e)
    BY <1>1 DEF TypeOK, Stamps
  <1>3. Referent(p) \in Targets(p)
    BY TargetOf
  <1>4. /\ e.reason # None => e.hash = None
        /\ e.reason = None => e.hash = ContentOf(p) /\ ContentOf(p) \notin Binaries
        /\ e.reason = "binary" => ContentOf(p) \in Binaries
    BY <1>1, <1>2, <1>3 DEF Stamped, ContentOf
  <1>5. e = Entry(p, size, time, e.hash, e.reason)
    BY <1>1, <1>2 DEF Entries, Entry
  <1>6. ColdEntry(p) = {e}
    <2>1. CASE e.reason = None
      BY <1>4, <1>5, <2>1, ColdFile
    <2>2. CASE e.reason = "binary"
      <3>1. e.hash = None /\ ContentOf(p) \in Binaries
        BY <1>4, <2>2, NoneIsNoReason
      <3>2. QED
        BY <1>5, <2>2, <3>1, ColdFile
    <2>3. QED
      BY <1>1, <2>1, <2>2
  <1>7. QED
    BY <1>1, <1>2, <1>6 DEF Right

(* An entry that an inspection makes after it has had its stat.            *)
LEMMA RightBinary ==
  ASSUME TypeOK, NEW i \in inspected, InspectionStamped(i), i.at = "sample",
         ContentOf(i.path) # None, ContentOf(i.path) \in Binaries
  PROVE  Right(Entry(i.path, i.size, i.mtime, None, "binary"))
  <1>. DEFINE p == i.path
              e == Entry(p, i.size, i.mtime, None, "binary")
  <1>1. /\ Referent(p) \in Files /\ p \in Paths /\ i.mtime <= mtime[Referent(p)]
        /\ Ignored(p, i.size) = None
        /\ Referent(p) \notin touched => i.mtime = mtime[Referent(p)]
        /\ i.mtime = mtime[Referent(p)] =>
             content[Referent(p)] # None /\ i.size = SizeOf[content[Referent(p)]]
    BY InspectionTypes DEF InspectionStamped
  <1>2. /\ e.path = p /\ e.hash = None /\ e.reason = "binary" /\ e.size = i.size
        /\ e.mtime = i.mtime
    BY DEF Entry
  <1>3. LinksStay => Targets(p) = {Referent(p)}
    BY <1>1, TargetOf
  <1>4. Referent(p) \notin touched => ColdEntry(p) = {e}
    BY <1>1, ColdFile DEF ContentOf
  <1>. HIDE DEF e
  <1>5. LinksStay => Stamped(e)
    BY <1>1, <1>2, <1>3, NoneIsNoReason DEF Stamped, ContentOf
  <1>6. Right(e)
    BY <1>1, <1>2, <1>4, <1>5 DEF Right
  <1>7. QED
    BY <1>6 DEF e

LEMMA RightRead ==
  ASSUME TypeOK, NEW i \in inspected, InspectionStamped(i), i.at = "read",
         ContentOf(i.path) # None
  PROVE  Right(Entry(i.path, i.size, i.mtime, ContentOf(i.path), None))
  <1>. DEFINE p == i.path
              e == Entry(p, i.size, i.mtime, ContentOf(p), None)
  <1>1. /\ Referent(p) \in Files /\ p \in Paths /\ i.mtime <= mtime[Referent(p)]
        /\ Ignored(p, i.size) = None
        /\ Referent(p) \notin touched => i.mtime = mtime[Referent(p)]
        /\ i.mtime = mtime[Referent(p)] =>
             /\ content[Referent(p)] # None /\ i.size = SizeOf[content[Referent(p)]]
             /\ content[Referent(p)] \notin Binaries
    BY InspectionTypes DEF InspectionStamped
  <1>2. /\ e.path = p /\ e.hash = ContentOf(p) /\ e.reason = None /\ e.size = i.size
        /\ e.mtime = i.mtime
    BY DEF Entry
  <1>3. LinksStay => Targets(p) = {Referent(p)}
    BY <1>1, TargetOf
  <1>4. Referent(p) \notin touched => ColdEntry(p) = {e}
    BY <1>1, ColdFile DEF ContentOf
  <1>. HIDE DEF e
  <1>5. LinksStay => Stamped(e)
    BY <1>1, <1>2, <1>3, NoneIsNoReason DEF Stamped, ContentOf
  <1>6. Right(e)
    BY <1>1, <1>2, <1>4, <1>5 DEF Right
  <1>7. QED
    BY <1>6 DEF e

(* As long as the files, the options and the edits of the session are the  *)
(* same, what is right stays right.                                        *)
LEMMA SameView ==
  ASSUME UNCHANGED <<content, mtime, options, touched>>
  PROVE  /\ \A e : Stamped(e)' = Stamped(e)
         /\ \A p : Referent(p)' = Referent(p) /\ ContentOf(p)' = ContentOf(p)
         /\ \A p : ColdEntry(p)' = ColdEntry(p)
         /\ \A i : InspectionStamped(i)' = InspectionStamped(i)
  <1>1. \A e : Stamped(e)' = Stamped(e)
    BY DEF Stamped
  <1>2. \A p : /\ Referent(p)' = Referent(p) /\ ContentOf(p)' = ContentOf(p)
               /\ Exists(p)' = Exists(p)
    BY DEF Referent, ContentOf, Exists
  <1>3. \A p, size : Ignored(p, size)' = Ignored(p, size)
    BY DEF Ignored
  <1>4. \A p : ColdEntry(p)' = ColdEntry(p)
    BY <1>2, <1>3 DEF ColdEntry
  <1>5. \A i : InspectionStamped(i)' = InspectionStamped(i)
    BY <1>2, <1>3 DEF InspectionStamped
  <1>6. QED
    BY <1>1, <1>2, <1>4, <1>5

LEMMA FreshWorker ==
  ASSUME Typed, Fresh, NEW i \in inspected,
         Resolve(i) \/ Stat(i) \/ Sample(i) \/ Read(i)
  PROVE  Fresh'
  <1>1. TypeOK /\ i.path \in Paths /\ InspectionStamped(i) /\ Stamps
    BY InspectionTypes DEF Typed, Fresh, InspectionsStamped
  <1>2. i.at # "resolve" => Referent(i.path) \in Files
    BY <1>1 DEF InspectionStamped
  <1>3. ASSUME WorkerStep(i), \/ Ends(i)
                              \/ \E e : Finds(i, e) /\ Right(e)
                              \/ \E next : GoesOn(i, next) /\ InspectionStamped(next)
        PROVE  Fresh'
    <2>1. UNCHANGED <<content, mtime, options, touched, saved>>
      BY <1>3 DEF WorkerStep, InspectionUnchanged, user, history
    <2>2. /\ \A e : Stamped(e)' = Stamped(e)
          /\ \A p : Referent(p)' = Referent(p)
          /\ \A p : ColdEntry(p)' = ColdEntry(p)
          /\ \A j : InspectionStamped(j)' = InspectionStamped(j)
      BY <2>1, SameView
    <2>3. /\ \A e \in files' : e \in files \/ Right(e)
          /\ \A j \in inspected' : j \in inspected \/ InspectionStamped(j)
      BY <1>3 DEF Ends, Finds, GoesOn
    <2>4. LinksStay => \A e \in saved.index : Stamped(e)
      BY DEF Fresh, Stamps
    <2>5. \A e \in files : Right(e)
      BY DEF Fresh, Stamps, Located, Current, Right
    <2>6. \A j \in inspected : InspectionStamped(j)
      BY DEF Fresh, InspectionsStamped
    <2>7. \A e \in files' : Right(e)
      BY <2>3, <2>5
    <2>8. Stamps'
      BY <2>1, <2>2, <2>4, <2>7 DEF Stamps, Right
    <2>9. InspectionsStamped'
      BY <2>2, <2>3, <2>6 DEF InspectionsStamped
    <2>10. Located' /\ Current'
      BY <2>1, <2>2, <2>7 DEF Located, Current, Right
    <2>11. QED
      BY <2>8, <2>9, <2>10 DEF Fresh
  <1>4. CASE Resolve(i)
    <2>1. WorkerStep(i)
      BY <1>1, <1>4, ResolveStep
    <2>2. CASE /\ Referent(i.path) = "outside"
               /\ Finds(i, Entry(i.path, 0, 0, None, "outside_workspace"))
      BY <1>1, <1>3, <2>1, <2>2, RightOutside
    <2>3. CASE Ends(i)
      BY <1>3, <2>1, <2>3
    <2>4. CASE Referent(i.path) \in Files /\ GoesOn(i, [at |-> "stat", path |-> i.path])
      <3>1. InspectionStamped([at |-> "stat", path |-> i.path])
        BY <2>4 DEF InspectionStamped
      <3>2. QED
        BY <1>3, <2>1, <2>4, <3>1
    <2>5. QED
      BY <1>1, <1>4, <2>2, <2>3, <2>4, ResolveStep
  <1>5. CASE Stat(i)
    <2>. DEFINE p == i.path
                size == SizeOf[ContentOf(p)]
                time == mtime[Referent(p)]
                next == [at |-> "sample", path |-> p, size |-> size, mtime |-> time]
    <2>1. Referent(p) \in Files
      BY <1>2, <1>5 DEF Stat
    <2>2. WorkerStep(i) /\ ContentOf(p) # None
      BY <1>1, <1>5, <2>1, StatStep
    <2>3. CASE Ends(i)
      BY <1>3, <2>2, <2>3
    <2>4. CASE /\ Ignored(p, size) # None
               /\ Finds(i, Entry(p, size, time, None, Ignored(p, size)))
      BY <1>1, <1>3, <2>1, <2>2, <2>4, RightIgnored
    <2>5. CASE /\ Ignored(p, size) = None
               /\ \E e \in Reusable(p, size, time) : Finds(i, e)
      <3>1. PICK e \in Reusable(p, size, time) : Finds(i, e)
        BY <2>5
      <3>2. Right(e)
        BY <1>1, <2>1, <2>2, <2>5, RightReused
      <3>3. QED
        BY <1>3, <2>2, <3>1, <3>2
    <2>6. CASE Ignored(p, size) = None /\ GoesOn(i, next)
      <3>1. next.at = "sample" /\ next.path = p /\ next.size = size /\ next.mtime = time
        OBVIOUS
      <3>2. time \in Nat
        BY <1>1, <2>1, ReferentTypes
      <3>. HIDE DEF next
      <3>3. InspectionStamped(next)
        BY <2>1, <2>2, <2>6, <3>1, <3>2 DEF InspectionStamped, ContentOf
      <3>4. QED
        BY <1>3, <2>2, <2>6, <3>3
    <2>7. QED
      BY <1>1, <1>5, <2>1, <2>3, <2>4, <2>5, <2>6, StatStep
  <1>6. CASE Sample(i)
    <2>. DEFINE next == [at |-> "read", path |-> i.path, size |-> i.size, mtime |-> i.mtime]
    <2>1. i.at = "sample" /\ Referent(i.path) \in Files
      BY <1>2, <1>6 DEF Sample
    <2>2. WorkerStep(i) /\ ContentOf(i.path) # None
      BY <1>1, <1>6, <2>1, SampleStep
    <2>3. CASE /\ ContentOf(i.path) \in Binaries
               /\ Finds(i, Entry(i.path, i.size, i.mtime, None, "binary"))
      BY <1>1, <1>3, <2>1, <2>2, <2>3, RightBinary
    <2>4. CASE Ends(i)
      BY <1>3, <2>2, <2>4
    <2>5. CASE ContentOf(i.path) \notin Binaries /\ GoesOn(i, next)
      <3>1. /\ next.at = "read" /\ next.path = i.path /\ next.size = i.size
            /\ next.mtime = i.mtime
        OBVIOUS
      <3>. HIDE DEF next
      <3>2. InspectionStamped(next)
        BY <1>1, <2>1, <2>5, <3>1 DEF InspectionStamped, ContentOf
      <3>3. QED
        BY <1>3, <2>2, <2>5, <3>2
    <2>6. QED
      BY <1>1, <1>6, <2>1, <2>3, <2>4, <2>5, SampleStep
  <1>7. CASE Read(i)
    <2>1. i.at = "read" /\ Referent(i.path) \in Files
      BY <1>2, <1>7 DEF Read
    <2>2. /\ WorkerStep(i) /\ ContentOf(i.path) # None
          /\ Finds(i, Entry(i.path, i.size, i.mtime, ContentOf(i.path), None))
      BY <1>1, <1>7, <2>1, ReadStep
    <2>3. Right(Entry(i.path, i.size, i.mtime, ContentOf(i.path), None))
      BY <1>1, <2>1, <2>2, RightRead
    <2>4. QED
      BY <1>3, <2>2, <2>3
  <1>8. QED
    BY <1>4, <1>5, <1>6, <1>7

(* An edit makes what is known of the file older than the file.            *)
LEMMA FreshEdit ==
  ASSUME Typed, Fresh, NEW f \in Files, Edit(f)
  PROVE  Fresh'
  <1>1. TypeOK
    BY DEF Typed
  <1>. DEFINE edits == Max({mtime[g] : g \in Files})
  <1>2. edits \in 0 .. MaxEdits /\ \A g \in Files : mtime[g] <= edits
    BY <1>1, LatestTime
  <1>. HIDE DEF edits
  <1>3. /\ \A g \in Files : g # f => content'[g] = content[g] /\ mtime'[g] = mtime[g]
        /\ mtime'[f] = edits + 1
        /\ UNCHANGED <<saved, stage, options, inspected, files>>
        /\ stage # "idle" => touched' = touched \cup {f}
        /\ stage = "idle" => inspected = {} /\ files = {}
        /\ touched' = touched \/ touched' = touched \cup {f}
    BY <1>1 DEF Edit, edits, discovery, shared, TypeOK, Typed, IdleIsEmpty
  <1>4. \A p : Referent(p)' = Referent(p)
    BY <1>3 DEF Referent
  <1>5. \A g \in Files : /\ mtime[g] \in Nat /\ mtime[g] <= mtime'[g]
                         /\ mtime'[g] \in Nat /\ (g = f => mtime[g] < mtime'[g])
    BY <1>1, <1>2, <1>3 DEF TypeOK
  <1>6. ASSUME NEW e \in Entries, Stamped(e)
        PROVE  Stamped(e)'
    <2>1. e.path \in Paths /\ e.mtime \in Nat /\ Targets(e.path) \subseteq Files
      BY TargetTypes DEF Entries
    <2>2. SUFFICES ASSUME e.reason \in {None, "binary"}, NEW g \in Targets(e.path)
                   PROVE  /\ e.mtime <= mtime'[g]
                          /\ e.mtime = mtime'[g] =>
                               /\ content'[g] # None /\ e.size = SizeOf[content'[g]]
                               /\ e.reason = None => e.hash = content'[g] /\ content'[g] \notin Binaries
                               /\ e.reason = "binary" => content'[g] \in Binaries
      BY <1>6 DEF Stamped
    <2>3. g \in Files /\ e.mtime <= mtime[g] /\ mtime[g] \in Nat
      BY <1>5, <1>6, <2>1, <2>2 DEF Stamped
    <2>4. CASE g = f
      BY <1>5, <2>1, <2>3, <2>4
    <2>5. CASE g # f
      BY <1>3, <1>6, <2>2, <2>3, <2>5 DEF Stamped
    <2>6. QED
      BY <2>4, <2>5
  <1>7. Stamps'
    <2>1. saved.index \cup files \subseteq Entries
      BY <1>1 DEF TypeOK
    <2>2. QED
      BY <1>3, <1>6, <2>1 DEF Fresh, Stamps
  <1>8. ASSUME NEW i \in inspected
        PROVE  InspectionStamped(i)'
    <2>. DEFINE r == Referent(i.path)
    <2>1. InspectionStamped(i) /\ stage # "idle" /\ touched' = touched \cup {f}
      BY <1>3, <1>8 DEF Fresh, InspectionsStamped
    <2>2. i.at \in {"sample", "read"} =>
            /\ r \in Files /\ i.mtime \in Nat /\ i.mtime <= mtime[r]
            /\ Ignored(i.path, i.size) = None
      BY <1>1, <2>1, InspectionTypes DEF InspectionStamped
    <2>3. Ignored(i.path, i.size)' = Ignored(i.path, i.size)
      BY <1>3 DEF Ignored
    <2>4. i.at \in {"resolve", "stat"} => InspectionStamped(i)'
      BY <1>3, <1>4, <2>1 DEF InspectionStamped
    <2>5. CASE i.at \in {"sample", "read"} /\ r = f
      <3>1. i.mtime < mtime'[r] /\ mtime'[r] \in Nat
        BY <1>5, <2>2, <2>5
      <3>2. r \in touched'
        BY <2>1, <2>5
      <3>3. QED
        BY <1>4, <2>2, <2>3, <2>5, <3>1, <3>2 DEF InspectionStamped
    <2>6. CASE i.at \in {"sample", "read"} /\ r # f
      <3>1. content'[r] = content[r] /\ mtime'[r] = mtime[r]
        BY <1>3, <2>2, <2>6
      <3>2. r \notin touched' => r \notin touched
        BY <2>1
      <3>3. QED
        BY <1>4, <2>1, <2>2, <2>3, <2>6, <3>1, <3>2 DEF InspectionStamped
    <2>7. i.at \in {"resolve", "stat", "sample", "read"}
      BY <1>1, InspectionTypes
    <2>8. QED
      BY <2>4, <2>5, <2>6, <2>7
  <1>9. InspectionsStamped'
    BY <1>3, <1>8 DEF InspectionsStamped
  <1>10. Located'
    BY <1>3, <1>4 DEF Fresh, Located
  <1>11. Current'
    <2>1. SUFFICES ASSUME LinksStay, NEW e \in files, Referent(e.path) \notin touched'
                   PROVE  ColdEntry(e.path)' = {e}
      BY <1>3, <1>4 DEF Current
    <2>. DEFINE p == e.path
    <2>2. p \in Paths /\ stage # "idle"
      BY <1>1, <1>3 DEF TypeOK, Entries
    <2>3. Referent(p) # f /\ Referent(p) \notin touched
      BY <1>3, <2>1, <2>2
    <2>4. ColdEntry(p) = {e}
      BY <2>1, <2>3 DEF Fresh, Current
    <2>5. CASE Referent(p) \in Files
      <3>1. ContentOf(p)' = ContentOf(p) /\ mtime'[Referent(p)] = mtime[Referent(p)]
        BY <1>3, <1>4, <2>3, <2>5 DEF ContentOf
      <3>2. Exists(p)' = Exists(p)
        BY <1>3, <2>2, <2>3, <2>5, ReferentTypes DEF Exists, Referent
      <3>3. \A size : Ignored(p, size)' = Ignored(p, size)
        BY <1>3 DEF Ignored
      <3>4. QED
        BY <1>4, <2>4, <3>1, <3>2, <3>3 DEF ColdEntry
    <2>6. CASE Referent(p) \notin Files
      <3>1. Referent(p) = "outside" \/ Referent(p) = "directory"
        BY <1>1, <2>2, <2>6, ReferentTypes
      <3>2. QED
        BY <1>4, <2>4, <3>1 DEF ColdEntry
    <2>7. QED
      BY <2>5, <2>6
  <1>12. QED
    BY <1>7, <1>9, <1>10, <1>11 DEF Fresh

LEMMA FreshLeave ==
  ASSUME Typed, Fresh, Leave, UNCHANGED user, saved'.index = saved.index
  PROVE  Fresh'
  <1>1. files' = {} /\ inspected' = {} /\ UNCHANGED <<content, mtime>>
    BY DEF Leave, user
  <1>2. \A e : Stamped(e)' = Stamped(e)
    BY <1>1 DEF Stamped
  <1>3. QED
    BY <1>1, <1>2 DEF Fresh, Stamps, InspectionsStamped, Located, Current

LEMMA NextFresh ==
  ASSUME Typed, Fresh, [Next]_vars
  PROVE  Fresh'
  <1>1. CASE Start
    <2>1. /\ files' = {} /\ inspected' = {} /\ UNCHANGED <<content, mtime, saved>>
      BY <1>1 DEF Start, Typed, IdleIsEmpty, shared, user
    <2>2. \A e : Stamped(e)' = Stamped(e)
      BY <2>1 DEF Stamped
    <2>3. QED
      BY <2>1, <2>2 DEF Fresh, Stamps, InspectionsStamped, Located, Current
  <1>2. ASSUME UNCHANGED <<content, mtime, options, touched, files, inspected>>,
               saved'.index \in {saved.index, files}
        PROVE  Fresh'
    <2>1. /\ \A e : Stamped(e)' = Stamped(e)
          /\ \A p : Referent(p)' = Referent(p)
          /\ \A p : ColdEntry(p)' = ColdEntry(p)
          /\ \A j : InspectionStamped(j)' = InspectionStamped(j)
      BY <1>2, SameView
    <2>2. Stamps'
      BY <1>2, <2>1 DEF Fresh, Stamps
    <2>3. InspectionsStamped' /\ Located' /\ Current'
      BY <1>2, <2>1 DEF Fresh, InspectionsStamped, Located, Current
    <2>4. QED
      BY <2>2, <2>3 DEF Fresh
  <1>3. CASE ReadDirectory \/ Inspect \/ Abort
    BY <1>2, <1>3 DEF ReadDirectory, Inspect, Abort, user, discovery, shared, history
  <1>4. CASE TakeTask
    <2>. DEFINE p == Head(tasks)
                i == [at |-> IF p \in Links THEN "resolve" ELSE "stat", path |-> p]
    <2>1. /\ inspected' = inspected \cup {i}
          /\ UNCHANGED <<content, mtime, options, touched, files, saved>>
      BY <1>4 DEF TakeTask, InspectionUnchanged, user, shared, history
    <2>2. p \in Paths
      BY <1>4 DEF TakeTask, Typed, TypeOK
    <2>3. i.path = p /\ i.at = (IF p \in Links THEN "resolve" ELSE "stat")
      OBVIOUS
    <2>. HIDE DEF i
    <2>4. InspectionStamped(i)
      BY <2>2, <2>3, ReferentTypes DEF InspectionStamped, Typed
    <2>5. /\ \A e : Stamped(e)' = Stamped(e)
          /\ \A q : Referent(q)' = Referent(q)
          /\ \A q : ColdEntry(q)' = ColdEntry(q)
          /\ \A j : InspectionStamped(j)' = InspectionStamped(j)
      BY <2>1, SameView
    <2>6. QED
      BY <2>1, <2>4, <2>5 DEF Fresh, Stamps, InspectionsStamped, Located, Current
  <1>5. ASSUME NEW i \in inspected, Resolve(i) \/ Stat(i) \/ Sample(i) \/ Read(i)
        PROVE  Fresh'
    BY <1>5, FreshWorker
  <1>6. CASE Leave /\ UNCHANGED user /\ saved'.index = saved.index
    BY <1>6, FreshLeave
  <1>7. CASE EndDiscovery
    BY <1>2, <1>6, <1>7 DEF EndDiscovery, HookGivesUp, user
  <1>8. CASE EndAnalysis
    BY <1>2, <1>6, <1>8 DEF EndAnalysis, HookGivesUp, user, discovery, shared
  <1>9. CASE ReuseOrSkip \/ AnalyzeFile
    BY <1>2, <1>9 DEF ReuseOrSkip, AnalyzeFile, Analyzed, user, discovery, shared
  <1>10. CASE SaveIndex
    <2>1. saved'.index = files
      BY <1>10 DEF SaveIndex, Typed, SavedFields
    <2>2. QED
      BY <1>2, <1>10, <2>1 DEF SaveIndex, user, discovery, shared, history
  <1>11. CASE SaveAnalysis
    <2>1. saved'.index = saved.index
      BY <1>11 DEF SaveAnalysis, Typed, SavedFields
    <2>2. QED
      BY <1>6, <1>11, <2>1 DEF SaveAnalysis
  <1>12. CASE Fail \/ \E i \in inspected : Missing(i)
    BY <1>6, <1>12 DEF Fail, Missing
  <1>13. CASE \E f \in Files : Edit(f)
    BY <1>13, FreshEdit
  <1>14. CASE UNCHANGED vars
    BY <1>2, <1>14 DEF vars, user, discovery, shared, history
  <1>15. QED
    BY <1>1, <1>3, <1>4, <1>5, <1>7, <1>8, <1>9, <1>10, <1>11, <1>12, <1>13, <1>14
       DEF Next, SessionStep

-----------------------------------------------------------------------------
(* Nothing is lost.                                                        *)
LEMMA WalkedAll ==
  ASSUME unread = 0
  PROVE  Walked = Paths
  <1>1. Len(Directories) - unread = Len(Directories)
    BY DirectoryTypes
  <1>2. QED
    BY <1>1, DirectoryTypes DEF Walked, Paths

LEMMA SameFindable ==
  ASSUME UNCHANGED <<content, options, touched>>
  PROVE  Findable' = Findable
  <1>1. \A p : Referent(p)' = Referent(p) /\ Exists(p)' = Exists(p)
    BY DEF Referent, Exists
  <1>2. QED
    BY <1>1 DEF Findable

LEMMA CoveredReadDirectory ==
  ASSUME Typed, Covered, ReadDirectory
  PROVE  Covered'
  <1>. DEFINE d == 1 + Len(Directories) - unread
              found == {p \in Paths : Exists(p)}
              listed == Kept(Directories[d], found)
  <1>1. TypeOK /\ tasks \in Seq(Paths)
    BY DEF Typed, TypeOK
  <1>2. /\ unread \in 0 .. Len(Directories) /\ unread > 0 /\ unread' = unread - 1
        /\ stage = "walk"
        /\ UNCHANGED <<content, options, touched, stage, aborted, inspected, files>>
    BY <1>1 DEF ReadDirectory, TypeOK, user, history
  <1>3. d \in 1 .. Len(Directories)
    BY <1>2, DirectoryTypes
  <1>4. listed \in Seq(Paths) /\ ToSet(listed) = ToSet(Directories[d]) \cap found
    BY <1>3, DirectoryTypes, KeptElements
  <1>5. SUFFICES ASSUME warnings' \cap Losses = {}
                 PROVE  Findable' \cap Walked' \subseteq Known'
    BY <1>2 DEF Covered
  <1>6. tasks' = tasks \o listed /\ UNCHANGED warnings
    <2>1. \/ tasks' = tasks \o listed /\ UNCHANGED warnings
          \/ Warned("file_limit")
      BY DEF ReadDirectory
    <2>2. QED
      BY <1>5, <2>1 DEF Warned, Losses
  <1>7. Walked' = Walked \cup ToSet(Directories[d])
    <2>1. Len(Directories) - unread' = d /\ Len(Directories) - unread = d - 1
      BY <1>2, DirectoryTypes
    <2>2. 1 .. d = (1 .. d - 1) \cup {d}
      BY <1>3, DirectoryTypes
    <2>. HIDE DEF d
    <2>3. Walked' = UNION {ToSet(Directories[c]) : c \in 1 .. d}
          /\ Walked = UNION {ToSet(Directories[c]) : c \in 1 .. d - 1}
      BY <2>1 DEF Walked
    <2>4. QED
      BY <2>2, <2>3
  <1>8. Findable' = Findable
    BY <1>2, SameFindable
  <1>9. Findable \cap Walked \subseteq Known
    BY <1>2, <1>5, <1>6 DEF Covered
  <1>10. Findable \subseteq found
    BY DEF Findable
  <1>. HIDE DEF listed, found, d
  <1>11. ToSet(tasks) \cup ToSet(listed) \subseteq ToSet(tasks')
    <2>1. /\ DOMAIN tasks = 1 .. Len(tasks) /\ DOMAIN listed = 1 .. Len(listed)
          /\ Len(tasks) \in Nat /\ Len(listed) \in Nat
      BY <1>1, <1>4
    <2>2. /\ DOMAIN tasks' = 1 .. Len(tasks) + Len(listed)
          /\ \A k \in 1 .. Len(tasks) : tasks'[k] = tasks[k]
          /\ \A k \in 1 .. Len(listed) : tasks'[Len(tasks) + k] = listed[k]
      BY <1>1, <1>4, <1>6
    <2>3. ASSUME NEW k \in 1 .. Len(tasks)
          PROVE  tasks[k] \in ToSet(tasks')
      <3>1. k \in DOMAIN tasks'
        BY <2>1, <2>2
      <3>2. QED
        BY <2>2, <3>1 DEF ToSet
    <2>4. ASSUME NEW k \in 1 .. Len(listed)
          PROVE  listed[k] \in ToSet(tasks')
      <3>1. Len(tasks) + k \in DOMAIN tasks'
        BY <2>1, <2>2
      <3>2. QED
        BY <2>2, <3>1 DEF ToSet
    <2>5. QED
      BY <2>1, <2>3, <2>4 DEF ToSet
  <1>12. Inspecting' = Inspecting /\ PathsOf(files)' = PathsOf(files)
    BY <1>2 DEF Inspecting, PathsOf
  <1>13. QED
    BY <1>4, <1>7, <1>8, <1>9, <1>10, <1>11, <1>12 DEF Known

LEMMA CoveredTakeTask ==
  ASSUME Typed, Covered, TakeTask
  PROVE  Covered'
  <1>. DEFINE p == Head(tasks)
              i == [at |-> IF p \in Links THEN "resolve" ELSE "stat", path |-> p]
  <1>1. /\ inspected' = inspected \cup {i} /\ tasks' = Tail(tasks)
        /\ stage = "inspect" /\ tasks \in Seq(Paths) /\ tasks # <<>>
        /\ UNCHANGED <<content, options, touched, files, warnings, stage, aborted, unread>>
    BY DEF TakeTask, InspectionUnchanged, user, shared, history, Typed, TypeOK
  <1>2. i.path = p
    OBVIOUS
  <1>. HIDE DEF i
  <1>3. ToSet(tasks) \subseteq ToSet(tasks') \cup {p}
    <2>1. /\ DOMAIN tasks = 1 .. Len(tasks) /\ Len(tasks) \in Nat /\ p = tasks[1]
          /\ DOMAIN tasks' = 1 .. Len(tasks) - 1
          /\ \A k \in 1 .. Len(tasks) - 1 : tasks'[k] = tasks[k + 1]
      BY <1>1
    <2>2. ASSUME NEW k \in 1 .. Len(tasks), k # 1
          PROVE  tasks[k] \in ToSet(tasks')
      <3>1. k - 1 \in 1 .. Len(tasks) - 1 /\ (k - 1) + 1 = k
        BY <2>1, <2>2
      <3>2. tasks'[k - 1] = tasks[k] /\ k - 1 \in DOMAIN tasks'
        BY <2>1, <3>1
      <3>3. QED
        BY <3>2 DEF ToSet
    <2>3. QED
      BY <2>1, <2>2 DEF ToSet
  <1>. HIDE DEF p
  <1>4. Inspecting' = Inspecting \cup {p} /\ PathsOf(files)' = PathsOf(files) /\ Walked' = Walked
    BY <1>1, <1>2 DEF Inspecting, PathsOf, Walked
  <1>5. Known \subseteq Known'
    BY <1>3, <1>4 DEF Known
  <1>6. Findable' = Findable
    BY <1>1, SameFindable
  <1>7. QED
    BY <1>1, <1>4, <1>5, <1>6 DEF Covered

LEMMA CoveredWorker ==
  ASSUME Typed, Apart, InspectionsStamped, Covered, NEW i \in inspected,
         Resolve(i) \/ Stat(i) \/ Sample(i) \/ Read(i)
  PROVE  Covered'
  <1>1. TypeOK /\ stage = "inspect"
    BY DEF Typed, WorkersStaged
  <1>2. i.at # "resolve" => Referent(i.path) \in Files
    BY DEF InspectionsStamped, InspectionStamped
  <1>3. /\ WorkerStep(i)
        /\ \/ Ends(i) /\ warnings' \cap Losses # {}
           \/ Ends(i) /\ Referent(i.path) = "directory"
           \/ \E e : Finds(i, e)
           \/ \E next : GoesOn(i, next)
    <2>1. CASE Resolve(i)
      BY <1>1, <2>1, ResolveStep
    <2>2. CASE Stat(i)
      <3>1. Referent(i.path) \in Files
        BY <1>2, <2>2 DEF Stat
      <3>2. QED
        BY <1>1, <2>2, <3>1, StatStep
    <2>3. CASE Sample(i)
      <3>1. Referent(i.path) \in Files
        BY <1>2, <2>3 DEF Sample
      <3>2. QED
        BY <1>1, <2>3, <3>1, SampleStep
    <2>4. CASE Read(i)
      <3>1. Referent(i.path) \in Files
        BY <1>2, <2>4 DEF Read
      <3>2. QED
        BY <1>1, <2>4, <3>1, ReadStep
    <2>5. QED
      BY <2>1, <2>2, <2>3, <2>4
  <1>4. /\ UNCHANGED <<content, options, touched, tasks, stage, aborted, unread>>
        /\ warnings \subseteq warnings'
    BY <1>3 DEF WorkerStep, InspectionUnchanged, user, history
  <1>5. Findable' = Findable /\ Walked' = Walked
    BY <1>4, SameFindable DEF Walked
  <1>6. {j.path : j \in inspected \ {i}} = Inspecting \ {i.path} /\ i.path \in Inspecting
    BY OtherInspections
  <1>7. SUFFICES ASSUME warnings' \cap Losses = {}
                 PROVE  Findable \cap Walked \subseteq Known'
    BY <1>1, <1>4, <1>5 DEF Covered
  <1>8. Findable \cap Walked \subseteq Known
    BY <1>1, <1>4, <1>7 DEF Covered
  <1>9. CASE Ends(i) /\ Referent(i.path) = "directory"
    <2>1. Inspecting' = Inspecting \ {i.path} /\ PathsOf(files)' = PathsOf(files)
      BY <1>6, <1>9 DEF Ends, Inspecting, PathsOf
    <2>2. i.path \notin Findable
      BY <1>9 DEF Findable
    <2>3. QED
      BY <1>4, <1>8, <2>1, <2>2 DEF Known
  <1>10. CASE \E e : Finds(i, e)
    <2>1. Inspecting' = Inspecting \ {i.path} /\ PathsOf(files)' = PathsOf(files) \cup {i.path}
      BY <1>6, <1>10 DEF Finds, Inspecting, PathsOf
    <2>2. QED
      BY <1>4, <1>8, <2>1 DEF Known
  <1>11. CASE \E next : GoesOn(i, next)
    <2>1. PICK next : GoesOn(i, next)
      BY <1>11
    <2>2. inspected' = (inspected \ {i}) \cup {next} /\ next.path = i.path /\ UNCHANGED files
      BY <2>1 DEF GoesOn
    <2>3. Inspecting' = {j.path : j \in inspected \ {i}} \cup {i.path}
      BY <2>2 DEF Inspecting
    <2>4. PathsOf(files)' = PathsOf(files)
      BY <2>2 DEF PathsOf
    <2>5. QED
      BY <1>4, <1>6, <1>8, <2>3, <2>4 DEF Known
  <1>12. QED
    BY <1>3, <1>7, <1>9, <1>10, <1>11

LEMMA NextCovered ==
  ASSUME Typed, Apart, InspectionsStamped, Covered, [Next]_vars
  PROVE  Covered'
  <1>1. CASE Start
    <2>1. stage' = "walk" /\ unread' = Len(Directories)
      BY <1>1 DEF Start
    <2>2. Walked' = {}
      <3>1. 1 .. Len(Directories) - unread' = {}
        BY <2>1, DirectoryTypes
      <3>2. QED
        BY <3>1 DEF Walked
    <2>3. QED
      BY <2>1, <2>2 DEF Covered
  <1>2. CASE ReadDirectory
    BY <1>2, CoveredReadDirectory
  <1>3. CASE TakeTask
    BY <1>3, CoveredTakeTask
  <1>4. ASSUME NEW i \in inspected, Resolve(i) \/ Stat(i) \/ Sample(i) \/ Read(i)
        PROVE  Covered'
    BY <1>4, CoveredWorker
  <1>5. CASE stage' \in {"idle", "save_analysis"}
    BY <1>5 DEF Covered
  <1>6. ASSUME UNCHANGED <<tasks, inspected, files, unread>>
        PROVE  Known' = Known /\ Walked' = Walked /\ PathsOf(files)' = PathsOf(files)
    BY <1>6 DEF Known, Inspecting, PathsOf, Walked
  <1>7. CASE Inspect
    <2>1. /\ UNCHANGED <<content, options, touched, tasks, inspected, files, unread, warnings, aborted>>
          /\ stage = "walk" /\ stage' = "inspect"
          /\ unread = 0 \/ aborted \/ "file_limit" \in warnings
      BY <1>7 DEF Inspect, user, discovery, shared, history
    <2>2. QED
      BY <1>6, <2>1, SameFindable DEF Covered, Losses
  <1>8. CASE EndDiscovery
    <2>1. CASE HookGivesUp
      BY <1>5, <2>1 DEF HookGivesUp, Leave
    <2>2. CASE ~HookGivesUp
      <3>1. /\ stage = "inspect" /\ inspected = {} /\ stage' = "analyze"
            /\ tasks = <<>> \/ aborted
            /\ aborted => "cancelled" \in warnings'
            /\ warnings \subseteq warnings'
            /\ UNCHANGED <<content, options, touched, tasks, inspected, files, unread>>
        BY <1>8, <2>2 DEF EndDiscovery, WorkersDone, Warned, user
      <3>2. SUFFICES ASSUME warnings' \cap Losses = {}
                     PROVE  Findable' \subseteq PathsOf(files)'
        BY <3>1 DEF Covered
      <3>3. ~aborted /\ tasks = <<>> /\ warnings \cap Losses = {}
        BY <3>1, <3>2 DEF Losses
      <3>4. unread = 0 /\ Findable \cap Walked \subseteq Known
        BY <3>1, <3>3 DEF Covered
      <3>5. Known = PathsOf(files)
        BY <3>1, <3>3 DEF Known, Inspecting, ToSet
      <3>6. Findable \subseteq Paths
        BY DEF Findable
      <3>7. QED
        BY <1>6, <3>1, <3>4, <3>5, <3>6, WalkedAll, SameFindable
    <2>3. QED
      BY <2>1, <2>2
  <1>9. ASSUME UNCHANGED <<content, options, touched, tasks, inspected, files, unread, warnings>>,
               \/ stage' = stage
               \/ stage = "analyze" /\ stage' = "save_index",
               aborted => aborted'
        PROVE  Covered'
    BY <1>6, <1>9, SameFindable DEF Covered
  <1>10. CASE ReuseOrSkip \/ AnalyzeFile
    BY <1>9, <1>10 DEF ReuseOrSkip, AnalyzeFile, Analyzed, user, discovery, shared
  <1>11. CASE EndAnalysis
    <2>1. CASE HookGivesUp
      BY <1>5, <2>1 DEF HookGivesUp, Leave
    <2>2. CASE ~HookGivesUp
      BY <1>9, <1>11, <2>2 DEF EndAnalysis, user, discovery, shared
    <2>3. QED
      BY <2>1, <2>2
  <1>12. CASE SaveIndex \/ SaveAnalysis \/ Fail \/ \E i \in inspected : Missing(i)
    BY <1>5, <1>12 DEF SaveIndex, SaveAnalysis, Fail, Missing, Leave
  <1>13. CASE Abort
    BY <1>9, <1>13 DEF Abort, user, discovery, shared, history
  <1>14. ASSUME NEW f \in Files, Edit(f)
         PROVE  Covered'
    <2>1. CASE stage = "idle"
      BY <1>5, <1>14, <2>1 DEF Edit
    <2>2. CASE stage # "idle"
      <3>1. /\ UNCHANGED <<options, tasks, inspected, files, unread, warnings, stage, aborted>>
            /\ touched' = touched \cup {f}
            /\ \A g \in Files : g # f => content'[g] = content[g]
        BY <1>14, <2>2 DEF Edit, discovery, shared, Typed, TypeOK
      <3>2. ASSUME NEW p \in Findable'
            PROVE  p \in Findable
        <4>1. Referent(p)' = Referent(p)
          BY <3>1 DEF Referent
        <4>2. /\ p \in Paths /\ Referent(p) \notin touched /\ Referent(p) # f
              /\ Referent(p) # "directory" /\ Exists(p)'
          BY <3>1, <4>1 DEF Findable
        <4>3. Exists(p)
          <5>1. CASE p \in Links
            BY <5>1 DEF Exists
          <5>2. CASE p \notin Links
            BY <3>1, <4>2, <5>2, PathTypes DEF Exists, Referent
          <5>3. QED
            BY <5>1, <5>2
        <4>4. QED
          BY <4>2, <4>3 DEF Findable
      <3>3. QED
        BY <1>6, <3>1, <3>2 DEF Covered
    <2>3. QED
      BY <2>1, <2>2
  <1>15. CASE UNCHANGED vars
    BY <1>9, <1>15 DEF vars, user, discovery, shared, history
  <1>16. QED
    BY <1>1, <1>2, <1>3, <1>4, <1>7, <1>8, <1>10, <1>11, <1>12, <1>13, <1>14, <1>15
       DEF Next, SessionStep

-----------------------------------------------------------------------------
(* What is analyzed is what the hash is of.                                *)

(* A file that is left alone still has the content that its entry names.   *)
LEMMA HashOfContent ==
  ASSUME LinksStay, Typed, Fresh, Disturbed, NEW e \in files, e.reason = None, e.path \notin disturbed
  PROVE  e.hash = ContentOf(e.path)
  <1>. DEFINE p == e.path
  <1>1. TypeOK /\ p \in Paths
    BY DEF Typed, TypeOK, Entries
  <1>2. Referent(p) \in Files /\ Referent(p) \notin touched
    BY <1>1, NoneIsNoReason DEF Fresh, Located, Disturbed
  <1>3. ColdEntry(p) = {e}
    BY <1>2 DEF Fresh, Current
  <1>4. Referent(p) # "outside" /\ Referent(p) # "directory"
    BY <1>2, PathTypes
  <1>. DEFINE size == SizeOf[ContentOf(p)]
              reason == IF Ignored(p, size) # None THEN Ignored(p, size)
                        ELSE IF ContentOf(p) \in Binaries THEN "binary" ELSE None
              hash == IF reason = None THEN ContentOf(p) ELSE None
  <1>5. e = Entry(p, size, mtime[Referent(p)], hash, reason)
    BY <1>3, <1>4 DEF ColdEntry
  <1>. HIDE DEF hash, reason, size
  <1>6. e.reason = reason /\ e.hash = hash
    BY <1>5 DEF Entry
  <1>7. QED
    BY <1>6 DEF hash

LEMMA HonestAnalyzed ==
  ASSUME Typed, Honest, pending # <<>>, disturbed \subseteq disturbed',
         NEW of, Analyzed(EntryOf(Head(pending)), of),
         LET e == EntryOf(Head(pending)) IN
           (LinksStay /\ e.reason = None /\ e.path \notin disturbed') => of = e.hash
  PROVE  Honest'
  <1>. DEFINE p == Head(pending)
              e == EntryOf(p)
  <1>1. /\ TypeOK /\ Disturbed /\ Analyzable
        /\ LinksStay => Truthful(saved.analysis) /\ Truthful(analysis)
    BY DEF Typed, Honest
  <1>2. ToSet(Tail(pending)) \subseteq ToSet(pending)
    BY <1>1, EntryOfPending
  <1>. HIDE DEF e
  <1>3. /\ analysis' = [q \in DOMAIN analysis \cup {e.path} |->
              IF q = e.path THEN [hash |-> e.hash, reason |-> e.reason, of |-> of] ELSE analysis[q]]
        /\ pending' = Tail(pending)
        /\ UNCHANGED <<saved, options, files, touched>>
    BY DEF Analyzed, e, discovery, shared
  <1>4. LinksStay /\ e.reason = None /\ e.path \notin disturbed' => of = e.hash
    BY DEF e
  <1>5. LinksStay => Truthful(analysis)'
    BY <1>1, <1>3, <1>4 DEF Truthful
  <1>6. LinksStay => Truthful(saved.analysis)'
    BY <1>1, <1>3 DEF Truthful
  <1>7. Disturbed'
    BY <1>1, <1>3 DEF Disturbed, Referent
  <1>8. Analyzable'
    BY <1>1, <1>2, <1>3 DEF Analyzable, PathsOf
  <1>9. QED
    BY <1>5, <1>6, <1>7, <1>8 DEF Honest

LEMMA NextHonest ==
  ASSUME Typed, Fresh, Honest, [Next]_vars
  PROVE  Honest'
  <1>1. /\ TypeOK /\ Disturbed /\ Analyzable
        /\ LinksStay => Truthful(saved.analysis) /\ Truthful(analysis)
    BY DEF Typed, Honest
  <1>2. ASSUME UNCHANGED <<options, touched, disturbed, analysis, pending>>,
               saved'.analysis = saved.analysis, files \subseteq files'
        PROVE  Honest'
    <2>1. Disturbed'
      BY <1>1, <1>2 DEF Disturbed, Referent
    <2>2. LinksStay => Truthful(saved.analysis)' /\ Truthful(analysis)'
      BY <1>1, <1>2 DEF Truthful
    <2>3. Analyzable'
      BY <1>1, <1>2 DEF Analyzable, PathsOf
    <2>4. QED
      BY <2>1, <2>2, <2>3 DEF Honest
  <1>3. CASE /\ touched' = {} /\ pending' = <<>> /\ analysis' = <<>> /\ UNCHANGED disturbed
             /\ saved'.analysis \in {saved.analysis, analysis}
    <2>1. Disturbed'
      BY <1>3 DEF Disturbed
    <2>2. LinksStay => Truthful(saved.analysis)'
      BY <1>1, <1>3 DEF Truthful
    <2>3. Truthful(analysis)' /\ Analyzable'
      BY <1>3 DEF Truthful, Analyzable, ToSet
    <2>4. QED
      BY <2>1, <2>2, <2>3 DEF Honest
  <1>4. CASE Start
    BY <1>3, <1>4 DEF Start, Typed, IdleIsEmpty, analyzing, history
  <1>5. CASE Leave /\ UNCHANGED <<saved, disturbed>>
    BY <1>3, <1>5 DEF Leave
  <1>6. CASE ReadDirectory \/ Inspect \/ Abort
    BY <1>2, <1>6 DEF ReadDirectory, Inspect, Abort, discovery, shared, analyzing, history
  <1>7. CASE TakeTask
    BY <1>2, <1>7 DEF TakeTask, InspectionUnchanged, shared, analyzing, history
  <1>8. ASSUME NEW i \in inspected, Resolve(i) \/ Stat(i) \/ Sample(i) \/ Read(i)
        PROVE  Honest'
    <2>1. InspectionsStamped
      BY DEF Fresh
    <2>2. /\ WorkerStep(i)
          /\ Ends(i) \/ (\E e : Finds(i, e)) \/ (\E next : GoesOn(i, next))
      BY <1>1, <1>8, <2>1, WorkerShape
    <2>3. files \subseteq files'
      BY <2>2 DEF Ends, Finds, GoesOn
    <2>4. QED
      BY <1>2, <2>2, <2>3 DEF WorkerStep, InspectionUnchanged, analyzing, history
  <1>9. CASE EndDiscovery
    <2>1. CASE HookGivesUp
      BY <1>5, <1>9, <2>1 DEF EndDiscovery, HookGivesUp
    <2>2. CASE ~HookGivesUp
      <3>1. /\ pending' = InOrder(PathsOf(files))
            /\ UNCHANGED <<saved, options, touched, disturbed, analysis, files>>
        BY <1>9, <2>2 DEF EndDiscovery
      <3>2. ToSet(pending') \subseteq PathsOf(files)
        BY <3>1, OrderType, KeptElements DEF InOrder
      <3>3. Analyzable'
        BY <3>1, <3>2 DEF Analyzable, PathsOf
      <3>4. Disturbed'
        BY <1>1, <3>1 DEF Disturbed, Referent
      <3>5. LinksStay => Truthful(saved.analysis)' /\ Truthful(analysis)'
        BY <1>1, <3>1 DEF Truthful
      <3>6. QED
        BY <3>3, <3>4, <3>5 DEF Honest
    <2>3. QED
      BY <2>1, <2>2
  <1>10. CASE ReuseOrSkip
    <2>. DEFINE e == EntryOf(Head(pending))
    <2>1. pending # <<>> /\ UNCHANGED disturbed
      BY <1>10 DEF ReuseOrSkip
    <2>2. e \in Entries /\ e.path \in Paths
      BY <1>1, <2>1, EntryOfPending
    <2>3. CASE AnalysisReusable(e) /\ Analyzed(e, saved.analysis[e.path].of)
      <3>1. /\ e.path \in DOMAIN saved.analysis
            /\ saved.analysis[e.path].hash = e.hash /\ saved.analysis[e.path].reason = e.reason
        BY <2>3 DEF AnalysisReusable
      <3>2. LinksStay /\ e.path \notin disturbed' /\ e.reason = None => saved.analysis[e.path].of = e.hash
        BY <1>1, <2>1, <3>1 DEF Truthful
      <3>3. QED
        BY <2>1, <2>3, <3>2, HonestAnalyzed
    <2>4. CASE e.reason # None /\ Analyzed(e, None)
      BY <2>1, <2>4, HonestAnalyzed
    <2>5. QED
      BY <1>10, <2>3, <2>4 DEF ReuseOrSkip
  <1>11. CASE AnalyzeFile
    <2>. DEFINE e == EntryOf(Head(pending))
    <2>1. pending # <<>> /\ e.reason = None
      BY <1>11 DEF AnalyzeFile
    <2>2. e \in files
      BY <1>1, <2>1, EntryOfPending
    <2>3. CASE Analyzed(e, ContentOf(e.path)) /\ UNCHANGED disturbed
      <3>1. LinksStay /\ e.path \notin disturbed' => ContentOf(e.path) = e.hash
        BY <1>1, <2>1, <2>2, <2>3, HashOfContent
      <3>2. disturbed \subseteq disturbed'
        BY <2>3
      <3>3. QED
        BY <2>1, <2>3, <3>1, <3>2, HonestAnalyzed
    <2>4. CASE Analyzed(e, None) /\ disturbed' = disturbed \cup {e.path}
      BY <2>1, <2>4, HonestAnalyzed
    <2>5. QED
      BY <1>11, <2>3, <2>4 DEF AnalyzeFile
  <1>12. CASE EndAnalysis
    <2>1. CASE HookGivesUp
      BY <1>5, <1>12, <2>1 DEF EndAnalysis, HookGivesUp
    <2>2. CASE ~HookGivesUp
      BY <1>2, <1>12, <2>2 DEF EndAnalysis, discovery, shared, analyzing
    <2>3. QED
      BY <2>1, <2>2
  <1>13. CASE SaveIndex
    <2>1. saved'.analysis = saved.analysis
      BY <1>13 DEF SaveIndex, Typed, SavedFields
    <2>2. QED
      BY <1>2, <1>13, <2>1 DEF SaveIndex, discovery, shared, analyzing, history
  <1>14. CASE SaveAnalysis
    <2>1. saved'.analysis = analysis
      BY <1>14 DEF SaveAnalysis, Typed, SavedFields
    <2>2. QED
      BY <1>3, <1>14, <2>1 DEF SaveAnalysis, Leave
  <1>15. CASE Fail \/ \E i \in inspected : Missing(i)
    BY <1>5, <1>15 DEF Fail, Missing
  <1>16. ASSUME NEW f \in Files, Edit(f)
         PROVE  Honest'
    <2>. DEFINE during == IF stage = "idle" THEN {} ELSE {f}
    <2>1. /\ touched' = touched \cup during
          /\ disturbed' = disturbed \cup {p \in Paths : Referent(p) \in during}
          /\ UNCHANGED <<saved, options, files, pending, analysis>>
      BY <1>16 DEF Edit, discovery, shared, analyzing
    <2>. HIDE DEF during
    <2>2. Disturbed'
      BY <1>1, <2>1 DEF Disturbed, Referent
    <2>3. LinksStay => Truthful(saved.analysis)' /\ Truthful(analysis)'
      BY <1>1, <2>1 DEF Truthful
    <2>4. Analyzable'
      BY <1>1, <2>1 DEF Analyzable, PathsOf
    <2>5. QED
      BY <2>2, <2>3, <2>4 DEF Honest
  <1>17. CASE UNCHANGED vars
    BY <1>2, <1>17 DEF vars, discovery, shared, analyzing, history
  <1>18. QED
    BY <1>4, <1>6, <1>7, <1>8, <1>9, <1>10, <1>11, <1>12, <1>13, <1>14, <1>15, <1>16, <1>17
       DEF Next, SessionStep

-----------------------------------------------------------------------------
(* The invariant, and what it says.                                        *)
LEMMA InitInvariant == Init => IInv
  <1>. SUFFICES ASSUME Init
                PROVE  IInv
    OBVIOUS
  <1>1. Typed
    BY InitTyped
  <1>2. Limited
    <2>1. Blank
      BY SomeOption DEF Init, Blank
    <2>2. QED
      BY <2>1, LimitedBlank
  <1>3. Fresh
    BY DEF Init, Fresh, Stamps, InspectionsStamped, Located, Current
  <1>4. Covered
    BY DEF Init, Covered
  <1>5. Honest
    BY DEF Init, Honest, Disturbed, Truthful, Analyzable, ToSet
  <1>6. QED
    BY <1>1, <1>2, <1>3, <1>4, <1>5 DEF IInv

LEMMA NextInvariant ==
  ASSUME IInv, [Next]_vars
  PROVE  IInv'
  <1>1. Typed /\ Limited /\ Fresh /\ Covered /\ Honest
    BY DEF IInv
  <1>2. InspectionsStamped /\ Located /\ Analyzable /\ Apart
    BY <1>1 DEF Fresh, Honest, Limited
  <1>3. Typed'
    BY <1>1, <1>2, NextTyped
  <1>4. Limited'
    BY <1>1, <1>2, NextLimited
  <1>5. Fresh'
    BY <1>1, NextFresh
  <1>6. Covered'
    BY <1>1, <1>2, NextCovered
  <1>7. Honest'
    BY <1>1, NextHonest
  <1>8. QED
    BY <1>3, <1>4, <1>5, <1>6, <1>7 DEF IInv

LEMMA Invariant == Spec => []IInv
  <1>1. IInv /\ [Next]_vars => IInv'
    BY NextInvariant
  <1>2. QED
    BY <1>1, InitInvariant, PTL DEF Spec

(* Every variable keeps its type, whatever the workers of a discovery, the *)
(* user who edits meanwhile and the timer of the session do.               *)
THEOREM Types == Spec => []TypeOK
  <1>1. IInv => TypeOK
    BY DEF IInv, Typed
  <1>2. QED
    BY <1>1, Invariant, PTL

LEMMA LimitsHold == IInv => WithinLimits
  <1>. SUFFICES ASSUME IInv
                PROVE  WithinLimits
    OBVIOUS
  <1>1. TypeOK /\ FiniteParts /\ Apart /\ Counted /\ Reserved /\ Typed
    BY DEF IInv, Typed, Limited
  <1>2. options.maxFiles \in Nat /\ scheduled \in Nat /\ scheduled <= options.maxFiles
    BY <1>1, OptionTypes DEF TypeOK
  <1>3. Cardinality(files) <= options.maxFiles
    BY <1>1, <1>2, SizedParts DEF Counted
  <1>4. Cardinality(PathsOf(files)) = Cardinality(files)
    <2>. DEFINE pathOf == [e \in files |-> e.path]
    <2>1. pathOf \in Bijection(files, PathsOf(files))
      <3>1. pathOf \in [files -> PathsOf(files)]
        BY DEF PathsOf
      <3>2. \A e, f \in files : pathOf[e] = pathOf[f] => e = f
        BY <1>1 DEF Apart
      <3>3. \A p \in PathsOf(files) : \E e \in files : pathOf[e] = p
        BY DEF PathsOf
      <3>4. QED
        BY <3>1, <3>2, <3>3 DEF Bijection, Injection, Surjection, IsInjective
    <2>2. ExistsBijection(files, PathsOf(files))
      BY <2>1 DEF ExistsBijection
    <2>3. QED
      BY <1>1, <2>2, FS_Bijection DEF FiniteParts
  <1>5. Bytes(Indexed) <= options.maxTotalBytes
    BY <1>1, SizedParts DEF Reserved
  <1>6. QED
    BY <1>3, <1>4, <1>5 DEF WithinLimits, Bytes, Indexed

(* However the awaits of the workers interleave, no more than maxFiles     *)
(* files and maxTotalBytes bytes are in an index, and every path once.     *)
THEOREM Limits == Spec => []WithinLimits
  BY Invariant, LimitsHold, PTL

LEMMA WarmHolds == LinksStay /\ IInv => WarmIsCold
  <1>. SUFFICES ASSUME LinksStay, IInv, stage = "save_index", warnings \cap Losses = {},
                       NEW p \in Paths, Referent(p) \notin touched
                PROVE  {e \in files : e.path = p} = ColdEntry(p)
    BY DEF WarmIsCold, Losses
  <1>1. TypeOK /\ Apart /\ Current /\ Findable \subseteq PathsOf(files)
    BY DEF IInv, Typed, Limited, Fresh, Covered
  <1>2. CASE p \in PathsOf(files)
    <2>1. PICK e \in files : e.path = p
      BY <1>2 DEF PathsOf
    <2>2. ColdEntry(p) = {e}
      BY <1>1, <2>1 DEF Current
    <2>3. {f \in files : f.path = p} = {e}
      BY <1>1, <2>1 DEF Apart
    <2>4. QED
      BY <2>2, <2>3
  <1>3. CASE p \notin PathsOf(files)
    <2>1. {e \in files : e.path = p} = {}
      BY <1>3 DEF PathsOf
    <2>2. ~Exists(p) \/ Referent(p) = "directory"
      BY <1>1, <1>3 DEF Findable
    <2>3. Referent(p) # "outside"
      <3>1. CASE Exists(p)
        BY <2>2, <3>1
      <3>2. CASE ~Exists(p)
        BY <3>2, PathTypes DEF Exists, Referent
      <3>3. QED
        BY <3>1, <3>2
    <2>4. ColdEntry(p) = {}
      BY <2>2, <2>3 DEF ColdEntry
    <2>5. QED
      BY <2>1, <2>4
  <1>4. QED
    BY <1>2, <1>3

(* An index without a warning has, of every file that was left alone, what *)
(* a discovery without a saved index, limits or other workers finds.       *)
THEOREM Warm == ASSUME LinksStay PROVE Spec => []WarmIsCold
  <1>1. IInv => WarmIsCold
    BY WarmHolds
  <1>2. QED
    BY <1>1, Invariant, PTL

(* An analysis that a session saves is that of the content which its hash  *)
(* names, unless the file was edited in a session or could not be read.    *)
THEOREM Analysis == ASSUME LinksStay PROVE Spec => []AnalysisOfHash
  <1>1. IInv => AnalysisOfHash
    BY DEF IInv, Honest, Truthful, AnalysisOfHash
  <1>2. QED
    BY <1>1, Invariant, PTL
=============================================================================
