------------------------ MODULE ContextPagingProofs ------------------------
(***************************************************************************)
(* The theorems about what a client may rely on, for any number of builds  *)
(* and candidates, budgets and limits, whatever times out, fails, restarts *)
(* and works on the same cache.                                            *)
(*                                                                         *)
(* The evidence of a pack is saved before the client hears of the pack: a  *)
(* build of a server with a cache comes to its answer only through the     *)
(* save, and a save that was rejected ends it.                             *)
(*                                                                         *)
(* Every candidate comes once: what a pack shows is the beginning of what  *)
(* its pages are cut from.  That holds for a new ranking, whose selected   *)
(* candidates come first, and for one from the cache, which the content    *)
(* budget leaves as it is, since it was cut with the same one.             *)
(***************************************************************************)
EXTENDS ContextPaging, FiniteSetTheorems, SequenceTheorems, WellFoundedInduction, TLAPS

-----------------------------------------------------------------------------
(* Induction, over a set that holds the numbers of which a claim is true.  *)
LEMMA SetInduction ==
  ASSUME NEW T, 0 \in T, \A n \in Nat : n \in T => n + 1 \in T
  PROVE  Nat \subseteq T
  <1>. DEFINE Bad == Nat \ T
              R == OpToRel(<, Nat)
  <1>1. SUFFICES ASSUME Bad # {}
                 PROVE  FALSE
    OBVIOUS
  <1>2. IsWellFoundedOn(R, Nat)
    BY NatLessThanWellFounded
  <1>3. \A x, y \in Nat : <<y, x>> \in R <=> y < x
    BY DEF OpToRel
  <1>. HIDE DEF R
  <1>4. PICK x \in Bad : \A y \in Bad : ~ (<<y, x>> \in R)
    BY <1>1, <1>2, WFMin
  <1>5. x # 0 /\ x \in Nat
    BY <1>4
  <1>6. x - 1 \in Nat /\ (x - 1) + 1 = x
    BY <1>5
  <1>7. x - 1 \in T
    <2>1. x - 1 < x
      BY <1>5
    <2>2. <<x - 1, x>> \in R
      BY <1>3, <1>5, <1>6, <2>1
    <2>3. QED
      BY <1>4, <1>6, <2>2
  <1>8. QED
    BY <1>4, <1>6, <1>7

(* A function that is defined by recursion over 0 .. n exists.             *)
Recurs(g, n, V, first, step) ==
  g \in [0 .. n -> V] /\ g[0] = first /\ \A i \in 1 .. n : g[i] = step[i][g[i - 1]]

LEMMA Recursion ==
  ASSUME NEW n \in Nat, NEW V, NEW first \in V, NEW step \in [1 .. n -> [V -> V]]
  PROVE  \E g : Recurs(g, n, V, first, step)
  <1>. DEFINE Solves(g, m) ==
                g[0] = first /\ \A i \in 1 .. m : g[i] = step[i][g[i - 1]]
              T == {m \in Nat : m <= n => \E g \in [0 .. m -> V] : Solves(g, m)}
  <1>1. 0 \in T
    <2>1. [i \in 0 .. 0 |-> first] \in [0 .. 0 -> V] /\ Solves([i \in 0 .. 0 |-> first], 0)
      OBVIOUS
    <2>2. QED
      BY <2>1
  <1>2. ASSUME NEW m \in Nat, m \in T
        PROVE  m + 1 \in T
    <2>1. SUFFICES ASSUME m + 1 <= n
                   PROVE  \E g \in [0 .. m + 1 -> V] : Solves(g, m + 1)
      OBVIOUS
    <2>2. PICK g \in [0 .. m -> V] : Solves(g, m)
      BY <1>2, <2>1
    <2>. DEFINE h == [i \in 0 .. m + 1 |-> IF i = m + 1 THEN step[m + 1][g[m]] ELSE g[i]]
    <2>3. step[m + 1][g[m]] \in V
      BY <2>1
    <2>4. h \in [0 .. m + 1 -> V]
      BY <2>3
    <2>5. \A i \in 0 .. m : h[i] = g[i]
      OBVIOUS
    <2>6. h[m + 1] = step[m + 1][g[m]]
      OBVIOUS
    <2>. HIDE DEF h
    <2>7. Solves(h, m + 1)
      <3>1. h[0] = first
        BY <2>2, <2>5
      <3>2. ASSUME NEW i \in 1 .. m + 1
            PROVE  h[i] = step[i][h[i - 1]]
        <4>1. CASE i = m + 1
          BY <2>5, <2>6, <4>1
        <4>2. CASE i # m + 1
          <5>1. i \in 1 .. m /\ i - 1 \in 0 .. m /\ i \in 0 .. m
            BY <4>2
          <5>2. QED
            BY <2>2, <2>5, <5>1
        <4>3. QED
          BY <4>1, <4>2
      <3>3. QED
        BY <3>1, <3>2
    <2>8. QED
      BY <2>4, <2>7
  <1>. HIDE DEF T
  <1>3. n \in T
    BY <1>1, <1>2, SetInduction
  <1>4. QED
    BY <1>3 DEF T, Recurs

-----------------------------------------------------------------------------
(* A sequence without repetitions is as long as its set is large.          *)
LEMMA InjectiveLength ==
  ASSUME NEW U, NEW s \in Seq(U), IsInjective(s)
  PROVE  Cardinality(ToSet(s)) = Len(s)
  <1>. DEFINE n == Len(s)
              g == [i \in 1 .. n |-> s[i]]
  <1>1. DOMAIN s = 1 .. n /\ n \in Nat
    OBVIOUS
  <1>2. /\ g \in [1 .. n -> ToSet(s)] /\ \A i, j \in 1 .. n : g[i] = g[j] => i = j
        /\ \A x \in ToSet(s) : \E i \in 1 .. n : g[i] = x
    BY <1>1 DEF ToSet, IsInjective
  <1>. HIDE DEF g, n
  <1>3. g \in Injection(1 .. n, ToSet(s)) /\ g \in Surjection(1 .. n, ToSet(s))
    BY <1>2 DEF Injection, Surjection, IsInjective
  <1>4. IsFiniteSet(1 .. n) /\ Cardinality(1 .. n) = n
    BY <1>1, FS_Interval
  <1>5. QED
    BY <1>3, <1>4, FS_Surjection DEF n

-----------------------------------------------------------------------------
(* The numbers of a set in order.                                          *)
LineRecurs(k, S) ==
  /\ k \in [0 .. Count -> Seq(Ranks)] /\ k[0] = <<>> /\ InOrder(S) = k[Count]
  /\ \A i \in 1 .. Count : k[i] = IF i \in S THEN Append(k[i - 1], i) ELSE k[i - 1]

LEMMA LineFunction ==
  ASSUME NEW S
  PROVE  \E k : LineRecurs(k, S)
  <1>. DEFINE n == Count
              V == Seq(Ranks)
              Def(f) == [i \in 0 .. n |->
                 IF i = 0 THEN <<>> ELSE IF i \in S THEN Append(f[i - 1], i) ELSE f[i - 1]]
              step == [i \in 1 .. n |-> [v \in V |-> IF i \in S THEN Append(v, i) ELSE v]]
  <1>1. n \in Nat
    BY PagingAssumption
  <1>2. <<>> \in V /\ \A i \in 1 .. n : \A v \in V : Append(v, i) \in V
    BY DEF Ranks
  <1>3. step \in [1 .. n -> [V -> V]]
    BY <1>2
  <1>s. \A i \in 1 .. n : \A v \in V : step[i][v] = IF i \in S THEN Append(v, i) ELSE v
    OBVIOUS
  <1>. HIDE DEF step, V
  <1>4. PICK g : Recurs(g, n, V, <<>>, step)
    BY <1>1, <1>2, <1>3, Recursion
  <1>5. g = Def(g)
    <2>1. ASSUME NEW i \in 0 .. n
          PROVE  g[i] = Def(g)[i]
      <3>1. CASE i = 0
        BY <1>4, <3>1 DEF Recurs
      <3>2. CASE i # 0
        <4>1. i \in 1 .. n /\ i - 1 \in 0 .. n
          BY <1>1, <3>2
        <4>2. g[i - 1] \in V
          BY <1>4, <4>1 DEF Recurs
        <4>3. g[i] = IF i \in S THEN Append(g[i - 1], i) ELSE g[i - 1]
          BY <1>s, <1>4, <4>1, <4>2 DEF Recurs
        <4>4. QED
          BY <3>2, <4>3
      <3>3. QED
        BY <3>1, <3>2
    <2>2. QED
      BY <1>4, <2>1 DEF Recurs
  <1>. DEFINE k == CHOOSE f : f = Def(f)
  <1>6. k = Def(k)
    BY <1>5
  <1>7. InOrder(S) = k[n]
    BY DEF InOrder
  <1>. HIDE DEF k
  <1>8. k[0] = <<>> /\ \A i \in 1 .. n : k[i] = IF i \in S THEN Append(k[i - 1], i) ELSE k[i - 1]
    <2>1. k[0] = Def(k)[0] /\ \A i \in 1 .. n : k[i] = Def(k)[i]
      BY <1>6
    <2>2. 0 \in 0 .. n /\ \A i \in 1 .. n : i \in 0 .. n /\ i # 0
      BY <1>1
    <2>3. QED
      BY <2>1, <2>2
  <1>9. \A i \in 0 .. n : k[i] \in V
    <2>. DEFINE T == {i \in Nat : i <= n => k[i] \in V}
    <2>1. 0 \in T
      BY <1>2, <1>8
    <2>2. ASSUME NEW i \in Nat, i \in T
          PROVE  i + 1 \in T
      <3>1. SUFFICES ASSUME i + 1 <= n
                     PROVE  k[i + 1] \in V
        OBVIOUS
      <3>2. i + 1 \in 1 .. n /\ (i + 1) - 1 = i /\ k[i] \in V
        BY <1>1, <2>2, <3>1
      <3>3. k[i + 1] = IF i + 1 \in S THEN Append(k[i], i + 1) ELSE k[i]
        BY <1>8, <3>2
      <3>4. QED
        BY <1>2, <3>2, <3>3
    <2>. HIDE DEF T
    <2>3. Nat \subseteq T
      BY <2>1, <2>2, SetInduction
    <2>4. QED
      BY <1>1, <2>3 DEF T
  <1>10. k \in [0 .. n -> V]
    BY <1>6, <1>9
  <1>11. QED
    BY <1>7, <1>8, <1>10 DEF LineRecurs, V

(* What the first n numbers give.                                          *)
LineTo(t, S, n) ==
  /\ t \in Seq(Ranks)
  /\ \A i \in 1 .. Len(t) : t[i] <= n /\ t[i] \in S
  /\ \A m \in 1 .. n : m \in S => \E i \in 1 .. Len(t) : t[i] = m
  /\ \A i, j \in 1 .. Len(t) : i < j => t[i] < t[j]

LEMMA LineToMore ==
  ASSUME NEW S, NEW n \in Nat, n + 1 <= Count, NEW t, LineTo(t, S, n)
  PROVE  LineTo(IF n + 1 \in S THEN Append(t, n + 1) ELSE t, S, n + 1)
  <1>. DEFINE u == Append(t, n + 1)
              l == Len(t)
  <1>1. /\ t \in Seq(Ranks) /\ l \in Nat /\ n + 1 \in Ranks /\ Count \in Nat
        /\ \A i \in 1 .. l : t[i] \in Ranks /\ t[i] \in Int
    BY PagingAssumption DEF LineTo, Ranks
  <1>2. /\ u \in Seq(Ranks) /\ Len(u) = l + 1 /\ u[l + 1] = n + 1
        /\ \A i \in 1 .. l : u[i] = t[i]
    BY <1>1
  <1>3. \A m \in 1 .. n + 1 : m = n + 1 \/ m \in 1 .. n
    OBVIOUS
  <1>4. \A i \in 1 .. l + 1 : i = l + 1 \/ i \in 1 .. l
    BY <1>1
  <1>. HIDE DEF u, l
  <1>5. CASE n + 1 \in S
    <2>1. \A i \in 1 .. Len(u) : u[i] <= n + 1 /\ u[i] \in S
      BY <1>1, <1>2, <1>4, <1>5 DEF LineTo, l
    <2>2. \A m \in 1 .. n + 1 : m \in S => \E i \in 1 .. Len(u) : u[i] = m
      <3>1. ASSUME NEW m \in 1 .. n, m \in S
            PROVE  \E i \in 1 .. Len(u) : u[i] = m
        <4>1. PICK i \in 1 .. l : t[i] = m
          BY <3>1 DEF LineTo, l
        <4>2. i \in 1 .. Len(u) /\ u[i] = m
          BY <1>1, <1>2, <4>1
        <4>3. QED
          BY <4>2
      <3>2. l + 1 \in 1 .. Len(u)
        BY <1>1, <1>2
      <3>3. QED
        BY <1>2, <1>3, <3>1, <3>2
    <2>3. \A i, j \in 1 .. Len(u) : i < j => u[i] < u[j]
      <3>1. ASSUME NEW i \in 1 .. l + 1, NEW j \in 1 .. l + 1, i < j
            PROVE  u[i] < u[j]
        <4>1. i \in 1 .. l
          BY <1>1, <1>4, <3>1
        <4>2. u[i] = t[i] /\ t[i] <= n /\ t[i] \in Int
          BY <1>1, <1>2, <4>1 DEF LineTo, l
        <4>3. CASE j = l + 1
          BY <1>2, <4>2, <4>3
        <4>4. CASE j \in 1 .. l
          BY <1>2, <3>1, <4>1, <4>2, <4>4 DEF LineTo, l
        <4>5. QED
          BY <1>4, <4>3, <4>4
      <3>2. QED
        BY <1>2, <3>1
    <2>4. LineTo(u, S, n + 1)
      BY <1>2, <2>1, <2>2, <2>3 DEF LineTo
    <2>5. QED
      BY <1>5, <2>4 DEF u
  <1>6. CASE n + 1 \notin S
    <2>1. \A i \in 1 .. Len(t) : t[i] <= n + 1 /\ t[i] \in S
      BY <1>1 DEF LineTo, l
    <2>2. \A m \in 1 .. n + 1 : m \in S => \E i \in 1 .. Len(t) : t[i] = m
      BY <1>3, <1>6 DEF LineTo
    <2>3. LineTo(t, S, n + 1)
      BY <2>1, <2>2 DEF LineTo
    <2>4. QED
      BY <1>6, <2>3
  <1>7. QED
    BY <1>5, <1>6

(* A set is listed in order, and each of its members once.                 *)
LEMMA InOrderLists ==
  ASSUME NEW S \in SUBSET Ranks
  PROVE  /\ InOrder(S) \in Seq(Ranks) /\ ToSet(InOrder(S)) = S /\ IsInjective(InOrder(S))
         /\ Len(InOrder(S)) = Cardinality(S)
  <1>. DEFINE s == InOrder(S)
  <1>1. PICK k : LineRecurs(k, S)
    BY LineFunction
  <1>2. Count \in Nat
    BY PagingAssumption
  <1>. DEFINE T == {n \in Nat : n <= Count => LineTo(k[n], S, n)}
  <1>3. 0 \in T
    <2>1. LineTo(<<>>, S, 0)
      BY DEF LineTo
    <2>2. QED
      BY <1>1, <2>1 DEF LineRecurs
  <1>4. ASSUME NEW n \in Nat, n \in T
        PROVE  n + 1 \in T
    <2>1. SUFFICES ASSUME n + 1 <= Count
                   PROVE  LineTo(k[n + 1], S, n + 1)
      OBVIOUS
    <2>2. n + 1 \in 1 .. Count /\ (n + 1) - 1 = n /\ LineTo(k[n], S, n)
      BY <1>2, <1>4, <2>1
    <2>3. k[n + 1] = IF n + 1 \in S THEN Append(k[n], n + 1) ELSE k[n]
      BY <1>1, <2>2 DEF LineRecurs
    <2>4. QED
      BY <2>1, <2>2, <2>3, LineToMore
  <1>. HIDE DEF T
  <1>5. LineTo(s, S, Count)
    <2>1. Count \in T
      BY <1>2, <1>3, <1>4, SetInduction
    <2>2. QED
      BY <1>1, <1>2, <2>1 DEF T, LineRecurs
  <1>. HIDE DEF s
  <1>6. s \in Seq(Ranks) /\ DOMAIN s = 1 .. Len(s) /\ Len(s) \in Nat
    BY <1>5 DEF LineTo
  <1>7. ToSet(s) = S
    <2>1. \A x \in ToSet(s) : x \in S
      BY <1>5, <1>6 DEF ToSet, LineTo
    <2>2. \A x \in S : x \in ToSet(s)
      BY <1>5, <1>6 DEF ToSet, LineTo, Ranks
    <2>3. QED
      BY <2>1, <2>2
  <1>8. IsInjective(s)
    <2>1. ASSUME NEW i \in 1 .. Len(s), NEW j \in 1 .. Len(s), s[i] = s[j]
          PROVE  i = j
      <3>1. s[i] \in Ranks /\ s[j] \in Ranks
        BY <1>6
      <3>2. s[i] \in Int /\ s[j] \in Int
        BY <3>1 DEF Ranks
      <3>3. ~(i < j) /\ ~(j < i)
        BY <1>5, <2>1, <3>2 DEF LineTo
      <3>4. QED
        BY <1>6, <3>3
    <2>2. QED
      BY <1>6, <2>1 DEF IsInjective
  <1>9. Len(s) = Cardinality(S)
    BY <1>6, <1>7, <1>8, InjectiveLength
  <1>10. QED
    BY <1>6, <1>7, <1>8, <1>9 DEF s

-----------------------------------------------------------------------------
(* Nothing comes after the last member.                                    *)
LEMMA InOrderOfNone == InOrder({}) = <<>>
  <1>1. InOrder({}) \in Seq(Ranks) /\ Len(InOrder({})) = 0
    BY InOrderLists, FS_EmptySet
  <1>2. QED
    BY <1>1

LEMMA AppendToJoin ==
  ASSUME NEW s \in Seq(Ranks), NEW t \in Seq(Ranks), NEW v \in Ranks
  PROVE  Append(s \o t, v) = s \o Append(t, v)
  <1>1. /\ Append(s \o t, v) \in Seq(Ranks) /\ s \o Append(t, v) \in Seq(Ranks)
        /\ Len(Append(s \o t, v)) = Len(s \o Append(t, v))
        /\ Len(Append(s \o t, v)) = Len(s) + Len(t) + 1
    OBVIOUS
  <1>2. ASSUME NEW i \in 1 .. Len(s) + Len(t) + 1
        PROVE  Append(s \o t, v)[i] = (s \o Append(t, v))[i]
    OBVIOUS
  <1>3. QED
    BY <1>1, <1>2, SeqEqual

(* A set that lies before another one is listed before it.                 *)
LEMMA InOrderJoin ==
  ASSUME NEW m \in 0 .. Count, NEW A \in SUBSET (1 .. m), NEW B \in SUBSET ((m + 1) .. Count)
  PROVE  InOrder(A \cup B) = InOrder(A) \o InOrder(B)
  <1>1. PICK a : LineRecurs(a, A)
    BY LineFunction
  <1>2. PICK c : LineRecurs(c, B)
    BY LineFunction
  <1>3. PICK k : LineRecurs(k, A \cup B)
    BY LineFunction
  <1>4. Count \in Nat /\ m \in Nat
    BY PagingAssumption
  <1>j. \A s, t \in Seq(Ranks), v \in Ranks : Append(s \o t, v) = s \o Append(t, v)
    BY AppendToJoin
  <1>. DEFINE Joined(n) == k[n] = a[n] \o c[n] /\ (n <= m => c[n] = <<>>)
              T == {n \in Nat : n <= Count => Joined(n)}
  <1>. HIDE DEF Joined
  <1>5. 0 \in T
    BY <1>1, <1>2, <1>3 DEF LineRecurs, Joined
  <1>6. ASSUME NEW n \in Nat, n \in T
        PROVE  n + 1 \in T
    <2>1. SUFFICES ASSUME n + 1 <= Count
                   PROVE  Joined(n + 1)
      OBVIOUS
    <2>2. n + 1 \in 1 .. Count /\ (n + 1) - 1 = n /\ n \in 0 .. Count /\ Joined(n)
      BY <1>4, <1>6, <2>1
    <2>n. n + 1 <= m => n <= m
      BY <1>4
    <2>3. /\ a[n] \in Seq(Ranks) /\ c[n] \in Seq(Ranks)
          /\ a[n + 1] = IF n + 1 \in A THEN Append(a[n], n + 1) ELSE a[n]
          /\ c[n + 1] = IF n + 1 \in B THEN Append(c[n], n + 1) ELSE c[n]
          /\ k[n + 1] = IF n + 1 \in A \cup B THEN Append(k[n], n + 1) ELSE k[n]
      BY <1>1, <1>2, <1>3, <2>2 DEF LineRecurs
    <2>r. n + 1 \in Ranks
      BY <2>2 DEF Ranks
    <2>4. (n + 1 \in A => n + 1 <= m /\ n + 1 \notin B) /\ (n + 1 <= m => n + 1 \notin B)
      BY <1>4
    <2>5. CASE n + 1 \in A
      <3>1. c[n] = <<>> /\ c[n + 1] = <<>>
        BY <2>2, <2>3, <2>4, <2>5, <2>n DEF Joined
      <3>2. k[n] = a[n]
        BY <2>2, <2>3, <2>r, <3>1, ConcatEmptySeq DEF Joined
      <3>3. a[n + 1] = Append(a[n], n + 1) /\ a[n + 1] \in Seq(Ranks) /\ k[n + 1] = a[n + 1]
        BY <2>3, <2>5, <2>r, <3>2
      <3>4. a[n + 1] \o <<>> = a[n + 1]
        BY <2>r, <3>3, ConcatEmptySeq
      <3>5. QED
        BY <3>1, <3>3, <3>4 DEF Joined
    <2>6. CASE n + 1 \in B
      <3>1. n + 1 \notin A /\ ~(n + 1 <= m)
        BY <2>4, <2>6
      <3>2. a[n + 1] = a[n] /\ c[n + 1] = Append(c[n], n + 1) /\ k[n + 1] = Append(k[n], n + 1)
        BY <2>3, <2>6, <3>1
      <3>3. Append(a[n] \o c[n], n + 1) = a[n] \o Append(c[n], n + 1)
        BY <1>j, <2>3, <2>r
      <3>4. QED
        BY <2>2, <3>1, <3>2, <3>3 DEF Joined
    <2>7. CASE n + 1 \notin A /\ n + 1 \notin B
      <3>1. a[n + 1] = a[n] /\ c[n + 1] = c[n] /\ k[n + 1] = k[n]
        BY <2>3, <2>7
      <3>2. QED
        BY <2>2, <2>n, <3>1 DEF Joined
    <2>8. QED
      BY <2>5, <2>6, <2>7
  <1>. HIDE DEF T
  <1>7. Joined(Count)
    <2>1. Count \in T
      BY <1>4, <1>5, <1>6, SetInduction
    <2>2. QED
      BY <1>4, <2>1 DEF T
  <1>8. QED
    BY <1>1, <1>2, <1>3, <1>7 DEF LineRecurs, Joined

-----------------------------------------------------------------------------
(* How much of the budget the first candidates use.                        *)
UsedRecurs(u, S, budget) ==
  /\ u \in [0 .. Count -> Nat] /\ u[0] = 0
  /\ \A i \in 1 .. Count :
       u[i] = u[i - 1] + IF i \in S /\ u[i - 1] + tokens[i] <= budget THEN tokens[i] ELSE 0
  /\ WithinContentBudget(S, budget) = {i \in S : u[i - 1] + tokens[i] <= budget}

LEMMA UsedFunction ==
  ASSUME NEW S, NEW budget \in Nat, tokens \in [Ranks -> Nat]
  PROVE  \E u : UsedRecurs(u, S, budget)
  <1>. DEFINE n == Count
              More(i, v) == v + IF i \in S /\ v + tokens[i] <= budget THEN tokens[i] ELSE 0
              Def(f) == [i \in 0 .. n |->
                 IF i = 0 THEN 0
                 ELSE f[i - 1] + IF i \in S /\ f[i - 1] + tokens[i] <= budget
                                 THEN tokens[i] ELSE 0]
              step == [i \in 1 .. n |-> [v \in Nat |-> More(i, v)]]
  <1>1. n \in Nat
    BY PagingAssumption
  <1>2. \A i \in 1 .. n : \A v \in Nat : More(i, v) \in Nat
    BY DEF Ranks
  <1>s. \A i \in 1 .. n : \A v \in Nat : step[i][v] = More(i, v)
    OBVIOUS
  <1>m. \A f : \A i \in 0 .. n : Def(f)[i] = IF i = 0 THEN 0 ELSE More(i, f[i - 1])
    OBVIOUS
  <1>. HIDE DEF More
  <1>3. step \in [1 .. n -> [Nat -> Nat]]
    BY <1>2
  <1>. HIDE DEF step
  <1>4. PICK g : Recurs(g, n, Nat, 0, step)
    BY <1>1, <1>3, Recursion
  <1>5. g = Def(g)
    <2>1. ASSUME NEW i \in 0 .. n
          PROVE  g[i] = Def(g)[i]
      <3>1. CASE i = 0
        BY <1>4, <1>m, <3>1 DEF Recurs
      <3>2. CASE i # 0
        <4>1. i \in 1 .. n /\ i - 1 \in 0 .. n
          BY <1>1, <3>2
        <4>2. g[i - 1] \in Nat
          BY <1>4, <4>1 DEF Recurs
        <4>3. g[i] = More(i, g[i - 1])
          BY <1>s, <1>4, <4>1, <4>2 DEF Recurs
        <4>4. QED
          BY <1>m, <3>2, <4>3
      <3>3. QED
        BY <3>1, <3>2
    <2>2. g \in [0 .. n -> Nat] /\ Def(g) = [i \in 0 .. n |-> Def(g)[i]]
      BY <1>4 DEF Recurs
    <2>. HIDE DEF Def
    <2>3. QED
      BY <2>1, <2>2
  <1>. DEFINE u == CHOOSE f : f = Def(f)
  <1>6. u = Def(u)
    BY <1>5
  <1>7. WithinContentBudget(S, budget) = {i \in S : u[i - 1] + tokens[i] <= budget}
    BY DEF WithinContentBudget
  <1>. HIDE DEF u
  <1>8. u[0] = 0 /\ \A i \in 1 .. n : u[i] = More(i, u[i - 1])
    <2>1. \A i \in 0 .. n : u[i] = IF i = 0 THEN 0 ELSE More(i, u[i - 1])
      BY <1>6, <1>m
    <2>2. 0 \in 0 .. n /\ \A i \in 1 .. n : i \in 0 .. n /\ i # 0
      BY <1>1
    <2>3. QED
      BY <2>1, <2>2
  <1>9. \A i \in 0 .. n : u[i] \in Nat
    <2>. DEFINE T == {i \in Nat : i <= n => u[i] \in Nat}
    <2>1. 0 \in T
      BY <1>8
    <2>2. ASSUME NEW i \in Nat, i \in T
          PROVE  i + 1 \in T
      <3>1. SUFFICES ASSUME i + 1 <= n
                     PROVE  u[i + 1] \in Nat
        OBVIOUS
      <3>2. i + 1 \in 1 .. n /\ (i + 1) - 1 = i /\ u[i] \in Nat
        BY <1>1, <2>2, <3>1
      <3>3. QED
        BY <1>2, <1>8, <3>2
    <2>. HIDE DEF T
    <2>3. Nat \subseteq T
      BY <2>1, <2>2, SetInduction
    <2>4. QED
      BY <1>1, <2>3 DEF T
  <1>10. u \in [0 .. n -> Nat]
    BY <1>6, <1>9
  <1>11. QED
    BY <1>7, <1>8, <1>10 DEF UsedRecurs, More

(* What was selected within a budget, or a part of it, fits that budget    *)
(* again.                                                                  *)
LEMMA FitsAgain ==
  ASSUME NEW S \in SUBSET Ranks, NEW budget \in Nat, tokens \in [Ranks -> Nat],
         NEW R \in SUBSET WithinContentBudget(S, budget)
  PROVE  WithinContentBudget(R, budget) = R
  <1>1. PICK u : UsedRecurs(u, S, budget)
    BY UsedFunction
  <1>2. PICK v : UsedRecurs(v, R, budget)
    BY UsedFunction
  <1>3. Count \in Nat
    BY PagingAssumption
  <1>4. \A i \in R : i \in S /\ i \in 1 .. Count /\ u[i - 1] + tokens[i] <= budget
    BY <1>1 DEF UsedRecurs, Ranks
  <1>. DEFINE T == {n \in Nat : n <= Count => v[n] <= u[n]}
  <1>5. 0 \in T
    BY <1>1, <1>2 DEF UsedRecurs
  <1>6. ASSUME NEW n \in Nat, n \in T
        PROVE  n + 1 \in T
    <2>1. SUFFICES ASSUME n + 1 <= Count
                   PROVE  v[n + 1] <= u[n + 1]
      OBVIOUS
    <2>2. /\ n + 1 \in 1 .. Count /\ (n + 1) - 1 = n /\ n \in 0 .. Count
          /\ v[n] <= u[n] /\ tokens[n + 1] \in Nat
      BY <1>3, <1>6, <2>1 DEF Ranks
    <2>3. /\ v[n] \in Nat /\ u[n] \in Nat
          /\ v[n + 1] = v[n] + IF n + 1 \in R /\ v[n] + tokens[n + 1] <= budget
                               THEN tokens[n + 1] ELSE 0
          /\ u[n + 1] = u[n] + IF n + 1 \in S /\ u[n] + tokens[n + 1] <= budget
                               THEN tokens[n + 1] ELSE 0
      BY <1>1, <1>2, <2>2 DEF UsedRecurs
    <2>4. n + 1 \in R => n + 1 \in S /\ u[n] + tokens[n + 1] <= budget
      BY <1>4, <2>2
    <2>5. QED
      BY <2>2, <2>3, <2>4
  <1>. HIDE DEF T
  <1>7. \A n \in 0 .. Count : v[n] <= u[n]
    <2>1. Nat \subseteq T
      BY <1>5, <1>6, SetInduction
    <2>2. QED
      BY <1>3, <2>1 DEF T
  <1>8. ASSUME NEW i \in R
        PROVE  v[i - 1] + tokens[i] <= budget
    <2>1. i - 1 \in 0 .. Count /\ tokens[i] \in Nat
      BY <1>3, <1>4 DEF Ranks
    <2>2. v[i - 1] \in Nat /\ u[i - 1] \in Nat /\ v[i - 1] <= u[i - 1]
      BY <1>1, <1>2, <1>7, <2>1 DEF UsedRecurs
    <2>3. QED
      BY <1>4, <2>1, <2>2
  <1>9. QED
    BY <1>2, <1>8 DEF UsedRecurs

-----------------------------------------------------------------------------
(* The first candidates of a list of them.                                 *)
LEMMA FirstOnes ==
  ASSUME NEW s \in Seq(Ranks), NEW n \in 0 .. Len(s)
  PROVE  /\ SubSeq(s, 1, n) \in Seq(Ranks) /\ Len(SubSeq(s, 1, n)) = n
         /\ \A i \in 1 .. n : SubSeq(s, 1, n)[i] = s[i]
         /\ ToSet(SubSeq(s, 1, n)) \subseteq ToSet(s)
  <1>. DEFINE t == SubSeq(s, 1, n)
  <1>1. /\ t \in Seq(Ranks) /\ Len(t) = n /\ \A i \in 1 .. n : t[i] = s[i]
        /\ DOMAIN t = 1 .. n /\ DOMAIN s = 1 .. Len(s)
    OBVIOUS
  <1>. HIDE DEF t
  <1>2. ToSet(t) \subseteq ToSet(s)
    BY <1>1 DEF ToSet
  <1>3. QED
    BY <1>1, <1>2 DEF t

LEMMA FirstOfFirst ==
  ASSUME NEW s \in Seq(Ranks), NEW m \in 0 .. Len(s), NEW n \in 0 .. m
  PROVE  SubSeq(SubSeq(s, 1, m), 1, n) = SubSeq(s, 1, n)
  <1>1. /\ SubSeq(s, 1, m) \in Seq(Ranks) /\ Len(SubSeq(s, 1, m)) = m
        /\ \A i \in 1 .. m : SubSeq(s, 1, m)[i] = s[i]
    BY FirstOnes
  <1>2. n \in 0 .. Len(s)
    OBVIOUS
  <1>3. /\ SubSeq(s, 1, n) \in Seq(Ranks) /\ Len(SubSeq(s, 1, n)) = n
        /\ \A i \in 1 .. n : SubSeq(s, 1, n)[i] = s[i]
    BY <1>2, FirstOnes
  <1>. DEFINE t == SubSeq(s, 1, m)
  <1>. HIDE DEF t
  <1>4. /\ SubSeq(t, 1, n) \in Seq(Ranks) /\ Len(SubSeq(t, 1, n)) = n
        /\ \A i \in 1 .. n : SubSeq(t, 1, n)[i] = t[i]
    BY <1>1, FirstOnes DEF t
  <1>5. SubSeq(t, 1, n) = SubSeq(s, 1, n)
    <2>1. ASSUME NEW i \in 1 .. n
          PROVE  SubSeq(t, 1, n)[i] = SubSeq(s, 1, n)[i]
      BY <1>1, <1>3, <1>4 DEF t
    <2>2. QED
      BY <1>3, <1>4, <2>1, SeqEqual
  <1>6. QED
    BY <1>5 DEF t

LEMMA AllOfThem ==
  ASSUME NEW s \in Seq(Ranks)
  PROVE  SubSeq(s, 1, Len(s)) = s
  BY SubSeqFull

(* A pack selects the first of the chosen candidates and shows the first   *)
(* of the others, and none of these unless it selects all of the chosen.   *)
PartsOf(p, chosen, others, m, n) ==
  /\ m \in 0 .. Len(chosen) /\ n \in 0 .. Len(others) /\ (m = Len(chosen) \/ n = 0)
  /\ p = [selected |-> SubSeq(chosen, 1, m), shown |-> SubSeq(others, 1, n)]

LEMMA PackParts ==
  ASSUME NEW chosen \in Seq(Ranks), NEW others \in Seq(Ranks), NEW limit \in Nat,
         NEW p \in Packs(chosen, others, limit)
  PROVE  \E m, n : PartsOf(p, chosen, others, m, n)
  <1>. DEFINE most == IF limit < Len(others) THEN limit ELSE Len(others)
              shown == SubSeq(others, 1, most)
  <1>1. most \in 0 .. Len(others) /\ Len(others) \in Nat /\ Len(chosen) \in Nat
    OBVIOUS
  <1>2. \/ \E n \in 0 .. Len(shown) : p = [selected |-> chosen, shown |-> SubSeq(shown, 1, n)]
        \/ \E m \in 0 .. Len(chosen) : p = [selected |-> SubSeq(chosen, 1, m), shown |-> <<>>]
    BY DEF Packs
  <1>. HIDE DEF most
  <1>3. CASE \E n \in 0 .. Len(shown) : p = [selected |-> chosen, shown |-> SubSeq(shown, 1, n)]
    <2>1. PICK n \in 0 .. Len(shown) : p = [selected |-> chosen, shown |-> SubSeq(shown, 1, n)]
      BY <1>3
    <2>2. n \in 0 .. most
      BY <1>1, FirstOnes
    <2>3. SubSeq(shown, 1, n) = SubSeq(others, 1, n)
      BY <1>1, <2>2, FirstOfFirst
    <2>4. SubSeq(chosen, 1, Len(chosen)) = chosen
      BY AllOfThem
    <2>5. n \in 0 .. Len(others)
      BY <1>1, <2>2
    <2>6. PartsOf(p, chosen, others, Len(chosen), n)
      BY <1>1, <2>1, <2>3, <2>4, <2>5 DEF PartsOf
    <2>7. QED
      BY <2>6
  <1>4. CASE \E m \in 0 .. Len(chosen) : p = [selected |-> SubSeq(chosen, 1, m), shown |-> <<>>]
    <2>1. PICK m \in 0 .. Len(chosen) : p = [selected |-> SubSeq(chosen, 1, m), shown |-> <<>>]
      BY <1>4
    <2>2. 0 \in 0 .. Len(others)
      BY <1>1
    <2>3. SubSeq(others, 1, 0) = <<>>
      BY <2>2, FirstOnes, EmptySeq
    <2>4. PartsOf(p, chosen, others, m, 0)
      BY <2>1, <2>2, <2>3 DEF PartsOf
    <2>5. QED
      BY <2>4
  <1>5. QED
    BY <1>2, <1>3, <1>4

(* What a build chooses from, and what it makes of it.                     *)
Choice(b, budget) == WithinContentBudget(ranked[b], budget)
OthersOf(b, budget) ==
  InOrder(ranked[b] \ Choice(b, budget)) \o InOrder(Ranks \ ranked[b])

LEMMA PackOfBuild ==
  ASSUME NEW b \in Builds, ranked[b] \in SUBSET Ranks, NEW budget \in ContentBudgets,
         NEW limit \in FallbackLimits,
         NEW p \in Packs(InOrder(Choice(b, budget)), OthersOf(b, budget), limit)
  PROVE  /\ InOrder(Choice(b, budget)) \in Seq(Ranks) /\ OthersOf(b, budget) \in Seq(Ranks)
         /\ \E m, n : PartsOf(p, InOrder(Choice(b, budget)), OthersOf(b, budget), m, n)
         /\ p \in [selected : Seq(Ranks), shown : Seq(Ranks)]
  <1>. DEFINE chosen == InOrder(Choice(b, budget))
              others == OthersOf(b, budget)
  <1>1. Choice(b, budget) \in SUBSET Ranks
    BY DEF Choice, WithinContentBudget
  <1>2. chosen \in Seq(Ranks)
    BY <1>1, InOrderLists
  <1>3. others \in Seq(Ranks)
    <2>1. ranked[b] \ Choice(b, budget) \in SUBSET Ranks /\ Ranks \ ranked[b] \in SUBSET Ranks
      OBVIOUS
    <2>2. /\ InOrder(ranked[b] \ Choice(b, budget)) \in Seq(Ranks)
          /\ InOrder(Ranks \ ranked[b]) \in Seq(Ranks)
      BY <2>1, InOrderLists
    <2>3. QED
      BY <2>2, ConcatProperties DEF OthersOf
  <1>4. limit \in Nat
    BY PagingAssumption
  <1>. HIDE DEF chosen, others
  <1>5. PICK m, n : PartsOf(p, chosen, others, m, n)
    BY <1>2, <1>3, <1>4, PackParts DEF chosen, others
  <1>6. SubSeq(chosen, 1, m) \in Seq(Ranks) /\ SubSeq(others, 1, n) \in Seq(Ranks)
    BY <1>2, <1>3, <1>5, FirstOnes DEF PartsOf
  <1>7. p \in [selected : Seq(Ranks), shown : Seq(Ranks)]
    BY <1>5, <1>6 DEF PartsOf
  <1>8. QED
    BY <1>2, <1>3, <1>5, <1>7 DEF chosen, others

(* What a pack leaves out, and how many they are.                          *)
LEMMA ExcludedLists ==
  ASSUME NEW p, p.selected \in Seq(Ranks)
  PROVE  /\ Excluded(p) \in Seq(Ranks) /\ IsInjective(Excluded(p))
         /\ ToSet(Excluded(p)) = Ranks \ ToSet(p.selected)
         /\ Len(Excluded(p)) \in 0 .. Count
         /\ IsInjective(p.selected) => Len(Excluded(p)) = Count - Len(p.selected)
  <1>. DEFINE s == p.selected
              E == Ranks \ ToSet(s)
  <1>1. /\ Excluded(p) \in Seq(Ranks) /\ IsInjective(Excluded(p))
        /\ ToSet(Excluded(p)) = E /\ Len(Excluded(p)) = Cardinality(E)
    BY InOrderLists DEF Excluded
  <1>2. Count \in Nat /\ IsFiniteSet(Ranks) /\ Cardinality(Ranks) = Count
    BY PagingAssumption, FS_Interval DEF Ranks
  <1>3. ToSet(s) \subseteq Ranks
    BY DEF ToSet
  <1>4. IsFiniteSet(E) /\ Cardinality(E) <= Count
    BY <1>2, FS_Subset
  <1>5. Cardinality(E) \in Nat
    BY <1>4, FS_CardinalityType
  <1>6. ASSUME IsInjective(s)
        PROVE  Cardinality(E) = Count - Len(s)
    <2>1. Cardinality(ToSet(s)) = Len(s)
      BY <1>6, InjectiveLength
    <2>2. Cardinality(E) = Cardinality(Ranks) - Cardinality(Ranks \cap ToSet(s))
      <3>1. IsFiniteSet(ToSet(s))
        BY <1>2, <1>3, FS_Subset
      <3>2. QED
        BY <1>2, <3>1, FS_Difference
    <2>3. Ranks \cap ToSet(s) = ToSet(s)
      BY <1>3
    <2>4. QED
      BY <1>2, <2>1, <2>2, <2>3
  <1>7. QED
    BY <1>1, <1>2, <1>4, <1>5, <1>6

(* The next page of a pack.                                                *)
PageEnd(b, limit) ==
  IF offset[b] + limit < Len(Excluded(pack[b])) THEN offset[b] + limit
                                                ELSE Len(Excluded(pack[b]))

LEMMA PageTypes ==
  ASSUME TypeOK, NEW b \in Builds, NEW limit \in PageLimits, offset[b] # None
  PROVE  /\ offset[b] \in 0 .. Count /\ limit \in Nat /\ Count \in Nat
         /\ PageEnd(b, limit) \in 0 .. Len(Excluded(pack[b]))
         /\ PageEnd(b, limit) \in 0 .. Count
         /\ SubSeq(Excluded(pack[b]), offset[b] + 1, PageEnd(b, limit)) \in Seq(Ranks)
  <1>. DEFINE e == Excluded(pack[b])
              l == Len(e)
              end == PageEnd(b, limit)
  <1>1. offset[b] \in 0 .. Count /\ limit \in Nat /\ Count \in Nat
    BY PagingAssumption DEF TypeOK
  <1>2. pack[b].selected \in Seq(Ranks)
    BY DEF TypeOK
  <1>3. e \in Seq(Ranks) /\ l \in 0 .. Count
    BY <1>2, ExcludedLists
  <1>. HIDE DEF e, l
  <1>4. end \in 0 .. l /\ end \in 0 .. Count
    BY <1>1, <1>3 DEF PageEnd, e, l
  <1>5. SubSeq(e, offset[b] + 1, end) \in Seq(Ranks)
    <2>1. \A i \in offset[b] + 1 .. end : e[i] \in Ranks
      <3>1. ASSUME NEW i \in offset[b] + 1 .. end
            PROVE  i \in 1 .. Len(e)
        BY <1>1, <1>4, <1>3 DEF l
      <3>2. QED
        BY <1>3, <3>1, ElementOfSeq
    <2>2. offset[b] + 1 \in Int /\ end \in Int
      BY <1>1, <1>3, <1>4
    <2>. HIDE DEF end
    <2>3. QED
      BY <2>1, <2>2, SubSeqProperties
  <1>6. QED
    BY <1>1, <1>4, <1>5 DEF e, l

-----------------------------------------------------------------------------
(* Types.                                                                  *)
LEMMA TypesInit == Init => TypeOK
  <1>1. NoRankings \in Tables /\ NoPack \in [selected : Seq(Ranks), shown : Seq(Ranks)]
    BY DEF NoRankings, Tables, NoPack
  <1>2. Count \in Nat /\ MaxRankings \in Nat
    BY PagingAssumption
  <1>3. \A limit \in 0 .. Count : 1 .. limit \subseteq Ranks
    BY <1>2 DEF Ranks
  <1>. SUFFICES ASSUME Init
                PROVE  TypeOK
    OBVIOUS
  <1>4. selected \subseteq Ranks
    BY <1>3 DEF Init
  <1>5. memory \in Seq(Builds) /\ Len(memory) <= MaxRankings
    BY <1>2 DEF Init
  <1>6. /\ paged \in [Builds -> Seq(Ranks)] /\ offset \in [Builds -> {None} \cup 0 .. Count]
        /\ ranked \in [Builds -> SUBSET Ranks]
    BY DEF Init
  <1>7. /\ saved \in Tables /\ other \in Tables /\ copy \in [Builds -> Tables]
        /\ pack \in [Builds -> [selected : Seq(Ranks), shown : Seq(Ranks)]]
    BY <1>1 DEF Init
  <1>8. QED
    BY <1>4, <1>5, <1>6, <1>7 DEF Init, TypeOK, Stages

LEMMA RememberedTypes ==
  ASSUME TypeOK, NEW b \in Builds
  PROVE  Remembered(b) \in Seq(Builds) /\ Len(Remembered(b)) <= MaxRankings
  <1>. DEFINE packs == Append(memory, b)
  <1>1. packs \in Seq(Builds) /\ Len(packs) = Len(memory) + 1 /\ Len(memory) \in Nat
        /\ Len(memory) <= MaxRankings /\ MaxRankings \in Nat
    BY PagingAssumption DEF TypeOK
  <1>2. packs # <<>>
    BY <1>1
  <1>3. Remembered(b) = IF Len(packs) > MaxRankings THEN Tail(packs) ELSE packs
    BY DEF Remembered
  <1>. HIDE DEF packs
  <1>4. Tail(packs) \in Seq(Builds) /\ Len(Tail(packs)) = Len(packs) - 1
    BY <1>1, <1>2, HeadTailProperties
  <1>5. QED
    BY <1>1, <1>3, <1>4

LEMMA FailTypes ==
  ASSUME TypeOK, NEW b \in Builds, Fail(b)
  PROVE  /\ stage' \in [Builds -> Stages]
         /\ told' \in [Builds -> {"nothing", "pack", "error"}]
  BY DEF TypeOK, Fail, Goto, Stages

LEMMA SaveTypes ==
  ASSUME TypeOK, NEW b \in Builds, NEW table \in Tables, NEW next \in Stages,
         Save(b, table, next)
  PROVE  TypeOK'
  <1>1. saved' \in Tables /\ kept' \subseteq Builds /\ copy' \in [Builds -> Tables]
    BY DEF Save, TypeOK, Tables
  <1>2. /\ stage' \in [Builds -> Stages]
        /\ told' \in [Builds -> {"nothing", "pack", "error"}]
    <2>1. CASE Fail(b)
      BY <2>1, FailTypes
    <2>2. CASE Goto(b, next) /\ UNCHANGED told
      BY <2>2 DEF Goto, TypeOK
    <2>3. QED
      BY <2>1, <2>2 DEF Save
  <1>3. QED
    BY <1>1, <1>2 DEF Save, TypeOK, ranking

LEMMA TypesNext ==
  ASSUME TypeOK, [Next]_vars
  PROVE  TypeOK'
  <1>1. ASSUME NEW b \in Builds, LoadCachedRanking(b)
        PROVE  TypeOK'
    <2>1. ranked' \in [Builds -> SUBSET Ranks]
      <3>1. saved.cached # None => saved.cached \in SUBSET Ranks
        BY DEF TypeOK, Tables
      <3>2. QED
        BY <1>1, <3>1 DEF LoadCachedRanking, TypeOK
    <2>2. /\ stage' \in [Builds -> Stages]
          /\ told' \in [Builds -> {"nothing", "pack", "error"}]
      BY <1>1, FailTypes DEF LoadCachedRanking, Goto, TypeOK, Stages
    <2>3. QED
      BY <1>1, <2>1, <2>2 DEF LoadCachedRanking, TypeOK, ranking
  <1>2. ASSUME NEW b \in Builds, BuildContextPack(b)
        PROVE  TypeOK'
    <2>1. /\ stage' \in [Builds -> Stages]
          /\ told' \in [Builds -> {"nothing", "pack", "error"}]
      BY <1>2, FailTypes DEF BuildContextPack, Goto, TypeOK, Stages
    <2>2. memory' \in Seq(Builds) /\ Len(memory') <= MaxRankings
      BY <1>2, RememberedTypes DEF BuildContextPack, TypeOK
    <2>3. pack' \in [Builds -> [selected : Seq(Ranks), shown : Seq(Ranks)]]
      <3>1. CASE UNCHANGED pack
        BY <3>1 DEF TypeOK
      <3>2. ASSUME NEW budget \in ContentBudgets, NEW limit \in FallbackLimits,
                   NEW p \in Packs(InOrder(Choice(b, budget)), OthersOf(b, budget), limit),
                   pack' = [pack EXCEPT ![b] = p]
            PROVE  pack' \in [Builds -> [selected : Seq(Ranks), shown : Seq(Ranks)]]
        <4>1. ranked[b] \in SUBSET Ranks
          BY DEF TypeOK
        <4>2. p \in [selected : Seq(Ranks), shown : Seq(Ranks)]
          BY <4>1, PackOfBuild
        <4>3. QED
          BY <3>2, <4>2 DEF TypeOK
      <3>3. QED
        BY <1>2, <3>1, <3>2 DEF BuildContextPack, Choice, OthersOf
    <2>4. QED
      BY <1>2, <2>1, <2>2, <2>3 DEF BuildContextPack, TypeOK, ranking
  <1>3. ASSUME NEW b \in Builds, OpenStore(b)
        PROVE  TypeOK'
    <2>1. /\ stage' \in [Builds -> Stages]
          /\ told' \in [Builds -> {"nothing", "pack", "error"}]
      BY <1>3, FailTypes DEF OpenStore, Goto, TypeOK, Stages
    <2>2. QED
      BY <1>3, <2>1 DEF OpenStore, TypeOK, ranking
  <1>4. ASSUME NEW b \in Builds, SaveEvidence(b)
        PROVE  TypeOK'
    <2>1. [copy[b] EXCEPT !.packs = @ \cup {b}] \in Tables
      BY DEF TypeOK, Tables
    <2>2. QED
      BY <1>4, <2>1, SaveTypes DEF SaveEvidence, Stages
  <1>5. ASSUME NEW b \in Builds, SaveCachedRanking(b)
        PROVE  TypeOK'
    <2>1. pack[b].selected \in Seq(Ranks) /\ copy[b] \in Tables
      BY DEF TypeOK
    <2>2. ToSet(pack[b].selected) \in SUBSET Ranks
      BY <2>1 DEF ToSet
    <2>3. [copy[b] EXCEPT !.cached = ToSet(pack[b].selected)] \in Tables
      BY <2>1, <2>2 DEF Tables
    <2>4. QED
      BY <1>5, <2>3, SaveTypes DEF SaveCachedRanking, Stages
  <1>6. ASSUME NEW b \in Builds, Answer(b)
        PROVE  TypeOK'
    <2>1. FirstOffset(pack[b]) \in {None} \cup 0 .. Count
      <3>1. pack[b].selected \in Seq(Ranks) /\ pack[b].shown \in Seq(Ranks) /\ Count \in Nat
        BY PagingAssumption DEF TypeOK
      <3>2. Len(pack[b].selected) \in Nat /\ Len(pack[b].shown) \in Nat
        BY <3>1, LenProperties
      <3>3. \A i, j \in Nat : i + j < Count => j \in 0 .. Count
        BY <3>1
      <3>4. QED
        BY <3>2, <3>3 DEF FirstOffset
    <2>2. /\ stage' \in [Builds -> Stages]
          /\ told' \in [Builds -> {"nothing", "pack", "error"}]
          /\ offset' \in [Builds -> {None} \cup 0 .. Count]
      BY <1>6, <2>1 DEF Answer, Goto, TypeOK, Stages
    <2>3. QED
      BY <1>6, <2>2 DEF Answer, TypeOK, ranking
  <1>7. ASSUME NEW b \in Builds, Expire(b)
        PROVE  TypeOK'
    BY <1>7 DEF Expire, TypeOK, ranking, builder
  <1>8. ASSUME NEW b \in Builds, NEW limit \in PageLimits, ExpandContext(b, limit)
        PROVE  TypeOK'
    <2>. DEFINE e == Excluded(pack[b])
                end == PageEnd(b, limit)
                page == SubSeq(e, offset[b] + 1, end)
    <2>1. page \in Seq(Ranks) /\ end \in 0 .. Count
      BY <1>8, PageTypes DEF ExpandContext
    <2>2. /\ paged' = [paged EXCEPT ![b] = @ \o page]
          /\ offset' = [offset EXCEPT ![b] = IF end < Len(e) THEN end ELSE None]
      BY <1>8 DEF ExpandContext, PageEnd
    <2>. HIDE DEF e, end, page
    <2>3. paged[b] \o page \in Seq(Ranks)
      BY <2>1, ConcatProperties DEF TypeOK
    <2>4. /\ paged' \in [Builds -> Seq(Ranks)]
          /\ offset' \in [Builds -> {None} \cup 0 .. Count]
      BY <2>1, <2>2, <2>3 DEF TypeOK
    <2>5. QED
      BY <1>8, <2>4 DEF ExpandContext, TypeOK, ranking, builder
  <1>9. CASE Restart
    <2>1. <<>> \in Seq(Builds) /\ Len(<<>>) <= MaxRankings
      BY PagingAssumption
    <2>2. QED
      BY <1>9, <2>1 DEF Restart, TypeOK, ranking, Stages
  <1>10. CASE OtherSession
    <2>1. NoRankings \in Tables
      BY DEF NoRankings, Tables
    <2>2. QED
      BY <1>10, <2>1 DEF OtherSession, TypeOK, ranking, builder, client
  <1>11. CASE UNCHANGED vars
    BY <1>11 DEF vars, ranking, builder, client, TypeOK
  <1>12. QED
    BY <1>1, <1>2, <1>3, <1>4, <1>5, <1>6, <1>7, <1>8, <1>9, <1>10, <1>11 DEF Next, Build

(* Whatever the builds, pages, restarts and other sessions do: every table *)
(* that a session reads or saves and every pack, page and cursor keeps its *)
(* form, and the memory of the server holds at most MAX_IN_MEMORY_RANKINGS *)
(* packs.                                                                  *)
THEOREM Types == Spec => []TypeOK
  <1>1. QED
    BY TypesInit, TypesNext, PTL DEF Spec

-----------------------------------------------------------------------------
(* The builds of a task are made with one content budget.                  *)
OneContentBudget == \A x, y \in ContentBudgets : x = y

(* What every content budget leaves as it is, and the beginnings of the    *)
(* ranks.                                                                  *)
Fitting ==
  {R \in SUBSET Ranks : \A budget \in ContentBudgets : WithinContentBudget(R, budget) = R}
Leads == {1 .. limit : limit \in 0 .. Count}

LEMMA FittingStays ==
  ASSUME tokens' = tokens
  PROVE  Fitting' = Fitting
  BY DEF Fitting, WithinContentBudget

LEMMA FittingParts ==
  ASSUME TypeOK, OneContentBudget, NEW S \in SUBSET Ranks, NEW budget \in ContentBudgets,
         NEW R \in SUBSET WithinContentBudget(S, budget)
  PROVE  R \in Fitting
  <1>1. R \in SUBSET Ranks
    BY DEF WithinContentBudget
  <1>2. tokens \in [Ranks -> Nat] /\ budget \in Nat
    BY PagingAssumption DEF TypeOK
  <1>3. WithinContentBudget(R, budget) = R
    BY <1>2, FitsAgain
  <1>4. QED
    BY <1>1, <1>3 DEF Fitting, OneContentBudget

(* What a pack shows is the beginning of what its pages are cut from.      *)
Cut(p) ==
  /\ IsInjective(p.selected)
  /\ Len(p.shown) <= Len(Excluded(p)) /\ p.shown = SubSeq(Excluded(p), 1, Len(p.shown))

(* With a ranking that puts its candidates first, and with one that the    *)
(* content budget leaves as it is, a build lists the others as its         *)
(* evidence does.                                                          *)
LEMMA OthersAreExcluded ==
  ASSUME NEW b \in Builds, ranked[b] \in Leads \cup Fitting, NEW budget \in ContentBudgets
  PROVE  OthersOf(b, budget) = InOrder(Ranks \ Choice(b, budget))
  <1>. DEFINE R == ranked[b]
              C == Choice(b, budget)
  <1>1. C \subseteq R
    BY DEF Choice, WithinContentBudget
  <1>2. CASE R \in Leads
    <2>1. PICK limit \in 0 .. Count : R = 1 .. limit
      BY <1>2 DEF Leads
    <2>2. Count \in Nat
      BY PagingAssumption
    <2>. HIDE DEF R, C
    <2>3. /\ R \ C \in SUBSET (1 .. limit) /\ Ranks \ R \in SUBSET ((limit + 1) .. Count)
          /\ (R \ C) \cup (Ranks \ R) = Ranks \ C
      BY <1>1, <2>1, <2>2 DEF Ranks
    <2>4. InOrder((R \ C) \cup (Ranks \ R)) = InOrder(R \ C) \o InOrder(Ranks \ R)
      BY <2>3, InOrderJoin
    <2>5. QED
      BY <2>3, <2>4 DEF OthersOf, R, C
  <1>3. CASE R \in Fitting
    <2>1. C = R
      BY <1>3 DEF Fitting, Choice
    <2>2. R \ C = {} /\ InOrder(R \ C) = <<>>
      BY <2>1, InOrderOfNone
    <2>3. InOrder(Ranks \ R) \in Seq(Ranks)
      BY InOrderLists
    <2>4. <<>> \o InOrder(Ranks \ R) = InOrder(Ranks \ R)
      BY <2>3, ConcatEmptySeq
    <2>5. QED
      BY <2>1, <2>2, <2>4 DEF OthersOf
  <1>4. QED
    BY <1>2, <1>3

LEMMA PackIsCut ==
  ASSUME TypeOK, OneContentBudget, NEW b \in Builds, ranked[b] \in Leads \cup Fitting,
         NEW budget \in ContentBudgets, NEW limit \in FallbackLimits,
         NEW p \in Packs(InOrder(Choice(b, budget)), OthersOf(b, budget), limit)
  PROVE  Cut(p) /\ ToSet(p.selected) \in Fitting
  <1>. DEFINE C == Choice(b, budget)
              chosen == InOrder(C)
              others == OthersOf(b, budget)
  <1>1. ranked[b] \in SUBSET Ranks /\ C \in SUBSET Ranks
    BY DEF TypeOK, Choice, WithinContentBudget
  <1>2. /\ chosen \in Seq(Ranks) /\ others \in Seq(Ranks)
        /\ \E m, n : PartsOf(p, chosen, others, m, n)
        /\ p \in [selected : Seq(Ranks), shown : Seq(Ranks)]
    BY <1>1, PackOfBuild
  <1>3. PICK m, n : PartsOf(p, chosen, others, m, n)
    BY <1>2
  <1>4. ToSet(chosen) = C /\ IsInjective(chosen)
    BY <1>1, InOrderLists
  <1>5. others = InOrder(Ranks \ C)
    BY OthersAreExcluded
  <1>. HIDE DEF C, chosen, others
  <1>6. /\ p.selected = SubSeq(chosen, 1, m) /\ p.shown = SubSeq(others, 1, n)
        /\ m \in 0 .. Len(chosen) /\ n \in 0 .. Len(others) /\ (m = Len(chosen) \/ n = 0)
    BY <1>3 DEF PartsOf
  <1>7. ToSet(p.selected) \in Fitting
    <2>1. ToSet(p.selected) \subseteq C
      BY <1>2, <1>4, <1>6, FirstOnes
    <2>2. QED
      BY <1>1, <2>1, FittingParts DEF C, Choice
  <1>8. IsInjective(p.selected)
    <2>1. /\ p.selected \in Seq(Ranks) /\ Len(p.selected) = m
          /\ \A i \in 1 .. m : p.selected[i] = chosen[i]
      BY <1>2, <1>6, FirstOnes
    <2>2. DOMAIN p.selected = 1 .. m /\ 1 .. m \subseteq DOMAIN chosen
      BY <1>2, <1>6, <2>1
    <2>3. QED
      BY <1>4, <2>1, <2>2 DEF IsInjective
  <1>9. Len(p.shown) <= Len(Excluded(p)) /\ p.shown = SubSeq(Excluded(p), 1, Len(p.shown))
    <2>1. p.shown \in Seq(Ranks) /\ Len(p.shown) = n /\ p.selected \in Seq(Ranks)
      BY <1>2, <1>6, FirstOnes
    <2>2. Excluded(p) \in Seq(Ranks) /\ Len(Excluded(p)) \in Nat
      BY <2>1, ExcludedLists
    <2>3. CASE n = 0
      <3>1. p.shown = <<>>
        BY <2>1, <2>3
      <3>2. SubSeq(Excluded(p), 1, 0) = <<>>
        BY SubSeqEmpty
      <3>3. QED
        BY <2>1, <2>2, <2>3, <3>1, <3>2
    <2>4. CASE m = Len(chosen)
      <3>1. p.selected = chosen
        BY <1>2, <1>6, <2>4, AllOfThem
      <3>2. Excluded(p) = others
        BY <1>4, <1>5, <3>1 DEF Excluded
      <3>3. n <= Len(others)
        BY <1>6
      <3>4. QED
        BY <1>6, <2>1, <3>2, <3>3
    <2>5. QED
      BY <1>6, <2>3, <2>4
  <1>10. QED
    BY <1>7, <1>8, <1>9 DEF Cut

-----------------------------------------------------------------------------
(* The rankings that builds work with, in the database file, in a session  *)
(* and in a build: each puts its candidates first or fits the budget.      *)
RankingsInv ==
  /\ selected \in Leads
  /\ saved.cached \in {None} \cup Fitting /\ other.cached \in {None} \cup Fitting
  /\ \A b \in Builds : copy[b].cached \in {None} \cup Fitting
  /\ \A b \in Builds : ranked[b] \in Leads \cup Fitting
  /\ \A b \in Builds : Cut(pack[b]) /\ ToSet(pack[b].selected) \in Fitting

(* How much of its evidence the client of a pack has been given.           *)
Reached(b) == IF offset[b] = None THEN Len(Excluded(pack[b])) ELSE offset[b]
PagesOf(b) ==
  IF told[b] = "pack"
  THEN /\ stage[b] = "done" /\ Reached(b) <= Len(Excluded(pack[b]))
       /\ pack[b].shown \o paged[b] = SubSeq(Excluded(pack[b]), 1, Reached(b))
  ELSE paged[b] = <<>>
PagesInv == \A b \in Builds : PagesOf(b)

LEMMA OnceInit ==
  ASSUME TypeOK, OneContentBudget, Init
  PROVE  RankingsInv /\ PagesInv
  <1>1. Count \in Nat /\ {} \in Leads
    <2>1. Count \in Nat /\ 0 \in 0 .. Count /\ 1 .. 0 = {}
      BY PagingAssumption
    <2>2. QED
      BY <2>1 DEF Leads
  <1>2. selected \in Leads
    BY DEF Init, Leads
  <1>3. {} \in Fitting
    BY DEF Fitting, WithinContentBudget
  <1>4. NoPack.selected = <<>> /\ NoPack.shown = <<>> /\ ToSet(<<>>) = {}
    BY DEF NoPack, ToSet
  <1>5. Cut(NoPack)
    <2>1. NoPack.selected \in Seq(Ranks)
      BY <1>4, EmptySeq
    <2>2. Excluded(NoPack) \in Seq(Ranks) /\ Len(Excluded(NoPack)) \in Nat
      BY <2>1, ExcludedLists
    <2>3. SubSeq(Excluded(NoPack), 1, 0) = <<>>
      BY SubSeqEmpty
    <2>4. QED
      BY <1>4, <2>2, <2>3 DEF Cut, IsInjective
  <1>6. RankingsInv
    BY <1>1, <1>2, <1>3, <1>4, <1>5 DEF Init, RankingsInv, NoRankings
  <1>7. PagesInv
    BY DEF Init, PagesInv, PagesOf
  <1>8. QED
    BY <1>6, <1>7

(* A step leaves the rankings well if what it writes is.                   *)
LEMMA RankingsKept ==
  ASSUME RankingsInv, UNCHANGED ranking, UNCHANGED <<ranked, pack>>,
         saved'.cached \in {None} \cup Fitting, other'.cached \in {None} \cup Fitting,
         \A b \in Builds : copy'[b].cached \in {None} \cup Fitting
  PROVE  RankingsInv'
  <1>1. Fitting' = Fitting /\ selected' = selected
    BY FittingStays DEF ranking
  <1>2. QED
    BY <1>1 DEF RankingsInv, Cut, Excluded, Leads

LEMMA RankingsSave ==
  ASSUME TypeOK, RankingsInv, NEW b \in Builds, NEW table \in Tables, NEW next,
         table.cached \in {None} \cup Fitting, Save(b, table, next)
  PROVE  RankingsInv'
  <1>1. saved' \in {saved, table} /\ other' = other /\ copy' = [copy EXCEPT ![b] = table]
    BY DEF Save
  <1>2. \A c \in Builds : copy'[c].cached \in {None} \cup Fitting
    BY <1>1 DEF TypeOK, RankingsInv
  <1>3. saved'.cached \in {None} \cup Fitting /\ other'.cached \in {None} \cup Fitting
    BY <1>1 DEF RankingsInv
  <1>4. UNCHANGED ranking /\ UNCHANGED <<ranked, pack>>
    BY DEF Save
  <1>5. QED
    BY <1>2, <1>3, <1>4, RankingsKept

LEMMA RankingsNext ==
  ASSUME TypeOK, OneContentBudget, RankingsInv, [Next]_vars
  PROVE  RankingsInv'
  <1>1. ASSUME NEW b \in Builds, LoadCachedRanking(b)
        PROVE  RankingsInv'
    <2>1. ranked' = ranked \/ \E R \in Leads \cup Fitting : ranked' = [ranked EXCEPT ![b] = R]
      <3>1. (IF cachePath /\ saved.cached # None THEN saved.cached ELSE selected)
              \in Leads \cup Fitting
        BY DEF RankingsInv
      <3>2. QED
        BY <1>1, <3>1 DEF LoadCachedRanking
    <2>2. \A c \in Builds : ranked'[c] \in Leads \cup Fitting
      BY <2>1 DEF TypeOK, RankingsInv
    <2>3. Fitting' = Fitting /\ UNCHANGED <<selected, saved, other, copy, pack>>
      BY <1>1, FittingStays DEF LoadCachedRanking, ranking
    <2>4. QED
      BY <2>2, <2>3 DEF RankingsInv, Cut, Excluded, Leads
  <1>2. ASSUME NEW b \in Builds, BuildContextPack(b)
        PROVE  RankingsInv'
    <2>1. pack' = pack
          \/ \E p : Cut(p) /\ ToSet(p.selected) \in Fitting /\ pack' = [pack EXCEPT ![b] = p]
      <3>1. ASSUME NEW budget \in ContentBudgets, NEW limit \in FallbackLimits,
                   NEW p \in Packs(InOrder(Choice(b, budget)), OthersOf(b, budget), limit)
            PROVE  Cut(p) /\ ToSet(p.selected) \in Fitting
        <4>1. ranked[b] \in Leads \cup Fitting
          BY DEF RankingsInv
        <4>2. QED
          BY <4>1, PackIsCut
      <3>2. QED
        BY <1>2, <3>1 DEF BuildContextPack, Choice, OthersOf
    <2>2. \A c \in Builds : Cut(pack'[c]) /\ ToSet(pack'[c].selected) \in Fitting
      BY <2>1 DEF TypeOK, RankingsInv
    <2>3. Fitting' = Fitting /\ UNCHANGED <<selected, saved, other, copy, ranked>>
      BY <1>2, FittingStays DEF BuildContextPack, ranking
    <2>4. QED
      BY <2>2, <2>3 DEF RankingsInv, Cut, Excluded, Leads
  <1>3. ASSUME NEW b \in Builds, OpenStore(b)
        PROVE  RankingsInv'
    <2>1. \A c \in Builds : copy'[c].cached \in {None} \cup Fitting
      BY <1>3 DEF OpenStore, TypeOK, RankingsInv
    <2>2. QED
      BY <1>3, <2>1, RankingsKept DEF OpenStore, RankingsInv
  <1>4. ASSUME NEW b \in Builds, SaveEvidence(b)
        PROVE  RankingsInv'
    <2>. DEFINE table == [copy[b] EXCEPT !.packs = @ \cup {b}]
    <2>1. table \in Tables /\ table.cached = copy[b].cached
      BY DEF TypeOK, Tables
    <2>2. table.cached \in {None} \cup Fitting
      BY <2>1 DEF RankingsInv
    <2>3. Save(b, table, "save_cached")
      BY <1>4 DEF SaveEvidence
    <2>. HIDE DEF table
    <2>4. QED
      BY <2>1, <2>2, <2>3, RankingsSave
  <1>5. ASSUME NEW b \in Builds, SaveCachedRanking(b)
        PROVE  RankingsInv'
    <2>. DEFINE table == [copy[b] EXCEPT !.cached = ToSet(pack[b].selected)]
    <2>1. ToSet(pack[b].selected) \in Fitting /\ copy[b] \in Tables
      BY DEF TypeOK, RankingsInv
    <2>2. table \in Tables /\ table.cached = ToSet(pack[b].selected)
      BY <2>1 DEF Tables, Fitting
    <2>3. Save(b, table, "answer")
      BY <1>5 DEF SaveCachedRanking
    <2>. HIDE DEF table
    <2>4. QED
      BY <2>1, <2>2, <2>3, RankingsSave
  <1>6. ASSUME NEW b \in Builds, Answer(b) \/ Expire(b)
        PROVE  RankingsInv'
    BY <1>6, RankingsKept DEF Answer, Expire, builder, RankingsInv
  <1>7. ASSUME NEW b \in Builds, NEW limit \in PageLimits, ExpandContext(b, limit)
        PROVE  RankingsInv'
    BY <1>7, RankingsKept DEF ExpandContext, builder, RankingsInv
  <1>8. CASE Restart
    BY <1>8, RankingsKept DEF Restart, RankingsInv
  <1>9. CASE OtherSession
    <2>1. NoRankings.cached = None
      BY DEF NoRankings
    <2>2. /\ saved'.cached \in {None} \cup Fitting /\ other'.cached \in {None} \cup Fitting
          /\ UNCHANGED ranking /\ UNCHANGED <<ranked, pack, copy>>
      BY <1>9, <2>1 DEF OtherSession, RankingsInv, builder
    <2>3. QED
      BY <2>2, RankingsKept DEF RankingsInv
  <1>10. CASE UNCHANGED vars
    BY <1>10, RankingsKept DEF vars, builder, RankingsInv
  <1>11. QED
    BY <1>1, <1>2, <1>3, <1>4, <1>5, <1>6, <1>7, <1>8, <1>9, <1>10 DEF Next, Build

(* A page goes on where the ones before it end.                            *)
LEMMA NextPage ==
  ASSUME NEW e \in Seq(Ranks), NEW m \in 0 .. Len(e), NEW n \in m .. Len(e)
  PROVE  SubSeq(e, 1, m) \o SubSeq(e, m + 1, n) = SubSeq(e, 1, n)
  <1>1. 1 \in 1 .. Len(e) + 1 /\ m \in 1 - 1 .. Len(e)
    OBVIOUS
  <1>2. QED
    BY <1>1, ConcatAdjacentSubSeq

LEMMA JoinThree ==
  ASSUME NEW s \in Seq(Ranks), NEW t \in Seq(Ranks), NEW u \in Seq(Ranks)
  PROVE  s \o (t \o u) = (s \o t) \o u
  BY ConcatAssociative

(* Builds whose client has heard of no pack move on; the others are done.  *)
LEMMA PagesKept ==
  ASSUME PagesInv, UNCHANGED <<offset, paged>>,
         \A b \in Builds : told[b] = "pack"
           => told'[b] = "pack" /\ stage'[b] = "done" /\ pack'[b] = pack[b],
         \A b \in Builds : told[b] # "pack" => told'[b] # "pack"
  PROVE  PagesInv'
  <1>1. ASSUME NEW b \in Builds
        PROVE  PagesOf(b)'
    <2>1. CASE told[b] = "pack"
      BY <2>1 DEF PagesInv, PagesOf, Reached, Excluded
    <2>2. CASE told[b] # "pack"
      BY <2>2 DEF PagesInv, PagesOf
    <2>3. QED
      BY <2>1, <2>2
  <1>2. QED
    BY <1>1 DEF PagesInv

LEMMA FirstPage ==
  ASSUME TypeOK, RankingsInv, PagesInv, NEW b \in Builds, Answer(b), told[b] = "nothing"
  PROVE  PagesOf(b)'
  <1>. DEFINE p == pack[b]
              e == Excluded(p)
  <1>1. /\ told'[b] = "pack" /\ stage'[b] = "done" /\ offset'[b] = FirstOffset(p)
        /\ pack' = pack /\ paged' = paged
    BY DEF Answer, Goto, TypeOK
  <1>2. paged[b] = <<>>
    BY DEF PagesInv, PagesOf
  <1>3. p.selected \in Seq(Ranks) /\ p.shown \in Seq(Ranks)
    BY DEF TypeOK
  <1>4. Cut(p)
    BY DEF RankingsInv
  <1>5. e \in Seq(Ranks) /\ Len(e) \in 0 .. Count /\ Len(e) = Count - Len(p.selected)
    BY <1>3, <1>4, ExcludedLists DEF Cut
  <1>6. Len(p.shown) \in Nat /\ Len(p.selected) \in Nat /\ Count \in Nat
    BY <1>3, LenProperties, PagingAssumption
  <1>7. Len(p.shown) <= Len(e) /\ p.shown = SubSeq(e, 1, Len(p.shown))
    BY <1>4 DEF Cut
  <1>8. FirstOffset(p) = IF Len(p.selected) + Len(p.shown) < Count THEN Len(p.shown) ELSE None
    BY DEF FirstOffset
  <1>9. Reached(b)' = IF FirstOffset(p) = None THEN Len(e) ELSE FirstOffset(p)
    BY <1>1 DEF Reached, Excluded
  <1>. HIDE DEF e, p
  <1>10. Reached(b)' = Len(p.shown)
    <2>1. CASE Len(p.selected) + Len(p.shown) < Count
      <3>1. Len(p.shown) \in 0 .. Count
        <4>1. \A i, j \in Nat : i + j < Count => j \in 0 .. Count
          BY <1>6
        <4>2. QED
          BY <1>6, <2>1, <4>1
      <3>2. Len(p.shown) # None
        BY <3>1, PagingAssumption
      <3>3. QED
        BY <1>8, <1>9, <2>1, <3>2
    <2>2. CASE ~(Len(p.selected) + Len(p.shown) < Count)
      <3>1. Len(e) = Len(p.shown)
        <4>1. \A i, j, k \in Nat : k = Count - i /\ j <= k /\ ~(i + j < Count) => k = j
          BY <1>6
        <4>2. Len(e) \in Nat /\ Len(e) = Count - Len(p.selected)
          BY <1>5
        <4>3. QED
          BY <1>6, <1>7, <2>2, <4>1, <4>2
      <3>2. QED
        BY <1>8, <1>9, <2>2, <3>1
    <2>3. QED
      BY <2>1, <2>2
  <1>11. p.shown \o <<>> = p.shown
    BY <1>3, ConcatEmptySeq
  <1>12. QED
    BY <1>1, <1>2, <1>7, <1>10, <1>11 DEF PagesOf, p, e, Excluded

LEMMA MorePages ==
  ASSUME TypeOK, PagesInv, NEW b \in Builds, NEW limit \in PageLimits, ExpandContext(b, limit)
  PROVE  PagesOf(b)'
  <1>. DEFINE e == Excluded(pack[b])
              k == offset[b]
              end == PageEnd(b, limit)
              page == SubSeq(e, k + 1, end)
              s == pack[b].shown
  <1>1. /\ told[b] = "pack" /\ k # None /\ pack' = pack /\ stage' = stage /\ told' = told
        /\ paged'[b] = paged[b] \o page
        /\ offset'[b] = IF end < Len(e) THEN end ELSE None
    BY DEF ExpandContext, PageEnd, builder, TypeOK
  <1>2. stage[b] = "done" /\ k <= Len(e) /\ s \o paged[b] = SubSeq(e, 1, k)
    BY <1>1 DEF PagesInv, PagesOf, Reached
  <1>3. /\ k \in 0 .. Count /\ limit \in Nat /\ Count \in Nat /\ end \in 0 .. Len(e)
        /\ end \in 0 .. Count /\ page \in Seq(Ranks)
    BY <1>1, PageTypes
  <1>4. e \in Seq(Ranks) /\ Len(e) \in Nat
    BY ExcludedLists DEF TypeOK
  <1>5. k <= end
    BY <1>2, <1>3, <1>4 DEF PageEnd
  <1>6. s \in Seq(Ranks) /\ paged[b] \in Seq(Ranks)
    BY DEF TypeOK
  <1>7. Reached(b)' = IF offset'[b] = None THEN Len(e) ELSE offset'[b]
    BY <1>1 DEF Reached, Excluded
  <1>. HIDE DEF e, k, end, page, s
  <1>8. Reached(b)' = end
    <2>1. CASE end < Len(e)
      <3>1. end # None
        BY <1>3, PagingAssumption
      <3>2. QED
        BY <1>1, <1>7, <2>1, <3>1
    <2>2. CASE ~(end < Len(e))
      <3>1. end = Len(e)
        BY <1>3, <1>4, <2>2
      <3>2. QED
        BY <1>1, <1>7, <2>2, <3>1
    <2>3. QED
      BY <2>1, <2>2
  <1>9. s \o paged'[b] = SubSeq(e, 1, end)
    <2>1. s \o (paged[b] \o page) = (s \o paged[b]) \o page
      BY <1>3, <1>6, JoinThree
    <2>2. k \in 0 .. Len(e) /\ end \in k .. Len(e)
      BY <1>2, <1>3, <1>4, <1>5
    <2>3. SubSeq(e, 1, k) \o page = SubSeq(e, 1, end)
      BY <1>4, <2>2, NextPage DEF page
    <2>4. QED
      BY <1>1, <1>2, <2>1, <2>3
  <1>10. end <= Len(e)
    BY <1>3, <1>4
  <1>11. QED
    BY <1>1, <1>2, <1>8, <1>9, <1>10 DEF PagesOf, s, e, Excluded

LEMMA PagesNext ==
  ASSUME TypeOK, RankingsInv, PagesInv, [Next]_vars
  PROVE  PagesInv'
  <1>d. \A b \in Builds : told[b] = "pack" => stage[b] = "done"
    BY DEF PagesInv, PagesOf
  <1>1. ASSUME NEW b \in Builds, LoadCachedRanking(b) \/ BuildContextPack(b) \/ OpenStore(b)
        PROVE  PagesInv'
    <2>1. told[b] # "pack"
      BY <1>1, <1>d DEF LoadCachedRanking, BuildContextPack, OpenStore
    <2>2. /\ UNCHANGED <<offset, paged>>
          /\ \A c \in Builds \ {b} : UNCHANGED <<told[c], stage[c], pack[c]>>
          /\ told'[b] \in {told[b], "error"}
      BY <1>1 DEF LoadCachedRanking, BuildContextPack, OpenStore, Fail, Goto, TypeOK
    <2>3. QED
      BY <1>d, <2>1, <2>2, PagesKept
  <1>2. ASSUME NEW b \in Builds, SaveEvidence(b) \/ SaveCachedRanking(b)
        PROVE  PagesInv'
    <2>1. told[b] # "pack"
      BY <1>2, <1>d DEF SaveEvidence, SaveCachedRanking
    <2>2. /\ UNCHANGED <<offset, paged, pack>>
          /\ \A c \in Builds \ {b} : UNCHANGED <<told[c], stage[c]>>
          /\ told'[b] \in {told[b], "error"}
      BY <1>2 DEF SaveEvidence, SaveCachedRanking, Save, Fail, Goto, TypeOK
    <2>3. QED
      BY <1>d, <2>1, <2>2, PagesKept
  <1>3. ASSUME NEW b \in Builds, Answer(b)
        PROVE  PagesInv'
    <2>1. CASE told[b] = "nothing"
      <3>1. ASSUME NEW c \in Builds \ {b}
            PROVE  PagesOf(c)'
        <4>1. /\ told'[c] = told[c] /\ stage'[c] = stage[c] /\ offset'[c] = offset[c]
              /\ pack' = pack /\ paged' = paged
          BY <1>3, <2>1 DEF Answer, Goto, TypeOK
        <4>2. QED
          BY <4>1 DEF PagesInv, PagesOf, Reached, Excluded
      <3>2. QED
        BY <1>3, <2>1, <3>1, FirstPage DEF PagesInv
    <2>2. CASE told[b] # "nothing"
      <3>1. /\ UNCHANGED <<offset, paged, pack, told>> /\ stage'[b] = "done"
            /\ \A c \in Builds \ {b} : stage'[c] = stage[c]
        BY <1>3, <2>2 DEF Answer, Goto, TypeOK
      <3>2. QED
        BY <1>d, <3>1, PagesKept
    <2>3. QED
      BY <2>1, <2>2
  <1>4. ASSUME NEW b \in Builds, Expire(b)
        PROVE  PagesInv'
    <2>1. /\ UNCHANGED <<offset, paged, pack, stage>> /\ told[b] # "pack" /\ told'[b] # "pack"
          /\ \A c \in Builds \ {b} : told'[c] = told[c]
      BY <1>4 DEF Expire, builder, TypeOK
    <2>2. QED
      BY <1>d, <2>1, PagesKept
  <1>5. ASSUME NEW b \in Builds, NEW limit \in PageLimits, ExpandContext(b, limit)
        PROVE  PagesInv'
    <2>1. ASSUME NEW c \in Builds \ {b}
          PROVE  PagesOf(c)'
      <3>1. /\ told' = told /\ stage' = stage /\ pack' = pack
            /\ paged'[c] = paged[c] /\ offset'[c] = offset[c]
        BY <1>5 DEF ExpandContext, builder, TypeOK
      <3>2. QED
        BY <3>1 DEF PagesInv, PagesOf, Reached, Excluded
    <2>2. QED
      BY <1>5, <2>1, MorePages DEF PagesInv
  <1>6. CASE Restart
    <2>1. /\ UNCHANGED <<offset, paged, pack>>
          /\ \A c \in Builds : /\ told[c] = "pack" => told'[c] = "pack"
                               /\ told[c] # "pack" => told'[c] # "pack"
                               /\ stage[c] = "done" => stage'[c] = "done"
      BY <1>6 DEF Restart, TypeOK
    <2>2. QED
      BY <1>d, <2>1, PagesKept
  <1>7. CASE OtherSession \/ UNCHANGED vars
    <2>1. UNCHANGED <<offset, paged, pack, told, stage>>
      BY <1>7 DEF OtherSession, vars, builder, client
    <2>2. QED
      BY <1>d, <2>1, PagesKept
  <1>8. QED
    BY <1>1, <1>2, <1>3, <1>4, <1>5, <1>6, <1>7 DEF Next, Build

-----------------------------------------------------------------------------
(* What a client has been given of its pack comes once, and a pack with no *)
(* more pages is all of the candidates.                                    *)
LEMMA GivenOnce ==
  ASSUME TypeOK, RankingsInv, PagesInv, NEW b \in Builds, told[b] = "pack"
  PROVE  IsInjective(Given(b)) /\ (offset[b] = None => ToSet(Given(b)) = Ranks)
  <1>. DEFINE s == pack[b].selected
              e == Excluded(pack[b])
              k == Reached(b)
              t == SubSeq(e, 1, k)
              g == s \o t
              l == Len(s)
  <1>1. s \in Seq(Ranks) /\ pack[b].shown \in Seq(Ranks) /\ paged[b] \in Seq(Ranks)
    BY DEF TypeOK
  <1>2. /\ e \in Seq(Ranks) /\ IsInjective(e) /\ ToSet(e) = Ranks \ ToSet(s)
        /\ Len(e) \in 0 .. Count
    BY <1>1, ExcludedLists
  <1>3. k <= Len(e) /\ pack[b].shown \o paged[b] = t
    BY DEF PagesInv, PagesOf
  <1>4. k \in 0 .. Len(e)
    <2>1. Len(e) \in Nat /\ Count \in Nat
      BY <1>2, PagingAssumption
    <2>2. k \in Nat
      BY <2>1 DEF Reached, TypeOK
    <2>3. QED
      BY <1>3, <2>1, <2>2
  <1>5. Given(b) = g
    <2>1. Given(b) = s \o (pack[b].shown \o paged[b])
      BY <1>1, JoinThree DEF Given
    <2>2. QED
      BY <1>3, <2>1
  <1>6. IsInjective(s)
    BY DEF RankingsInv, Cut
  <1>n. offset[b] = None => k = Len(e)
    BY DEF Reached
  <1>7. /\ t \in Seq(Ranks) /\ Len(t) = k /\ \A i \in 1 .. k : t[i] = e[i]
        /\ ToSet(t) \subseteq ToSet(e)
    BY <1>2, <1>4, FirstOnes
  <1>8. k = Len(e) => t = e
    BY <1>2, AllOfThem
  <1>. HIDE DEF s, e, k, t
  <1>9. l \in Nat /\ k \in Nat /\ DOMAIN s = 1 .. l /\ DOMAIN e = 1 .. Len(e) /\ DOMAIN t = 1 .. k
    BY <1>1, <1>2, <1>4, <1>7
  <1>10. /\ g \in Seq(Ranks) /\ Len(g) = l + k /\ DOMAIN g = 1 .. l + k
         /\ \A i \in 1 .. l + k : g[i] = IF i <= l THEN s[i] ELSE t[i - l]
    <2>1. /\ g \in Seq(Ranks) /\ Len(g) = l + k
          /\ \A i \in 1 .. l + k : g[i] = IF i <= l THEN s[i] ELSE t[i - l]
      BY <1>1, <1>7, ConcatProperties
    <2>2. QED
      BY <2>1, LenProperties
  <1>. HIDE DEF g, l
  <1>11. \A i \in 1 .. l + k : \/ i \in 1 .. l /\ g[i] = s[i] /\ g[i] \in ToSet(s)
                               \/ i - l \in 1 .. k /\ g[i] = e[i - l] /\ g[i] \notin ToSet(s)
    <2>1. ASSUME NEW i \in 1 .. l + k, i <= l
          PROVE  i \in 1 .. l /\ g[i] = s[i] /\ g[i] \in ToSet(s)
      BY <1>9, <1>10, <2>1 DEF ToSet
    <2>2. ASSUME NEW i \in 1 .. l + k, ~(i <= l)
          PROVE  i - l \in 1 .. k /\ g[i] = e[i - l] /\ g[i] \notin ToSet(s)
      <3>1. i - l \in 1 .. k /\ g[i] = t[i - l]
        BY <1>9, <1>10, <2>2
      <3>2. t[i - l] \in ToSet(t)
        BY <1>9, <3>1 DEF ToSet
      <3>3. QED
        BY <1>2, <1>7, <3>1, <3>2
    <2>3. QED
      BY <2>1, <2>2
  <1>12. IsInjective(g)
    <2>1. ASSUME NEW i \in 1 .. l + k, NEW j \in 1 .. l + k, g[i] = g[j]
          PROVE  i = j
      <3>1. CASE i \in 1 .. l /\ g[i] = s[i] /\ g[i] \in ToSet(s)
        <4>1. j \in 1 .. l /\ g[j] = s[j]
          BY <1>11, <2>1, <3>1
        <4>2. QED
          BY <1>6, <1>9, <2>1, <3>1, <4>1 DEF IsInjective
      <3>2. CASE i - l \in 1 .. k /\ g[i] = e[i - l] /\ g[i] \notin ToSet(s)
        <4>1. j - l \in 1 .. k /\ g[j] = e[j - l]
          BY <1>11, <2>1, <3>2
        <4>2. i - l \in DOMAIN e /\ j - l \in DOMAIN e
          BY <1>4, <1>9, <3>2, <4>1
        <4>3. i - l = j - l
          BY <1>2, <2>1, <3>2, <4>1, <4>2 DEF IsInjective
        <4>4. QED
          BY <1>9, <4>3
      <3>3. QED
        BY <1>11, <3>1, <3>2
    <2>2. QED
      BY <1>10, <2>1 DEF IsInjective
  <1>13. ASSUME k = Len(e)
         PROVE  ToSet(g) = Ranks
    <2>1. ToSet(g) \subseteq Ranks
      BY <1>10 DEF ToSet
    <2>2. ASSUME NEW x \in ToSet(s)
          PROVE  x \in ToSet(g)
      <3>1. PICK i \in 1 .. l : s[i] = x
        BY <1>9 DEF ToSet
      <3>2. i \in 1 .. l + k /\ g[i] = x
        BY <1>9, <1>10, <3>1
      <3>3. QED
        BY <1>10, <3>2 DEF ToSet
    <2>3. ASSUME NEW x \in ToSet(e)
          PROVE  x \in ToSet(g)
      <3>1. PICK i \in 1 .. k : t[i] = x
        BY <1>8, <1>9, <1>13 DEF ToSet
      <3>2. l + i \in 1 .. l + k /\ g[l + i] = x
        <4>1. l + i \in 1 .. l + k /\ ~(l + i <= l) /\ (l + i) - l = i
          BY <1>9
        <4>2. QED
          BY <1>10, <3>1, <4>1
      <3>3. QED
        BY <1>10, <3>2 DEF ToSet
    <2>4. QED
      BY <1>2, <2>1, <2>2, <2>3
  <1>14. QED
    BY <1>5, <1>12, <1>13, <1>n

(* expand_context cuts its pages from the evidence that build_context_pack *)
(* has left, and the client of a pack gets every candidate once by them,   *)
(* when the builds of the task are made with one content budget: whatever  *)
(* the tokens, the limits and the response budgets are, and whether the    *)
(* ranking was new or came from the cache.                                 *)
THEOREM CandidatesOnce ==
  ASSUME OneContentBudget
  PROVE  Spec => []EachCandidateOnce
  <1>1. Init => TypeOK /\ RankingsInv /\ PagesInv
    BY TypesInit, OnceInit
  <1>2. TypeOK /\ RankingsInv /\ PagesInv /\ [Next]_vars => (TypeOK /\ RankingsInv /\ PagesInv)'
    BY TypesNext, RankingsNext, PagesNext
  <1>3. TypeOK /\ RankingsInv /\ PagesInv => EachCandidateOnce
    BY GivenOnce DEF EachCandidateOnce
  <1>4. QED
    BY <1>1, <1>2, <1>3, PTL DEF Spec
-----------------------------------------------------------------------------
(* How far a build has come, and what that says of its evidence.           *)
SavedFirst(b) ==
  /\ cachePath = TRUE /\ stage[b] \in {"save_cached", "answer"} => b \in kept
  /\ cachePath = TRUE /\ told[b] = "pack" => b \in kept

PagingInv ==
  /\ stage \in [Builds -> Stages]
  /\ told \in [Builds -> {"nothing", "pack", "error"}]
  /\ cachePath \in BOOLEAN
  /\ \A b \in Builds : SavedFirst(b)

(* What a session reads and saves has the evidence of some packs.          *)
IsTable(table) == table \in [packs : SUBSET Builds, cached : {table.cached}]
Tabled ==
  /\ IsTable(saved) /\ IsTable(other)
  /\ \A b \in Builds : IsTable(copy[b])
  /\ copy = [b \in Builds |-> copy[b]]

LEMMA PagingInit == Init => PagingInv /\ Tabled
  <1>1. IsTable(NoRankings)
    BY DEF NoRankings, IsTable
  <1>2. QED
    BY <1>1 DEF Init, PagingInv, SavedFirst, Stages, Tabled

LEMMA TableWith ==
  ASSUME NEW table, IsTable(table), NEW b \in Builds, NEW cached
  PROVE  /\ IsTable([table EXCEPT !.packs = @ \cup {b}])
         /\ [table EXCEPT !.packs = @ \cup {b}].packs = table.packs \cup {b}
         /\ IsTable([table EXCEPT !.cached = cached])
  <1>. DEFINE more == [table EXCEPT !.packs = @ \cup {b}]
              recached == [table EXCEPT !.cached = cached]
  <1>1. table \in [packs : SUBSET Builds, cached : {table.cached}]
    BY DEF IsTable
  <1>2. more \in [packs : SUBSET Builds, cached : {table.cached}]
    BY <1>1
  <1>3. more.packs = table.packs \cup {b} /\ more.cached = table.cached
    BY <1>1
  <1>4. recached \in [packs : SUBSET Builds, cached : {cached}] /\ recached.cached = cached
    BY <1>1
  <1>5. QED
    BY <1>2, <1>3, <1>4 DEF IsTable

LEMMA TablesNext ==
  ASSUME Tabled, [Next]_vars
  PROVE  Tabled'
  <1>1. ASSUME NEW b \in Builds, NEW table, NEW next, IsTable(table), Save(b, table, next)
        PROVE  Tabled'
    <2>1. saved' \in {saved, table} /\ other' = other /\ copy' = [copy EXCEPT ![b] = table]
      BY <1>1 DEF Save
    <2>2. QED
      BY <1>1, <2>1 DEF Tabled
  <1>2. ASSUME NEW b \in Builds, SaveEvidence(b) \/ SaveCachedRanking(b)
        PROVE  Tabled'
    BY <1>1, <1>2, TableWith DEF SaveEvidence, SaveCachedRanking, Tabled
  <1>3. ASSUME NEW b \in Builds, OpenStore(b)
        PROVE  Tabled'
    BY <1>3 DEF OpenStore, Tabled
  <1>4. CASE OtherSession
    <2>1. IsTable(NoRankings)
      BY DEF NoRankings, IsTable
    <2>2. QED
      BY <1>4, <2>1 DEF OtherSession, builder, Tabled
  <1>5. CASE UNCHANGED <<saved, other, copy>>
    BY <1>5 DEF Tabled
  <1>6. QED
    BY <1>2, <1>3, <1>4, <1>5 DEF Next, Build, LoadCachedRanking, BuildContextPack, Answer,
       Expire, ExpandContext, Restart, builder, vars

(* A build that ends without an answer leaves what was promised as it was. *)
LEMMA FailPreserves ==
  ASSUME PagingInv, NEW b \in Builds, Fail(b), UNCHANGED <<cachePath, kept>>
  PROVE  PagingInv'
  BY DEF Fail, Goto, PagingInv, SavedFirst, Stages

(* So does one that goes on, if its evidence is saved where it has to be.  *)
LEMMA GotoPreserves ==
  ASSUME PagingInv, NEW b \in Builds, NEW next \in Stages, Goto(b, next),
         told' = told, cachePath' = cachePath, kept \subseteq kept',
         cachePath = TRUE /\ next \in {"save_cached", "answer"} => b \in kept'
  PROVE  PagingInv'
  BY DEF Goto, PagingInv, SavedFirst

(* A save keeps what was promised if the table has the build's evidence.   *)
LEMMA SavePreserves ==
  ASSUME PagingInv, NEW b \in Builds, NEW table, NEW next \in Stages, Save(b, table, next),
         cachePath = TRUE => b \in kept \cup table.packs
  PROVE  PagingInv'
  <1>1. cachePath' = cachePath
    BY DEF Save, ranking
  <1>2. CASE kept' = kept \cup table.packs /\ Goto(b, next) /\ UNCHANGED told
    BY <1>1, <1>2, GotoPreserves
  <1>3. CASE Fail(b) /\ UNCHANGED kept
    BY <1>1, <1>3, FailPreserves
  <1>4. QED
    BY <1>2, <1>3 DEF Save

LEMMA PagingNext ==
  ASSUME PagingInv, Tabled, [Next]_vars
  PROVE  PagingInv'
  <1>1. ASSUME NEW b \in Builds, LoadCachedRanking(b)
        PROVE  PagingInv'
    BY <1>1, FailPreserves, GotoPreserves DEF LoadCachedRanking, ranking, Stages
  <1>2. ASSUME NEW b \in Builds, BuildContextPack(b)
        PROVE  PagingInv'
    <2>1. UNCHANGED <<cachePath, kept>>
      BY <1>2 DEF BuildContextPack, ranking
    <2>2. CASE Fail(b)
      BY <2>1, <2>2, FailPreserves
    <2>3. CASE Goto(b, IF cachePath THEN "open" ELSE "answer") /\ UNCHANGED told
      BY <2>1, <2>3, GotoPreserves DEF Stages, PagingInv
    <2>4. QED
      BY <1>2, <2>2, <2>3 DEF BuildContextPack
  <1>3. ASSUME NEW b \in Builds, OpenStore(b)
        PROVE  PagingInv'
    BY <1>3, FailPreserves, GotoPreserves DEF OpenStore, ranking, Stages
  <1>4. ASSUME NEW b \in Builds, SaveEvidence(b)
        PROVE  PagingInv'
    <2>. DEFINE table == [copy[b] EXCEPT !.packs = @ \cup {b}]
    <2>1. Save(b, table, "save_cached")
      BY <1>4 DEF SaveEvidence
    <2>2. b \in kept \cup table.packs
      BY TableWith DEF Tabled
    <2>. HIDE DEF table
    <2>3. QED
      BY <2>1, <2>2, SavePreserves DEF Stages
  <1>5. ASSUME NEW b \in Builds, SaveCachedRanking(b)
        PROVE  PagingInv'
    <2>1. cachePath = TRUE => b \in kept
      BY <1>5 DEF SaveCachedRanking, PagingInv, SavedFirst
    <2>2. QED
      BY <1>5, <2>1, SavePreserves DEF SaveCachedRanking, Stages
  <1>6. ASSUME NEW b \in Builds, Answer(b)
        PROVE  PagingInv'
    BY <1>6 DEF Answer, Goto, ranking, PagingInv, SavedFirst, Stages
  <1>7. ASSUME NEW b \in Builds, Expire(b)
        PROVE  PagingInv'
    BY <1>7 DEF Expire, builder, ranking, PagingInv, SavedFirst
  <1>8. ASSUME NEW b \in Builds, NEW limit \in PageLimits, ExpandContext(b, limit)
        PROVE  PagingInv'
    BY <1>8 DEF ExpandContext, builder, ranking, PagingInv, SavedFirst
  <1>9. CASE Restart
    BY <1>9 DEF Restart, ranking, PagingInv, SavedFirst, Stages
  <1>10. CASE OtherSession
    BY <1>10 DEF OtherSession, builder, client, ranking, PagingInv, SavedFirst
  <1>11. CASE UNCHANGED vars
    BY <1>11 DEF vars, builder, client, ranking, PagingInv, SavedFirst
  <1>12. QED
    BY <1>1, <1>2, <1>3, <1>4, <1>5, <1>6, <1>7, <1>8, <1>9, <1>10, <1>11 DEF Next, Build

(* persistContextPack saves the evidence of a pack before the client hears *)
(* of it: neither a restart nor later builds take its pages away, however  *)
(* many builds there are and whatever fails.                               *)
THEOREM PackIsBackedByEvidence == Spec => []EvidenceBeforePack
  <1>1. Init => PagingInv /\ Tabled
    BY PagingInit
  <1>2. PagingInv /\ Tabled /\ [Next]_vars => (PagingInv /\ Tabled)'
    BY PagingNext, TablesNext
  <1>3. PagingInv => EvidenceBeforePack
    BY DEF PagingInv, SavedFirst, EvidenceBeforePack
  <1>4. QED
    BY <1>1, <1>2, <1>3, PTL DEF Spec
=============================================================================
